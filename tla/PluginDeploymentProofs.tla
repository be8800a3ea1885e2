----------------------- MODULE PluginDeploymentProofs -----------------------
(***************************************************************************)
(* That runs of plugin_deploy.py exclude each other on the plugin volume,  *)
(* start the FE only from a complete build, give the claim back only over  *)
(* an FE that is attested, of before or stopped, attest truthfully, and are*)
(* to whoever waits for them what DeploymentContract says: for any number  *)
(* of runs and of FE starts.                                               *)
(***************************************************************************)
EXTENDS PluginDeployment, TLAPS

-----------------------------------------------------------------------------
(* STEPS OF A RUN                                                          *)
(* The provers reason badly about updates of a record in a function, so    *)
(* these lemmas say, once, what each kind of step leaves of a run.         *)

Others(d) == \A e \in Runs : e # d => run'[e] = run[e]
Changes(d, s, boundary, attested, unsafe, newStart) ==
  /\ run' \in [Runs -> RunRecord] /\ Others(d)
  /\ run'[d].step = s /\ (run[d].failed => run'[d].failed)
  /\ run'[d].boundary = boundary /\ run'[d].attested = attested
  /\ run'[d].unsafe = unsafe /\ run'[d].newStart = newStart
SameEnd(d) == run'[d].failed = run[d].failed /\ run'[d].lost = run[d].lost
Goes(d, s) == Changes(d, s, run[d].boundary, run[d].attested, run[d].unsafe, run[d].newStart)

(* Moves changes nothing but the step.                                     *)
LEMMA StepMoves ==
  ASSUME TypeOK, NEW d \in Runs, NEW s \in Steps, Moves(d, s)
  PROVE  Goes(d, s)
<1>1. run \in [Runs -> RunRecord] /\ run[d] \in RunRecord
  BY DEF TypeOK
<1>2. run' \in [Runs -> RunRecord]
  BY <1>1, Zenon DEF Moves, RunRecord, Steps, BodySteps, WorkerSteps
<1> QED
  BY <1>1, <1>2, Zenon DEF Moves, Changes, Goes, Others, RunRecord

(* An exception makes the run a failed one, and nothing else.              *)
LEMMA StepFails ==
  ASSUME TypeOK, NEW d \in Runs, Fails(d)
  PROVE  Goes(d, "failing") /\ run'[d].failed
<1>1. run \in [Runs -> RunRecord] /\ run[d] \in RunRecord
  BY DEF TypeOK
<1>2. run' \in [Runs -> RunRecord]
  BY <1>1, Zenon DEF Fails, RunRecord, Steps, BodySteps, WorkerSteps
<1> QED
  BY <1>1, <1>2, Zenon DEF Fails, Changes, Goes, Others, RunRecord

(* So does an end without ownership.                                       *)
LEMMA StepEnds ==
  ASSUME TypeOK, NEW d \in Runs, Ends(d)
  PROVE  Goes(d, "finished") /\ run'[d].failed
<1>1. run \in [Runs -> RunRecord] /\ run[d] \in RunRecord
  BY DEF TypeOK
<1>2. run' \in [Runs -> RunRecord]
  BY <1>1, Zenon DEF Ends, RunRecord, Steps, BodySteps, WorkerSteps
<1> QED
  BY <1>1, <1>2, Zenon DEF Ends, Changes, Goes, Others, RunRecord

(* So does one whose reply was lost.                                       *)
LEMMA StepEndsUnsure ==
  ASSUME TypeOK, NEW d \in Runs, EndsUnsure(d)
  PROVE  Goes(d, "finished") /\ run'[d].failed /\ run'[d].lost
<1>1. run \in [Runs -> RunRecord] /\ run[d] \in RunRecord
  BY DEF TypeOK
<1>2. run' \in [Runs -> RunRecord]
  BY <1>1, Zenon DEF EndsUnsure, RunRecord, Steps, BodySteps, WorkerSteps
<1> QED
  BY <1>1, <1>2, Zenon DEF EndsUnsure, Changes, Goes, Others, RunRecord

(* A step that leaves something behind says so.                            *)
LEMMA StepUnsafe ==
  ASSUME TypeOK, NEW d \in Runs, NEW s \in Steps, MovesUnsafe(d, s)
  PROVE  Changes(d, s, run[d].boundary, run[d].attested, TRUE, run[d].newStart)
<1>1. run \in [Runs -> RunRecord] /\ run[d] \in RunRecord
  BY DEF TypeOK
<1>2. run' \in [Runs -> RunRecord]
  BY <1>1, Zenon DEF MovesUnsafe, RunRecord, Steps, BodySteps, WorkerSteps
<1> QED
  BY <1>1, <1>2, Zenon DEF MovesUnsafe, Changes, Goes, Others, RunRecord

(* So does a compose down whose client gave up.                            *)
LEMMA StepDownFails ==
  ASSUME TypeOK, NEW d \in Runs, DownFails(d)
  PROVE  /\ run[d].step \in {"claimed", "removing"} /\ UNCHANGED <<claim, daemon, helper>>
         /\ Changes(d, "leaving", run[d].boundary, run[d].attested, TRUE, run[d].newStart)
         /\ run'[d].failed
<1>1. run \in [Runs -> RunRecord] /\ run[d] \in RunRecord
  BY DEF TypeOK
<1>2. run' \in [Runs -> RunRecord]
  BY <1>1, Zenon DEF DownFails, RunRecord, Steps, BodySteps, WorkerSteps
<1> QED
  BY <1>1, <1>2, Zenon DEF DownFails, Changes, Goes, Others, RunRecord

(* A snapshot leaves the step to WorkerReturns.                            *)
LEMMA StepSnapshots ==
  ASSUME TypeOK, NEW d \in Runs, Snapshots(d)
  PROVE  /\ Doing(d, "snapshot") /\ HelperGoes(d, "done") /\ UNCHANGED <<claim, daemon>>
         /\ Goes(d, run[d].step) /\ SameEnd(d)
<1>1. run \in [Runs -> RunRecord] /\ run[d] \in RunRecord
  BY DEF TypeOK
<1>2. volume \in Contents
  BY DEF TypeOK
<1>3. run' \in [Runs -> RunRecord]
  BY <1>1, <1>2, Zenon DEF Snapshots, RunRecord, Steps, BodySteps, WorkerSteps
<1> QED
  BY <1>1, <1>3, Zenon DEF Snapshots, Changes, Goes, SameEnd, Others, RunRecord

(* The FE of before is written down.                                       *)
LEMMA StepInspect ==
  ASSUME TypeOK, NEW d \in Runs, Inspect(d)
  PROVE  /\ run[d].step = "claimed" /\ UNCHANGED <<claim, daemon, helper>>
         /\ Goes(d, "prepared")
<1>1. run \in [Runs -> RunRecord] /\ run[d] \in RunRecord
  BY DEF TypeOK
<1>2. fe.id \in Nat /\ fe.start \in Nat
  BY DEF TypeOK
<1>3. run' \in [Runs -> RunRecord]
  BY <1>1, <1>2, Zenon DEF Inspect, At, RunRecord, Steps, BodySteps, WorkerSteps
<1> QED
  BY <1>1, <1>3, Zenon DEF Inspect, At, Changes, Goes, Others, RunRecord

(* Nothing is saved of a volume that is not there.                         *)
LEMMA StepBackupEmpty ==
  ASSUME TypeOK, NEW d \in Runs, BackupEmpty(d)
  PROVE  /\ run[d].step = "prepared" /\ helper[d] = NoHelper /\ UNCHANGED <<claim, daemon, helper>>
         /\ Goes(d, "preserved")
<1>1. run \in [Runs -> RunRecord] /\ run[d] \in RunRecord
  BY DEF TypeOK
<1>2. "empty" \in Contents
  BY DEF Contents
<1>3. run' \in [Runs -> RunRecord]
  BY <1>1, <1>2, Zenon DEF BackupEmpty, At, RunRecord, Steps, BodySteps, WorkerSteps
<1> QED
  BY <1>1, <1>3, Zenon DEF BackupEmpty, At, Changes, Goes, Others, RunRecord

(* From here on a failure must stop the FE.                                *)
LEMMA StepBoundary ==
  ASSUME TypeOK, NEW d \in Runs, CrossBoundary(d)
  PROVE  /\ run[d].step = "stopped" /\ UNCHANGED <<claim, daemon, helper>>
         /\ Changes(d, "bounded", TRUE, run[d].attested, run[d].unsafe, run[d].newStart)
<1>1. run \in [Runs -> RunRecord] /\ run[d] \in RunRecord
  BY DEF TypeOK
<1>2. run' \in [Runs -> RunRecord]
  BY <1>1, Zenon DEF CrossBoundary, At, RunRecord, Steps, BodySteps, WorkerSteps
<1> QED
  BY <1>1, <1>2, Zenon DEF CrossBoundary, At, Changes, Goes, Others, RunRecord

(* The process that is ready is the one to attest.                         *)
LEMMA StepReady ==
  ASSUME TypeOK, NEW d \in Runs, WaitReady(d)
  PROVE  /\ run[d].step = "starting" /\ UNCHANGED <<claim, daemon, helper>>
         /\ Changes(d, "ready", run[d].boundary, run[d].attested, run[d].unsafe, fe.start)
<1>1. run \in [Runs -> RunRecord] /\ run[d] \in RunRecord
  BY DEF TypeOK
<1>2. fe.id \in Nat /\ fe.start \in Nat
  BY DEF TypeOK
<1>3. run' \in [Runs -> RunRecord]
  BY <1>1, <1>2, Zenon DEF WaitReady, At, RunRecord, Steps, BodySteps, WorkerSteps
<1> QED
  BY <1>1, <1>3, Zenon DEF WaitReady, At, Changes, Goes, Others, RunRecord

(* The receipt is written for the process that was checked.                *)
LEMMA StepAttest ==
  ASSUME TypeOK, NEW d \in Runs, Attest(d)
  PROVE  /\ run[d].step = "checked" /\ SameProcess(d) /\ UNCHANGED <<claim, daemon, helper>>
         /\ Changes(d, "attested", run[d].boundary, TRUE, run[d].unsafe, run[d].newStart)
<1>1. run \in [Runs -> RunRecord] /\ run[d] \in RunRecord
  BY DEF TypeOK
<1>2. run' \in [Runs -> RunRecord]
  BY <1>1, Zenon DEF Attest, At, RunRecord, Steps, BodySteps, WorkerSteps
<1> QED
  BY <1>1, <1>2, Zenon DEF Attest, At, Changes, Goes, Others, RunRecord

(* A signal ends the body, or is swallowed.                                *)
LEMMA StepInterrupt ==
  ASSUME TypeOK, NEW d \in Runs, Interrupt(d)
  PROVE  /\ run[d].step \in BodySteps /\ UNCHANGED <<claim, daemon, helper>>
         /\ (Goes(d, "failing") /\ run'[d].failed) \/ Goes(d, run[d].step)
<1>1. run \in [Runs -> RunRecord] /\ run[d] \in RunRecord
  BY DEF TypeOK
<1>2. ASSUME run' = [run EXCEPT ![d].step = "failing", ![d].failed = TRUE, ![d].interrupted = TRUE]
      PROVE  Goes(d, "failing") /\ run'[d].failed
  <2>1. run' \in [Runs -> RunRecord]
    BY <1>1, <1>2, Zenon DEF RunRecord, Steps, BodySteps, WorkerSteps
  <2> QED
    BY <1>1, <1>2, <2>1, Zenon DEF Changes, Goes, Others, RunRecord
<1>3. ASSUME run' = [run EXCEPT ![d].interrupted = TRUE]
      PROVE  Goes(d, run[d].step)
  <2>1. run' \in [Runs -> RunRecord]
    BY <1>1, <1>3, Zenon DEF RunRecord, Steps, BodySteps, WorkerSteps
  <2> QED
    BY <1>1, <1>3, <2>1, Zenon DEF Changes, Goes, Others, RunRecord
<1> QED
  BY <1>2, <1>3, Zenon DEF Interrupt

(* A helper container goes from one state to the next.                     *)
LEMMA HelperMoves ==
  ASSUME TypeOK, NEW d \in Runs, NEW at \in {"running", "clearing", "done", "failed"}, HelperGoes(d, at)
  PROVE  /\ helper' \in [Runs -> HelperRecord]
         /\ helper'[d].at = at /\ helper'[d].op = helper[d].op /\ helper'[d].known = helper[d].known
         /\ \A e \in Runs : e # d => helper'[e] = helper[e]
<1>1. helper \in [Runs -> HelperRecord] /\ helper[d] \in HelperRecord
  BY DEF TypeOK
<1>2. helper' \in [Runs -> HelperRecord]
  BY <1>1, Zenon DEF HelperGoes, HelperRecord
<1> QED
  BY <1>1, <1>2, Zenon DEF HelperGoes, HelperRecord

(* The FE stops: it is the same container, after the same start.           *)
LEMMA Stops ==
  ASSUME TypeOK, FeStops
  PROVE  /\ fe' \in [id: Nat, running: BOOLEAN, start: Nat]
         /\ fe'.running = FALSE /\ fe'.start = fe.start /\ UNCHANGED <<loads, starts>>
<1>1. fe \in [id: Nat, running: BOOLEAN, start: Nat]
  BY DEF TypeOK
<1> QED
  BY <1>1, Zenon DEF FeStops

(* It starts: it has a start that no process had before.                   *)
LEMMA StartsFe ==
  ASSUME TypeOK, FeStarts
  PROVE  /\ fe' \in [id: Nat, running: BOOLEAN, start: Nat]
         /\ starts' \in 0..MaxStarts /\ starts' = starts + 1 /\ fe'.start = starts'
         /\ loads' \in [0..MaxStarts -> Contents] /\ ~fe.running /\ fe'.running /\ fe'.id # 0
         /\ loads'[starts'] = volume
         /\ \A n \in 0..starts : loads'[n] = loads[n]
  BY DeploymentAssumption DEF TypeOK, FeStarts

-----------------------------------------------------------------------------
(* TYPES, AND THAT A RUN LEAVES THE OTHERS ALONE                           *)

(* Whatever a run's process, the daemon for it, or a signal does.          *)
ByRun(d) == RunStep(d) \/ DaemonStep(d) \/ Interrupt(d) \/ Kill(d)
Around == FeDies \/ OutsiderStarts \/ OutsiderWrites

Apart(d) ==
  \A e \in Runs : e # d => run'[e] = run[e] /\ helper'[e] = helper[e] /\ down'[e] = down[e]

LEMMA NextCases == Next <=> (\E d \in Runs : ByRun(d)) \/ Around
  BY DEF Next, ByRun, Around

(* What is left of a helper that was removed.                              *)
LEMMA HelperGone ==
  NoHelper \in HelperRecord /\ NoHelper.op = "none" /\ NoHelper.at = "gone" /\ ~NoHelper.known
  BY DEF NoHelper, HelperRecord

(* The types hold at first.                                                *)
LEMMA TypeInit == Init => TypeOK
<1> SUFFICES ASSUME Init PROVE TypeOK
  OBVIOUS
<1>1. claim \in Runs \cup {Nobody} /\ volume \in Contents /\ starts \in 0..MaxStarts
  BY DeploymentAssumption DEF Init, Contents
<1>2. fe \in [id: Nat, running: BOOLEAN, start: Nat] /\ loads \in [0..MaxStarts -> Contents]
  <2>1. NoFe \in [id: Nat, running: BOOLEAN, start: Nat]
    BY DEF NoFe
  <2> QED
    BY <2>1 DEF Init, Contents
<1>3. helper \in [Runs -> HelperRecord] /\ down \in [Runs -> {"none", "fe", "volume", "done"}]
  BY DEF Init, NoHelper, HelperRecord
<1>4. run \in [Runs -> RunRecord]
  <2>1. NewRun \in RunRecord
    BY DEF NewRun, RunRecord, Steps, Contents
  <2>2. [NewRun EXCEPT !.teardown = TRUE] \in RunRecord
    BY <2>1, Zenon DEF RunRecord
  <2> QED
    BY <2>1, <2>2, Zenon DEF Init
<1> QED
  BY <1>1, <1>2, <1>3, <1>4 DEF TypeOK

(* Every step of a run keeps the types and leaves the other runs, their    *)
(* helpers and their teardowns alone.                                      *)
LEMMA TypeStep ==
  ASSUME TypeOK, NEW d \in Runs, ByRun(d)
  PROVE  TypeOK' /\ Apart(d)
<1> USE DEF TypeOK, Apart, Steps, BodySteps, WorkerSteps
<1>1. CASE Claim(d)
  <2>1. Goes(d, "claimed") \/ Goes(d, "finished")
    BY <1>1, StepMoves, StepEndsUnsure DEF Claim
  <2> QED
    BY <1>1, <2>1 DEF Claim, Goes, Changes, Others, daemon
<1>2. CASE ClaimOccupied(d)
  <2>1. Goes(d, "finished")
    BY <1>2, StepEnds DEF ClaimOccupied
  <2> QED
    BY <1>2, <2>1 DEF ClaimOccupied, Goes, Changes, Others, daemon
<1>3. CASE Leave(d)
  <2>1. Goes(d, "finished")
    BY <1>3, StepMoves, StepEndsUnsure DEF Leave, LeaveSafely
  <2>2. claim' \in Runs \cup {Nobody}
    BY <1>3 DEF Leave, LeaveSafely
  <2>3. /\ helper' \in [Runs -> HelperRecord]
        /\ \A e \in Runs : e # d => helper'[e] = helper[e]
    BY <1>3, HelperGone DEF Leave, CleanUp
  <2> QED
    BY <1>3, <2>1, <2>2, <2>3 DEF Leave, Goes, Changes, Others, daemon
<1>4. CASE CreateHelper(d)
  <2>1. run' \in [Runs -> RunRecord] /\ Others(d)
    BY <1>4, StepFails DEF CreateHelper, Goes, Changes, Others
  <2>2. Operation[run[d].step] \in {"snapshot", "install", "verify"}
    BY <1>4 DEF CreateHelper, Operation
  <2>3. /\ helper' \in [Runs -> HelperRecord]
        /\ \A e \in Runs : e # d => helper'[e] = helper[e]
    BY <1>4, <2>2 DEF CreateHelper, HelperRecord
  <2> QED
    BY <1>4, <2>1, <2>3 DEF CreateHelper, Others, daemon
<1>5. CASE StartHelper(d)
  <2> QED
    BY <1>5, HelperMoves DEF StartHelper, daemon
<1>6. CASE Snapshots(d)
  <2> QED
    BY <1>6, HelperMoves, StepSnapshots DEF Goes, Changes, Others, daemon
<1>7. CASE ClearVolume(d)
  <2> QED
    BY <1>7, HelperMoves DEF ClearVolume, Contents
<1>8. CASE CopyBuild(d)
  <2>1. BuildOf[d] \in Contents
    BY DEF Contents, Builds
  <2> QED
    BY <1>8, <2>1, HelperMoves DEF CopyBuild
<1>9. CASE Verifies(d)
  <2> QED
    BY <1>9, HelperMoves DEF Verifies, daemon
<1>10. CASE HelperFails(d)
  <2> QED
    BY <1>10, HelperMoves DEF HelperFails, daemon
<1>11. CASE WorkerReturns(d)
  <2>1. Following[run[d].step] \in Steps
    BY <1>11 DEF WorkerReturns, Following
  <2>2. Goes(d, Following[run[d].step])
    BY <1>11, <2>1, StepMoves DEF WorkerReturns
  <2> QED
    BY <1>11, <2>2 DEF WorkerReturns, NoHelper, HelperRecord, Goes, Changes, Others, daemon
<1>12. CASE Inspect(d)
  <2> QED
    BY <1>12, StepInspect DEF Goes, Changes, Others, daemon
<1>13. CASE BackupEmpty(d)
  <2> QED
    BY <1>13, StepBackupEmpty DEF Goes, Changes, Others, daemon
<1>14. CASE StopFe(d)
  <2>1. Goes(d, "stopped")
    BY <1>14, StepMoves DEF StopFe
  <2> QED
    BY <1>14, <2>1, Stops DEF StopFe, Goes, Changes, Others, daemon
<1>15. CASE CrossBoundary(d)
  <2> QED
    BY <1>15, StepBoundary DEF Changes, Others, daemon
<1>16. CASE PrepareVolume(d)
  <2>1. Goes(d, "staged")
    BY <1>16, StepMoves DEF PrepareVolume
  <2> QED
    BY <1>16, <2>1 DEF PrepareVolume, Contents, Goes, Changes, Others, daemon
<1>17. CASE StartFe(d)
  <2>1. Goes(d, "starting")
    BY <1>17, StepMoves DEF StartFe
  <2> QED
    BY <1>17, <2>1, StartsFe DEF StartFe, Goes, Changes, Others, daemon
<1>18. CASE WaitReady(d)
  <2> QED
    BY <1>18, StepReady DEF Changes, Others, daemon
<1>19. CASE Confirm(d)
  <2>1. Goes(d, "confirmed")
    BY <1>19, StepMoves DEF Confirm
  <2> QED
    BY <1>19, <2>1 DEF Confirm, Goes, Changes, Others, daemon
<1>20. CASE ReadRegistry(d)
  <2>1. Goes(d, "matched")
    BY <1>20, StepMoves DEF ReadRegistry
  <2> QED
    BY <1>20, <2>1 DEF ReadRegistry, Goes, Changes, Others, daemon
<1>21. CASE SmokeEnds(d)
  <2>1. Goes(d, "leaving")
    BY <1>21, StepMoves DEF SmokeEnds
  <2> QED
    BY <1>21, <2>1 DEF SmokeEnds, Goes, Changes, Others, daemon
<1>22. CASE Kill(d)
  <2>1. Goes(d, "killed")
    BY <1>22, StepMoves DEF Kill
  <2> QED
    BY <1>22, <2>1 DEF Kill, Goes, Changes, Others, daemon
<1>23. CASE Attest(d)
  <2> QED
    BY <1>23, StepAttest DEF Changes, Others, daemon
<1>24. CASE Fail(d)
  <2> QED
    BY <1>24, StepFails DEF Fail, Goes, Changes, Others, daemon
<1>25. CASE Interrupt(d)
  <2> QED
    BY <1>25, StepInterrupt DEF Goes, Changes, Others, daemon
<1>26. CASE CleanupHelpers(d)
  <2>1. run' \in [Runs -> RunRecord] /\ Others(d)
    BY <1>26, StepMoves, StepUnsafe DEF CleanupHelpers, Goes, Changes
  <2>2. /\ helper' \in [Runs -> HelperRecord]
        /\ \A e \in Runs : e # d => helper'[e] = helper[e]
    BY <1>26, HelperGone DEF CleanupHelpers
  <2> QED
    BY <1>26, <2>1, <2>2 DEF CleanupHelpers, Others, daemon
<1>27. CASE FailClosed(d)
  <2>1. run' \in [Runs -> RunRecord] /\ Others(d)
    BY <1>27, StepMoves, StepUnsafe DEF FailClosed, Goes, Changes
  <2> QED
    BY <1>27, <2>1, Stops DEF FailClosed, Others, daemon
<1>28. CASE RequestDown(d)
  <2>1. Goes(d, "removing")
    BY <1>28, StepMoves DEF RequestDown
  <2> QED
    BY <1>28, <2>1 DEF RequestDown, Goes, Changes, Others, daemon
<1>29. CASE DownRemovesFe(d)
  <2> QED
    BY <1>29 DEF DownRemovesFe, NoFe
<1>30. CASE DownRemovesVolume(d)
  <2> QED
    BY <1>30 DEF DownRemovesVolume, Contents
<1>31. CASE DownReturns(d)
  <2>1. Goes(d, "leaving")
    BY <1>31, StepMoves DEF DownReturns
  <2> QED
    BY <1>31, <2>1 DEF DownReturns, Goes, Changes, Others, daemon
<1>32. CASE DownFails(d)
  <2> QED
    BY <1>32, StepDownFails DEF Changes, Others, daemon
<1> QED
  BY <1>1, <1>2, <1>3, <1>4, <1>5, <1>6, <1>7, <1>8, <1>9, <1>10, <1>11, <1>12, <1>13,
     <1>14, <1>15, <1>16, <1>17, <1>18, <1>19, <1>20, <1>21, <1>22, <1>23, <1>24, <1>25,
     <1>26, <1>27, <1>28, <1>29, <1>30, <1>31, <1>32
  DEF ByRun, RunStep, DaemonStep

(* The FE and outsiders keep the types too.                                *)
LEMMA TypeAround ==
  ASSUME TypeOK, Around
  PROVE  TypeOK'
<1>1. CASE FeDies
  BY <1>1, Stops DEF FeDies, TypeOK
<1>2. CASE OutsiderStarts
  BY <1>2, StartsFe DEF OutsiderStarts, TypeOK
<1>3. CASE OutsiderWrites
  BY <1>3 DEF OutsiderWrites, TypeOK, Contents
<1> QED
  BY <1>1, <1>2, <1>3 DEF Around

-----------------------------------------------------------------------------
(* WHAT A STEP CAN DO                                                      *)
(* The steps of a run again, with all that the invariant asks of them and  *)
(* without updates: those that change nothing but the run's own state, ... *)
HelperIs(d, op, at, known) ==
  helper'[d].op = op /\ helper'[d].at = at /\ helper'[d].known = known

Quiet(d) ==
  /\ UNCHANGED <<claim, volume, fe, loads, starts, down, helper>>
  /\ \/ run[d].step = "new" /\ Goes(d, "finished") /\ run'[d].failed
     \/ run[d].step = "claimed" /\ Goes(d, "prepared")
     \/ run[d].step = "prepared" /\ ~helper[d].known /\ Goes(d, "preserved")
     \/ /\ run[d].step = "stopped"
        /\ Changes(d, "bounded", TRUE, run[d].attested, run[d].unsafe, run[d].newStart)
     \/ /\ run[d].step = "starting"
        /\ Changes(d, "ready", run[d].boundary, run[d].attested, run[d].unsafe, fe.start)
     \/ run[d].step = "ready" /\ Goes(d, "confirmed")
     \/ run[d].step = "confirmed" /\ loads[fe.start] = BuildOf[d] /\ Goes(d, "matched")
     \/ /\ run[d].step = "checked" /\ fe.running /\ fe.start = run[d].newStart
        /\ Changes(d, "attested", run[d].boundary, TRUE, run[d].unsafe, run[d].newStart)
     \/ run[d].step = "attested" /\ Goes(d, "leaving")
     \/ run[d].step \in BodySteps /\ Goes(d, "failing") /\ run'[d].failed
     \/ run[d].step \in BodySteps /\ Goes(d, run[d].step)
     \/ run[d].step \notin {"new", "finished", "killed"} /\ Goes(d, "killed")
     \/ /\ run[d].step \in {"claimed", "removing"}
        /\ Changes(d, "leaving", run[d].boundary, run[d].attested, TRUE, run[d].newStart)
        /\ run'[d].failed
     \/ run[d].step = "closing" /\ (~run[d].boundary \/ run[d].attested) /\ Goes(d, "leaving")
     \/ /\ run[d].step = "closing"
        /\ Changes(d, "leaving", run[d].boundary, run[d].attested, TRUE, run[d].newStart)

(* ... those about the claim, ...                                          *)
Claims(d) ==
  /\ run[d].step = "new" /\ claim = Nobody /\ claim' = d
  /\ Goes(d, "claimed") \/ (Goes(d, "finished") /\ run'[d].failed /\ run'[d].lost)
  /\ UNCHANGED <<volume, fe, loads, starts, down, helper>>
Leaves(d) ==
  /\ run[d].step = "leaving" /\ Goes(d, "finished")
  /\ \/ claim' = claim /\ (run[d].unsafe \/ (run'[d].failed /\ run'[d].lost))
     \/ claim' = Nobody /\ ~run[d].unsafe
  /\ helper'[d] = helper[d] \/ HelperIs(d, "none", "gone", FALSE)
  /\ UNCHANGED <<volume, fe, loads, starts, down>>

(* ... those about the helper, ...                                         *)
Creates(d) ==
  /\ run[d].step \in WorkerSteps /\ (run[d].step = "staged" => ~fe.running) /\ ~helper[d].known
  /\ \/ HelperIs(d, Operation[run[d].step], "created", TRUE) /\ run' = run
     \/ HelperIs(d, Operation[run[d].step], "created", FALSE) /\ Goes(d, "failing") /\ run'[d].failed
  /\ UNCHANGED <<claim, volume, fe, loads, starts, down>>
Works(d) ==
  /\ Goes(d, run[d].step) /\ SameEnd(d)
  /\ \/ helper[d].at = "created" /\ helper[d].known
        /\ HelperIs(d, helper[d].op, "running", helper[d].known) /\ volume' = volume
     \/ helper[d].at = "running" /\ helper[d].op = "snapshot"
        /\ HelperIs(d, helper[d].op, "done", helper[d].known) /\ volume' = volume
     \/ helper[d].at = "running" /\ helper[d].op = "verify" /\ volume = BuildOf[d]
        /\ HelperIs(d, helper[d].op, "done", helper[d].known) /\ volume' = volume
     \/ helper[d].at = "running" /\ helper[d].op = "install"
        /\ HelperIs(d, helper[d].op, "clearing", helper[d].known) /\ volume' = "torn"
     \/ helper[d].at = "clearing"
        /\ HelperIs(d, helper[d].op, "done", helper[d].known) /\ volume' = BuildOf[d]
     \/ helper[d].at \in {"running", "clearing"}
        /\ HelperIs(d, helper[d].op, "failed", helper[d].known) /\ volume' = volume
  /\ UNCHANGED <<claim, fe, loads, starts, down>>
Removes(d) ==
  /\ HelperIs(d, "none", "gone", FALSE)
  /\ \/ run[d].step \in WorkerSteps /\ helper[d].at = "done" /\ Goes(d, Following[run[d].step])
     \/ run[d].step = "failing" /\ Goes(d, "closing")
  /\ UNCHANGED <<claim, volume, fe, loads, starts, down>>
Abandons(d) ==
  /\ run[d].step = "failing"
  /\ \/ ~helper[d].known /\ Goes(d, "closing")
     \/ Changes(d, "closing", run[d].boundary, run[d].attested, TRUE, run[d].newStart)
  /\ UNCHANGED <<claim, volume, fe, loads, starts, down, helper>>

(* ... and those about the FE and the volume.                              *)
Halts(d) ==
  /\ fe'.running = FALSE /\ fe'.start = fe.start
  /\ \/ run[d].step = "preserved" /\ Goes(d, "stopped")
     \/ run[d].step = "closing" /\ run[d].boundary /\ ~run[d].attested /\ Goes(d, "leaving")
     \/ /\ run[d].step = "closing"
        /\ Changes(d, "leaving", run[d].boundary, run[d].attested, TRUE, run[d].newStart)
  /\ UNCHANGED <<claim, volume, loads, starts, down, helper>>
Prepares(d) ==
  /\ run[d].step = "bounded" /\ Goes(d, "staged")
  /\ ~fe.running /\ volume' \in {volume, "empty"}
  /\ UNCHANGED <<claim, fe, loads, starts, down, helper>>
Launches(d) ==
  /\ run[d].step = "verified" /\ Goes(d, "starting")
  /\ ~fe.running /\ fe'.running /\ fe'.id # 0
  /\ starts' = starts + 1 /\ fe'.start = starts' /\ loads'[starts'] = volume
  /\ \A n \in 0..starts : loads'[n] = loads[n]
  /\ UNCHANGED <<claim, volume, down, helper>>
TakesDown(d) ==
  /\ \/ /\ run[d].step = "claimed" /\ Goes(d, "removing") /\ down'[d] = "fe"
        /\ UNCHANGED <<volume, fe>>
     \/ /\ down[d] = "fe" /\ run' = run /\ down'[d] = "volume" /\ volume' = volume
        /\ fe'.running = FALSE /\ fe'.start = 0
     \/ /\ down[d] = "volume" /\ run' = run /\ down'[d] = "done" /\ fe' = fe
        /\ fe.id = 0 /\ volume' = "absent"
     \/ /\ run[d].step = "removing" /\ Goes(d, "leaving") /\ down'[d] = "none"
        /\ UNCHANGED <<volume, fe>>
  /\ UNCHANGED <<claim, loads, starts, helper>>

Effect(d) ==
  \/ Quiet(d) \/ Claims(d) \/ Leaves(d) \/ Creates(d) \/ Works(d) \/ Removes(d) \/ Abandons(d)
  \/ Halts(d) \/ Prepares(d) \/ Launches(d) \/ TakesDown(d)

(* That is all that a step does.                                           *)
LEMMA Effects ==
  ASSUME TypeOK, NEW d \in Runs, ByRun(d)
  PROVE  Effect(d)
<1> USE DEF Effect, daemon, At, TypeOK
<1>1. CASE Claim(d)
  <2>1. Goes(d, "claimed") \/ (Goes(d, "finished") /\ run'[d].failed /\ run'[d].lost)
    BY <1>1, StepMoves, StepEndsUnsure DEF Claim, Steps, BodySteps
  <2> QED
    BY <1>1, <2>1 DEF Claim, Claims
<1>2. CASE ClaimOccupied(d)
  <2>1. Goes(d, "finished") /\ run'[d].failed
    BY <1>2, StepEnds DEF ClaimOccupied
  <2> QED
    BY <1>2, <2>1 DEF ClaimOccupied, Quiet
<1>3. CASE Leave(d)
  <2>1. Goes(d, "finished")
    BY <1>3, StepMoves, StepEndsUnsure DEF Leave, LeaveSafely, Steps
  <2>2. helper'[d] = helper[d] \/ HelperIs(d, "none", "gone", FALSE)
    BY <1>3, HelperGone DEF Leave, CleanUp, HelperIs
  <2>3. \/ claim' = claim /\ (run[d].unsafe \/ (run'[d].failed /\ run'[d].lost))
        \/ claim' = Nobody /\ ~run[d].unsafe
    BY <1>3, StepEndsUnsure DEF Leave, LeaveSafely
  <2> QED
    BY <1>3, <2>1, <2>2, <2>3 DEF Leave, Leaves
<1>4. CASE CreateHelper(d)
  <2>1. PICK known \in BOOLEAN :
          /\ helper' = [helper EXCEPT ![d] = [op |-> Operation[run[d].step], at |-> "created",
                                               known |-> known]]
          /\ IF known THEN UNCHANGED run ELSE Fails(d)
    BY <1>4, Zenon DEF CreateHelper
  <2>2. HelperIs(d, Operation[run[d].step], "created", known)
    BY <2>1 DEF HelperIs
  <2>3. IF known THEN run' = run ELSE Goes(d, "failing") /\ run'[d].failed
    BY <2>1, StepFails
  <2> QED
    BY <1>4, <2>2, <2>3, HelperGone DEF CreateHelper, Creates
<1>5. CASE StartHelper(d)
  <2>1. Goes(d, run[d].step) /\ SameEnd(d)
    BY <1>5 DEF StartHelper, Goes, SameEnd, Changes, Others
  <2>2. HelperIs(d, helper[d].op, "running", helper[d].known)
    BY <1>5, HelperMoves DEF StartHelper, HelperIs
  <2> QED
    BY <1>5, <2>1, <2>2 DEF StartHelper, Works
<1>6. CASE Snapshots(d)
  <2>1. Goes(d, run[d].step) /\ SameEnd(d)
    BY <1>6, StepSnapshots
  <2>2. HelperIs(d, helper[d].op, "done", helper[d].known)
    BY <1>6, StepSnapshots, HelperMoves DEF HelperIs
  <2> QED
    BY <1>6, <2>1, <2>2, StepSnapshots DEF Doing, Works
<1>7. CASE ClearVolume(d)
  <2>1. Goes(d, run[d].step) /\ SameEnd(d)
    BY <1>7 DEF ClearVolume, Goes, SameEnd, Changes, Others
  <2>2. HelperIs(d, helper[d].op, "clearing", helper[d].known)
    BY <1>7, HelperMoves DEF ClearVolume, HelperIs
  <2> QED
    BY <1>7, <2>1, <2>2 DEF ClearVolume, Doing, Works
<1>8. CASE CopyBuild(d)
  <2>1. Goes(d, run[d].step) /\ SameEnd(d)
    BY <1>8 DEF CopyBuild, Goes, SameEnd, Changes, Others
  <2>2. HelperIs(d, helper[d].op, "done", helper[d].known)
    BY <1>8, HelperMoves DEF CopyBuild, HelperIs
  <2> QED
    BY <1>8, <2>1, <2>2 DEF CopyBuild, Doing, Works
<1>9. CASE Verifies(d)
  <2>1. Goes(d, run[d].step) /\ SameEnd(d)
    BY <1>9 DEF Verifies, Goes, SameEnd, Changes, Others
  <2>2. HelperIs(d, helper[d].op, "done", helper[d].known)
    BY <1>9, HelperMoves DEF Verifies, HelperIs
  <2> QED
    BY <1>9, <2>1, <2>2 DEF Verifies, Doing, Works
<1>10. CASE HelperFails(d)
  <2>1. Goes(d, run[d].step) /\ SameEnd(d)
    BY <1>10 DEF HelperFails, Goes, SameEnd, Changes, Others
  <2>2. HelperIs(d, helper[d].op, "failed", helper[d].known)
    BY <1>10, HelperMoves DEF HelperFails, HelperIs
  <2> QED
    BY <1>10, <2>1, <2>2 DEF HelperFails, Doing, Works
<1>11. CASE WorkerReturns(d)
  <2>1. Following[run[d].step] \in Steps
    BY <1>11 DEF WorkerReturns, WorkerSteps, Following, Steps, BodySteps
  <2>2. Goes(d, Following[run[d].step])
    BY <1>11, <2>1, StepMoves DEF WorkerReturns
  <2>3. HelperIs(d, "none", "gone", FALSE)
    BY <1>11, HelperGone DEF WorkerReturns, HelperIs
  <2> QED
    BY <1>11, <2>2, <2>3 DEF WorkerReturns, Removes
<1>12. CASE Inspect(d)
  BY <1>12, StepInspect DEF Quiet
<1>13. CASE BackupEmpty(d)
  BY <1>13, StepBackupEmpty, HelperGone DEF Quiet
<1>14. CASE StopFe(d)
  <2>1. Goes(d, "stopped")
    BY <1>14, StepMoves DEF StopFe, Steps, BodySteps
  <2> QED
    BY <1>14, <2>1, Stops DEF StopFe, Halts
<1>15. CASE CrossBoundary(d)
  BY <1>15, StepBoundary DEF Quiet
<1>16. CASE PrepareVolume(d)
  <2>1. Goes(d, "staged")
    BY <1>16, StepMoves DEF PrepareVolume, Steps, BodySteps, WorkerSteps
  <2> QED
    BY <1>16, <2>1 DEF PrepareVolume, Prepares
<1>17. CASE StartFe(d)
  <2>1. Goes(d, "starting")
    BY <1>17, StepMoves DEF StartFe, Steps, BodySteps
  <2> QED
    BY <1>17, <2>1, StartsFe DEF StartFe, Launches
<1>18. CASE WaitReady(d)
  BY <1>18, StepReady DEF Quiet
<1>19. CASE Confirm(d)
  <2>1. Goes(d, "confirmed")
    BY <1>19, StepMoves DEF Confirm, Steps, BodySteps
  <2> QED
    BY <1>19, <2>1 DEF Confirm, Quiet
<1>20. CASE ReadRegistry(d)
  <2>1. Goes(d, "matched")
    BY <1>20, StepMoves DEF ReadRegistry, Steps, BodySteps, WorkerSteps
  <2> QED
    BY <1>20, <2>1 DEF ReadRegistry, Quiet
<1>21. CASE Attest(d)
  BY <1>21, StepAttest DEF SameProcess, Quiet
<1>22. CASE SmokeEnds(d)
  <2>1. Goes(d, "leaving")
    BY <1>22, StepMoves DEF SmokeEnds, Steps, BodySteps
  <2> QED
    BY <1>22, <2>1 DEF SmokeEnds, Quiet
<1>23. CASE Fail(d)
  BY <1>23, StepFails DEF Fail, Quiet
<1>24. CASE Interrupt(d)
  BY <1>24, StepInterrupt DEF Quiet
<1>25. CASE Kill(d)
  <2>1. Goes(d, "killed")
    BY <1>25, StepMoves DEF Kill, Steps, BodySteps
  <2> QED
    BY <1>25, <2>1 DEF Kill, Quiet
<1>26. CASE CleanupHelpers(d)
  <2>1. CASE Moves(d, "closing") /\ helper' = [helper EXCEPT ![d] = IF @.known THEN NoHelper ELSE @]
    <3>1. Goes(d, "closing")
      BY <2>1, StepMoves DEF Steps
    <3>2. CASE helper[d].known
      BY <1>26, <2>1, <3>1, <3>2, HelperGone DEF CleanupHelpers, Removes, HelperIs
    <3>3. CASE ~helper[d].known
      <4>1. helper' = helper
        BY <2>1, <3>3
      <4> QED
        BY <1>26, <3>1, <3>3, <4>1 DEF CleanupHelpers, Abandons
    <3> QED
      BY <3>2, <3>3
  <2>2. CASE MovesUnsafe(d, "closing") /\ UNCHANGED helper
    <3>1. Changes(d, "closing", run[d].boundary, run[d].attested, TRUE, run[d].newStart)
      BY <2>2, StepUnsafe DEF Steps
    <3> QED
      BY <1>26, <2>2, <3>1 DEF CleanupHelpers, Abandons
  <2> QED
    BY <1>26, <2>1, <2>2, Zenon DEF CleanupHelpers
<1>27. CASE FailClosed(d)
  <2>1. Moves(d, "leaving") => Goes(d, "leaving")
    BY StepMoves DEF Steps
  <2>2. MovesUnsafe(d, "leaving")
          => Changes(d, "leaving", run[d].boundary, run[d].attested, TRUE, run[d].newStart)
    BY StepUnsafe DEF Steps
  <2>3. CASE ~run[d].boundary \/ run[d].attested
    BY <1>27, <2>1, <2>3 DEF FailClosed, Quiet
  <2>4. CASE run[d].boundary /\ ~run[d].attested
    BY <1>27, <2>1, <2>2, <2>4, Stops DEF FailClosed, Quiet, Halts
  <2> QED
    BY <2>3, <2>4
<1>28. CASE RequestDown(d)
  <2>1. Goes(d, "removing")
    BY <1>28, StepMoves DEF RequestDown, Steps, BodySteps
  <2> QED
    BY <1>28, <2>1 DEF RequestDown, TakesDown
<1>29. CASE DownRemovesFe(d)
  BY <1>29 DEF DownRemovesFe, TakesDown, NoFe
<1>30. CASE DownRemovesVolume(d)
  BY <1>30 DEF DownRemovesVolume, TakesDown
<1>31. CASE DownReturns(d)
  <2>1. Goes(d, "leaving")
    BY <1>31, StepMoves DEF DownReturns, Steps, BodySteps
  <2> QED
    BY <1>31, <2>1 DEF DownReturns, TakesDown
<1>32. CASE DownFails(d)
  BY <1>32, StepDownFails DEF Quiet
<1> QED
  BY <1>1, <1>2, <1>3, <1>4, <1>5, <1>6, <1>7, <1>8, <1>9, <1>10, <1>11, <1>12, <1>13,
     <1>14, <1>15, <1>16, <1>17, <1>18, <1>19, <1>20, <1>21, <1>22, <1>23, <1>24, <1>25,
     <1>26, <1>27, <1>28, <1>29, <1>30, <1>31, <1>32
  DEF ByRun, RunStep, DaemonStep

-----------------------------------------------------------------------------
(* THE INDUCTIVE INVARIANT                                                 *)
(* The steps of a run that has the claim.                                  *)
Holding == BodySteps \cup {"removing", "failing", "closing", "leaving"}
(* Its steps before and after the boundary of installation.                *)
Before == {"new", "claimed", "prepared", "preserved", "stopped", "removing"}
After == {"bounded", "staged", "installed", "verified", "starting", "ready", "confirmed",
          "matched", "checked", "attested"}
(* It can no longer end in a way that gives the claim back.                *)
Kept(d) == run[d].step \in {"closing", "leaving", "finished"} /\ run[d].unsafe

(* A helper or a compose down is that of the step its run is at, or the    *)
(* run is dead, or gives the claim back no more.                           *)
Fits(d) ==
  /\ helper[d].known => run[d].step \in WorkerSteps \cup {"failing", "killed"} \/ Kept(d)
  /\ helper[d].known /\ run[d].step \in WorkerSteps => helper[d].op = Operation[run[d].step]
  /\ helper[d].at \in {"running", "clearing", "done", "failed"} => helper[d].known
  /\ helper[d].at = "clearing" => helper[d].op = "install"
  /\ down[d] # "none" => run[d].step \in {"removing", "killed"} \/ Kept(d)
  /\ run[d].step \in Before => ~run[d].boundary
  /\ run[d].step \in After => run[d].boundary
  /\ run[d].step = "attested" => run[d].attested
  /\ run[d].step \in Before \cup (After \ {"attested"}) => ~run[d].attested
StepsFit == \A d \in Runs : Fits(d)

(* Whoever has or left anything in the daemon has the claim.               *)
Owns ==
  \A d \in Runs : run[d].step \in Holding \/ helper[d].known \/ down[d] # "none" => claim = d

(* While an install helper is there, nobody starts the FE.                 *)
InstallsStopped == ~Outsiders => \A d \in Runs : Installs(d) => ~fe.running

(* What a run verified stays until the run itself starts the FE.           *)
Verified(d) ==
  run[d].step = "verified" \/ (run[d].step = "installed" /\ helper[d].at = "done")
VerifiedStays == ~Outsiders => \A d \in Runs : Verified(d) => volume = BuildOf[d]

(* The FE that serves is the one of before, or one that a run attested.    *)
Served ==
  fe.running /\ fe.start # 0 => \E d \in Runs : run[d].attested /\ run[d].newStart = fe.start

(* This can fail only while a run has crossed the boundary and has neither *)
(* attested nor given up; before it gives the claim back the FE is stopped.*)
Vouches(d) ==
  /\ run[d].step \in Holding /\ (run[d].boundary => run[d].attested) => Served
  /\ run[d].step = "leaving" /\ run[d].boundary /\ ~run[d].attested /\ ~run[d].unsafe => ~fe.running
ServedBeyond == ~Outsiders => (claim = Nobody => Served) /\ \A d \in Runs : Vouches(d)

(* A process, once gone, does not come back; and the one whose registry    *)
(* was read is the one to attest, or is gone.                              *)
Knows(d) ==
  /\ run[d].newStart <= starts
  /\ run[d].step \in {"matched", "checked"} /\ fe.start = run[d].newStart
       => loads[fe.start] = BuildOf[d]
ProcessKnown == fe.start <= starts /\ \A d \in Runs : Knows(d)

IInv ==
  /\ TypeOK /\ StepsFit /\ Owns /\ InstallsStopped /\ VerifiedStays /\ NeverLoadsTorn
  /\ ServedBeyond /\ ProcessKnown /\ AttestationTrue


(* What only the step of the run itself can change.                        *)
LEMMA FitStep ==
  ASSUME TypeOK, StepsFit, NEW d \in Runs, TypeOK', Apart(d), Effect(d)
  PROVE  StepsFit'
<1> USE DEF Changes, Goes, Kept, WorkerSteps, Operation, Following, Before, After, BodySteps
<1>1. ASSUME NEW e \in Runs, e # d
      PROVE  Fits(e)'
  BY <1>1 DEF StepsFit, Fits, Apart
<1>2. Fits(d)
  BY DEF StepsFit
<1>3. Fits(d)'
  <2>1. CASE Quiet(d)
    BY <1>2, <2>1 DEF Quiet, Fits
  <2>2. CASE Claims(d)
    BY <1>2, <2>2 DEF Claims, Fits
  <2>3. CASE Leaves(d)
    BY <1>2, <2>3 DEF Leaves, HelperIs, Fits
  <2>4. CASE Creates(d)
    BY <1>2, <2>4 DEF Creates, HelperIs, Fits
  <2>5. CASE Works(d)
    BY <1>2, <2>5 DEF Works, HelperIs, Fits
  <2>6. CASE Removes(d) \/ Abandons(d)
    BY <1>2, <2>6 DEF Removes, Abandons, HelperIs, Fits
  <2>7. CASE Halts(d) \/ Prepares(d) \/ Launches(d)
    BY <1>2, <2>7 DEF Halts, Prepares, Launches, Fits
  <2>8. CASE TakesDown(d)
    BY <1>2, <2>8 DEF TakesDown, Fits
  <2> QED
    BY <2>1, <2>2, <2>3, <2>4, <2>5, <2>6, <2>7, <2>8 DEF Effect
<1> QED
  BY <1>1, <1>3 DEF StepsFit

(* The claim goes from nobody to a run and back, and a run that gives it   *)
(* back has nothing left in the daemon.                                    *)
LEMMA OwnsStep ==
  ASSUME TypeOK, StepsFit, Owns, NEW d \in Runs, TypeOK', Apart(d), Effect(d)
  PROVE  Owns'
<1> USE DEF Changes, Goes, Kept, Holding, WorkerSteps, BodySteps, Following
<1>1. \/ claim' = claim
      \/ claim = Nobody /\ claim' = d
      \/ claim = d /\ claim' = Nobody
  <2>1. CASE Leaves(d)
    BY <2>1 DEF Leaves, Owns
  <2>2. CASE Claims(d)
    BY <2>2 DEF Claims
  <2>3. CASE ~Leaves(d) /\ ~Claims(d)
    <3> HIDE DEF Changes, Goes, Kept, Holding
    <3> QED
      BY <2>3 DEF Effect, Quiet, Creates, Works, Removes, Abandons, Halts, Prepares, Launches, TakesDown
  <2> QED
    BY <2>1, <2>2, <2>3
<1>2. ASSUME NEW e \in Runs, e # d,
             run'[e].step \in Holding \/ helper'[e].known \/ down'[e] # "none"
      PROVE  claim' = e
  BY <1>1, <1>2, DeploymentAssumption DEF Apart, Owns
<1>3. Fits(d) /\ (run[d].step \in Holding \/ helper[d].known \/ down[d] # "none" => claim = d)
  BY DEF StepsFit, Owns
<1>4. ASSUME run'[d].step \in Holding \/ helper'[d].known \/ down'[d] # "none"
      PROVE  claim' = d
  <2>1. CASE Quiet(d)
    BY <1>3, <1>4, <2>1 DEF Quiet
  <2>2. CASE Claims(d)
    BY <2>2 DEF Claims
  <2>3. CASE Leaves(d)
    BY <1>3, <1>4, <2>3 DEF Leaves, Fits, HelperIs
  <2>4. CASE Creates(d)
    BY <1>3, <1>4, <2>4 DEF Creates
  <2>5. CASE Works(d)
    BY <1>3, <1>4, <2>5 DEF Works, HelperIs, Fits
  <2>6. CASE Removes(d) \/ Abandons(d)
    BY <1>3, <1>4, <2>6 DEF Removes, Abandons
  <2>7. CASE Halts(d) \/ Prepares(d) \/ Launches(d)
    BY <1>3, <1>4, <2>7 DEF Halts, Prepares, Launches
  <2>8. CASE TakesDown(d)
    BY <1>3, <1>4, <2>8 DEF TakesDown
  <2> QED
    BY <2>1, <2>2, <2>3, <2>4, <2>5, <2>6, <2>7, <2>8 DEF Effect
<1> QED
  BY <1>2, <1>4 DEF Owns

(* Two runs do not have the claim.                                         *)
Has(d) == run[d].step \in Holding \/ helper[d].known \/ down[d] # "none"
LEMMA Alone ==
  ASSUME Owns, NEW d \in Runs, NEW e \in Runs, Has(d), Has(e)
  PROVE  d = e
  BY DEF Owns, Has

(* The FE is started by a run that has no helper and has the claim.        *)
LEMMA InstallsStep ==
  ASSUME TypeOK, StepsFit, Owns, InstallsStopped, NEW d \in Runs, TypeOK', Apart(d), Effect(d)
  PROVE  InstallsStopped'
<1> SUFFICES ASSUME ~Outsiders, NEW e \in Runs, Installs(e)'
             PROVE  ~fe'.running
  BY DEF InstallsStopped
<1>1. Fits(d)
  BY DEF StepsFit
<1>2. CASE Launches(d)
  <2>1. Has(d)
    BY <1>2 DEF Launches, Has, Holding, BodySteps
  <2>2. helper[e].known
    BY <1>2 DEF Launches, Installs
  <2>3. helper[d].known
    BY <2>1, <2>2, Alone DEF Has
  <2> QED
    BY <1>1, <1>2, <2>3 DEF Fits, Kept, Launches, WorkerSteps
<1>3. CASE ~Launches(d)
  <2>1. fe'.running => fe.running
    BY <1>3 DEF Effect, Quiet, Claims, Leaves, Creates, Works, Removes, Abandons, Halts, Prepares,
                TakesDown
  <2>2. CASE e # d
    BY <2>1, <2>2 DEF Apart, Installs, InstallsStopped
  <2>3. CASE e = d /\ Creates(d)
    BY <2>3 DEF Creates, HelperIs, Installs, Operation, WorkerSteps
  <2>4. CASE e = d /\ Works(d)
    BY <2>1, <2>4 DEF Works, HelperIs, Installs, InstallsStopped
  <2>5. CASE e = d /\ helper'[d] = helper[d]
    BY <2>1, <2>5 DEF Installs, InstallsStopped
  <2>6. CASE e = d /\ HelperIs(d, "none", "gone", FALSE)
    BY <2>6 DEF HelperIs, Installs
  <2> QED
    BY <1>3, <2>2, <2>3, <2>4, <2>5, <2>6
    DEF Effect, Quiet, Claims, Leaves, Removes, Abandons, Halts, Prepares, TakesDown
<1> QED
  BY <1>2, <1>3

(* The volume is written by an install helper, by the preparation of the   *)
(* volume and by a compose down, all of a run that has the claim and has   *)
(* not verified.                                                           *)
LEMMA VerifiedStep ==
  ASSUME TypeOK, StepsFit, Owns, VerifiedStays, NEW d \in Runs, TypeOK', Apart(d), Effect(d)
  PROVE  VerifiedStays'
<1> SUFFICES ASSUME ~Outsiders, NEW e \in Runs, Verified(e)'
             PROVE  volume' = BuildOf[e]
  BY DEF VerifiedStays
<1>1. Fits(d)
  BY DEF StepsFit
<1>2. CASE volume' = volume /\ Verified(e)
  BY <1>2 DEF VerifiedStays
<1>3. CASE volume' = volume /\ ~Verified(e)
  <2>1. e = d
    BY <1>3 DEF Apart, Verified
  <2>2. CASE Works(d)
    BY <1>1, <1>3, <2>1, <2>2
    DEF Works, HelperIs, Fits, Kept, Goes, Changes, Verified, Operation, WorkerSteps
  <2>3. CASE Removes(d)
    BY <1>3, <2>1, <2>3 DEF Removes, HelperIs, Goes, Changes, Verified, Following, WorkerSteps
  <2>4. CASE Creates(d)
    BY <1>3, <2>1, <2>4 DEF Creates, HelperIs, Goes, Changes, Verified
  <2>5. CASE Quiet(d) \/ Claims(d) \/ Leaves(d) \/ Abandons(d)
    BY <1>3, <2>1, <2>5
    DEF Quiet, Claims, Leaves, Abandons, HelperIs, Goes, Changes, Verified
  <2>6. CASE Halts(d) \/ Prepares(d) \/ Launches(d) \/ TakesDown(d)
    BY <1>3, <2>1, <2>6 DEF Halts, Prepares, Launches, TakesDown, Goes, Changes, Verified
  <2> QED
    BY <2>2, <2>3, <2>4, <2>5, <2>6 DEF Effect
<1>4. CASE volume' # volume
  <2>1. CASE Works(d)
    <3>1. helper[d].known /\ helper[d].op = "install"
      BY <1>1, <1>4, <2>1 DEF Works, Fits
    <3>2. ~Verified(d) /\ ~Verified(d)'
      BY <1>1, <2>1, <3>1 DEF Works, Fits, Kept, Goes, Changes, Verified, Operation, WorkerSteps
    <3>3. e # d /\ Verified(e)
      BY <3>2 DEF Apart, Verified
    <3> QED
      BY <3>1, <3>3, Alone DEF Has, Holding, BodySteps, WorkerSteps, Verified
  <2>2. CASE Prepares(d)
    <3>1. ~Verified(d)'
      BY <2>2 DEF Prepares, Goes, Changes, Verified
    <3>2. e # d /\ Verified(e)
      BY <3>1 DEF Apart, Verified
    <3> QED
      BY <2>2, <3>2, Alone DEF Prepares, Has, Holding, BodySteps, WorkerSteps, Verified
  <2>3. CASE TakesDown(d)
    <3>1. down[d] = "volume" /\ run' = run
      BY <1>4, <2>3 DEF TakesDown
    <3>2. ~Verified(d)'
      BY <1>1, <3>1 DEF Fits, Kept, Verified
    <3>3. e # d /\ Verified(e)
      BY <3>2 DEF Apart, Verified
    <3> QED
      BY <3>1, <3>3, Alone DEF Has, Holding, BodySteps, WorkerSteps, Verified
  <2> QED
    BY <1>4, <2>1, <2>2, <2>3
    DEF Effect, Quiet, Claims, Leaves, Creates, Removes, Abandons, Halts, Launches
<1> QED
  BY <1>2, <1>3, <1>4

(* So the FE is started from a whole build.                                *)
LEMMA LoadsStep ==
  ASSUME TypeOK, VerifiedStays, NeverLoadsTorn, NEW d \in Runs, TypeOK', Effect(d)
  PROVE  NeverLoadsTorn'
<1>1. CASE Launches(d)
  <2>1. ~Outsiders => volume \in Builds
    BY <1>1 DEF Launches, VerifiedStays, Verified, Builds
  <2>2. starts \in Nat /\ starts' = starts + 1 /\ loads'[starts'] = volume
    BY <1>1 DEF Launches, TypeOK
  <2>3. \A n \in 1..starts' : n = starts' \/ (n \in 1..starts /\ loads'[n] = loads[n])
    BY <1>1, <2>2 DEF Launches
  <2> QED
    BY <2>1, <2>2, <2>3 DEF NeverLoadsTorn
<1>2. CASE ~Launches(d)
  BY <1>2 DEF Effect, Quiet, Claims, Leaves, Creates, Works, Removes, Abandons, Halts, Prepares,
              TakesDown, NeverLoadsTorn
<1> QED
  BY <1>1, <1>2

(* A run that attested keeps the process it attested.                      *)
LEMMA AttestedStays ==
  ASSUME StepsFit, NEW d \in Runs, Apart(d), Effect(d), NEW e \in Runs, run[e].attested
  PROVE  run'[e].attested /\ run'[e].newStart = run[e].newStart
<1>1. CASE e # d
  BY <1>1 DEF Apart
<1>2. Fits(d)
  BY DEF StepsFit
<1>3. CASE e = d /\ Quiet(d)
  BY <1>2, <1>3 DEF Quiet, Goes, Changes, Fits, Before, After
<1>4. CASE e = d /\ ~Quiet(d)
  BY <1>4 DEF Effect, Claims, Leaves, Creates, Works, Removes, Abandons, Halts, Prepares, Launches,
              TakesDown, Goes, Changes
<1> QED
  BY <1>1, <1>3, <1>4

(* The FE that is started while nobody vouches for it is that of a run     *)
(* which stops it again, or keeps the claim.                               *)
LEMMA ServedStep ==
  ASSUME TypeOK, StepsFit, Owns, ServedBeyond, NEW d \in Runs, TypeOK', Apart(d), Effect(d)
  PROVE  ServedBeyond'
<1> SUFFICES ASSUME ~Outsiders
             PROVE  /\ claim' = Nobody => Served'
                    /\ \A e \in Runs : Vouches(e)'
  BY DEF ServedBeyond
<1>1. Fits(d) /\ Vouches(d)
  BY DEF StepsFit, ServedBeyond
<1>2. Served => Served' \/ Launches(d)
  <2>1. CASE ~Launches(d) /\ Served /\ fe'.running
    <3>1. fe' = fe
      BY <2>1 DEF Effect, Quiet, Claims, Leaves, Creates, Works, Removes, Abandons, Halts, Prepares,
                  TakesDown
    <3> QED
      BY <2>1, <3>1, AttestedStays DEF Served
  <2> QED
    BY <2>1 DEF Served
<1>3. ASSUME NEW e \in Runs, e # d
      PROVE  Vouches(e)'
  <2>1. Vouches(e)
    BY DEF ServedBeyond
  <2>2. CASE Launches(d)
    <3>1. run[e].step \notin Holding
      BY <1>3, <2>2, Alone DEF Launches, Has, Holding, BodySteps
    <3> QED
      BY <1>3, <3>1 DEF Apart, Vouches, Holding
  <2>3. CASE ~Launches(d)
    <3>1. fe'.running => fe.running
      BY <2>3 DEF Effect, Quiet, Claims, Leaves, Creates, Works, Removes, Abandons, Halts, Prepares,
                  TakesDown
    <3> QED
      BY <1>2, <1>3, <2>1, <2>3, <3>1 DEF Apart, Vouches
  <2> QED
    BY <2>2, <2>3
<1>4. Vouches(d)'
  <2> USE DEF Goes, Changes
  <2>1. CASE Launches(d)
    BY <1>1, <2>1 DEF Launches, Vouches, Fits, Before, After
  <2>2. CASE Claims(d)
    BY <1>1, <1>2, <2>2
    DEF Claims, Launches, Vouches, Holding, BodySteps, WorkerSteps, Fits, Before, ServedBeyond
  <2>3. CASE Quiet(d)
    <3>1. fe' = fe /\ ~Launches(d)
      BY <2>3 DEF Quiet, Launches
    <3>2. CASE run'[d].step = "attested" /\ run[d].step = "checked"
      <4>1. Served'
        BY <2>3, <3>2 DEF Quiet, Served, Fits
      <4> QED
        BY <3>2, <4>1 DEF Vouches
    <3>3. CASE ~(run'[d].step = "attested" /\ run[d].step = "checked")
      BY <1>1, <1>2, <2>3, <3>1, <3>3
      DEF Quiet, Vouches, Holding, BodySteps, WorkerSteps, Fits, Before, After
    <3> QED
      BY <3>2, <3>3
  <2>4. CASE Leaves(d)
    BY <2>4 DEF Leaves, Vouches, Holding, BodySteps, WorkerSteps
  <2>5. CASE Creates(d) \/ Works(d) \/ Removes(d) \/ Abandons(d)
    <3>1. fe' = fe /\ starts' = starts
      BY <2>5 DEF Creates, Works, Removes, Abandons
    <3>2. ~Launches(d)
      BY <3>1 DEF Launches, TypeOK
    <3>3. CASE Creates(d) \/ Works(d)
      BY <1>1, <1>2, <3>1, <3>2, <3>3 DEF Creates, Works, Vouches, Holding, BodySteps, WorkerSteps
    <3>4. CASE Removes(d)
      BY <1>1, <1>2, <3>1, <3>2, <3>4
      DEF Removes, Vouches, Holding, BodySteps, WorkerSteps, Following
    <3>5. CASE Abandons(d)
      BY <1>1, <1>2, <3>1, <3>2, <3>5 DEF Abandons, Vouches, Holding
    <3> QED
      BY <2>5, <3>3, <3>4, <3>5
  <2>6. CASE Halts(d)
    BY <2>6 DEF Halts, Vouches, Served
  <2>7. CASE Prepares(d)
    BY <1>1, <1>2, <2>7 DEF Prepares, Launches, Vouches, Holding, BodySteps, WorkerSteps
  <2>8. CASE TakesDown(d)
    <3>1. ~Launches(d)
      BY <2>8 DEF TakesDown, Launches
    <3> QED
      BY <1>1, <1>2, <2>8, <3>1
      DEF TakesDown, Vouches, Served, Holding, BodySteps, WorkerSteps, Fits, Before
  <2> QED
    BY <2>1, <2>2, <2>3, <2>4, <2>5, <2>6, <2>7, <2>8 DEF Effect
<1>5. ASSUME claim' = Nobody
      PROVE  Served'
  <2>1. CASE claim = Nobody
    <3>1. ~Launches(d)
      BY <2>1, DeploymentAssumption DEF Launches, Owns, Holding, BodySteps
    <3> QED
      BY <1>2, <2>1, <3>1 DEF ServedBeyond
  <2>2. CASE claim # Nobody
    <3>1. Leaves(d) /\ ~run[d].unsafe
      BY <1>5, <2>2, DeploymentAssumption
      DEF Effect, Quiet, Claims, Leaves, Creates, Works, Removes, Abandons, Halts, Prepares, Launches,
          TakesDown
    <3>2. Served
      BY <1>1, <3>1 DEF Leaves, Vouches, Holding, Served
    <3> QED
      BY <1>2, <3>1, <3>2 DEF Leaves, Launches
  <2> QED
    BY <2>1, <2>2
<1> QED
  BY <1>3, <1>4, <1>5

(* The FE that answers with a registry is the one read before, or a later  *)
(* one, which the attestation tells apart.                                 *)
LEMMA ProcessStep ==
  ASSUME TypeOK, StepsFit, Owns, ProcessKnown, NEW d \in Runs, TypeOK', Apart(d), Effect(d)
  PROVE  ProcessKnown'
<1>1. Fits(d) /\ fe.start \in Nat /\ starts \in Nat /\ \A e \in Runs : run[e].newStart \in Nat
  BY DEF StepsFit, TypeOK, RunRecord
<1>2. CASE Launches(d)
  <2>1. fe'.start = starts + 1 /\ starts' = starts + 1
    BY <1>2 DEF Launches
  <2>2. \A e \in Runs : run'[e].newStart = run[e].newStart
    BY <1>2 DEF Launches, Apart, Goes, Changes
  <2>3. \A e \in Runs : run[e].newStart <= starts
    BY DEF ProcessKnown, Knows
  <2> QED
    BY <1>1, <2>1, <2>2, <2>3 DEF ProcessKnown, Knows
<1>3. CASE ~Launches(d)
  <2>1. starts' = starts /\ loads' = loads
    BY <1>3 DEF Effect, Quiet, Claims, Leaves, Creates, Works, Removes, Abandons, Halts, Prepares,
                TakesDown
  <2>2. fe'.start = fe.start \/ (down[d] = "fe" /\ run' = run /\ fe'.start = 0)
    BY <1>3 DEF Effect, Quiet, Claims, Leaves, Creates, Works, Removes, Abandons, Halts, Prepares,
                TakesDown
  <2>3. fe.start <= starts /\ fe'.start <= starts'
    BY <1>1, <2>1, <2>2 DEF ProcessKnown
  <2>4. ASSUME NEW e \in Runs, e # d
        PROVE  Knows(e)'
    <3>1. Knows(e)
      BY DEF ProcessKnown
    <3>2. CASE fe'.start = fe.start
      BY <2>1, <2>4, <3>1, <3>2 DEF Apart, Knows
    <3>3. CASE down[d] = "fe"
      <4>1. run[e].step \notin Holding
        BY <2>4, <3>3, Alone DEF Has
      <4> QED
        BY <2>1, <2>4, <3>1, <4>1 DEF Apart, Knows, Holding, BodySteps, WorkerSteps
    <3> QED
      BY <2>2, <3>2, <3>3
  <2>5. Knows(d)'
    <3> USE DEF Goes, Changes
    <3>1. Knows(d)
      BY DEF ProcessKnown
    <3>2. CASE Quiet(d)
      BY <2>1, <2>3, <3>1, <3>2 DEF Quiet, Knows
    <3>3. CASE Claims(d) \/ Leaves(d) \/ Prepares(d) \/ Abandons(d)
      BY <2>1, <3>1, <3>3 DEF Claims, Leaves, Prepares, Abandons, Knows
    <3>4. CASE Creates(d) \/ Works(d)
      BY <2>1, <3>1, <3>4 DEF Creates, Works, Knows
    <3>5. CASE Removes(d)
      BY <2>1, <3>1, <3>5 DEF Removes, Following, WorkerSteps, Knows
    <3>6. CASE Halts(d)
      BY <2>1, <3>1, <3>6 DEF Halts, Knows
    <3>7. CASE TakesDown(d)
      BY <1>1, <2>1, <3>1, <3>7 DEF TakesDown, Fits, Kept, Knows
    <3> QED
      BY <1>3, <3>2, <3>3, <3>4, <3>5, <3>6, <3>7 DEF Effect
  <2> QED
    BY <2>3, <2>4, <2>5 DEF ProcessKnown
<1> QED
  BY <1>2, <1>3

(* What a start of an FE loaded is known for good.                         *)
LEMMA AttestationStep ==
  ASSUME TypeOK, StepsFit, ProcessKnown, AttestationTrue, NEW d \in Runs, TypeOK', Apart(d), Effect(d)
  PROVE  AttestationTrue'
<1> SUFFICES ASSUME NEW e \in Runs, run'[e].attested
             PROVE  loads'[run'[e].newStart] = BuildOf[e]
  BY DEF AttestationTrue
<1>1. run[e].newStart \in 0..starts
  BY DEF ProcessKnown, Knows, TypeOK, RunRecord
<1>2. loads'[run[e].newStart] = loads[run[e].newStart]
  BY <1>1 DEF Effect, Quiet, Claims, Leaves, Creates, Works, Removes, Abandons, Halts, Prepares,
              Launches, TakesDown
<1>3. CASE run[e].attested
  BY <1>2, <1>3, AttestedStays DEF AttestationTrue
<1>4. CASE ~run[e].attested
  <2>1. e = d
    BY <1>4 DEF Apart
  <2>2. /\ run[d].step = "checked" /\ fe.start = run[d].newStart
        /\ run'[d].newStart = run[d].newStart
    BY <1>4, <2>1
    DEF Effect, Quiet, Claims, Leaves, Creates, Works, Removes, Abandons, Halts, Prepares,
        Launches, TakesDown, Goes, Changes
  <2> QED
    BY <1>2, <2>1, <2>2 DEF ProcessKnown, Knows
<1> QED
  BY <1>3, <1>4

(* Neither the death of the FE nor an outsider disturbs any of it.         *)
LEMMA AroundStep ==
  ASSUME IInv, Around
  PROVE  IInv'
<1>1. TypeOK /\ TypeOK'
  BY TypeAround DEF IInv
<1>2. run' = run /\ helper' = helper /\ down' = down /\ claim' = claim
  BY DEF Around, FeDies, OutsiderStarts, OutsiderWrites
<1>3. StepsFit' /\ Owns'
  BY <1>2 DEF IInv, StepsFit, Fits, Kept, Owns
<1>4. ~Outsiders => volume' = volume /\ fe'.running = FALSE /\ UNCHANGED <<loads, starts>>
  BY <1>1, Stops DEF Around, FeDies, OutsiderStarts, OutsiderWrites
<1>5. InstallsStopped' /\ VerifiedStays' /\ NeverLoadsTorn' /\ ServedBeyond'
  BY <1>2, <1>4
  DEF IInv, InstallsStopped, Installs, VerifiedStays, Verified, NeverLoadsTorn, ServedBeyond, Served,
      Vouches
<1>6. /\ starts \in Nat /\ starts <= starts'
      /\ \A n \in 0..starts : loads'[n] = loads[n]
      /\ fe'.start = fe.start \/ (fe'.start = starts' /\ starts' = starts + 1)
  <2>1. starts \in Nat
    BY <1>1 DEF TypeOK
  <2>2. CASE FeDies
    BY <1>1, <2>1, <2>2, Stops DEF FeDies
  <2>3. CASE OutsiderStarts
    BY <1>1, <2>1, <2>3, StartsFe DEF OutsiderStarts
  <2>4. CASE OutsiderWrites
    BY <2>1, <2>4 DEF OutsiderWrites
  <2> QED
    BY <2>2, <2>3, <2>4 DEF Around
<1>7. /\ fe.start \in 0..starts
      /\ \A d \in Runs : Knows(d) /\ run[d].newStart \in 0..starts
  BY <1>1 DEF IInv, ProcessKnown, Knows, TypeOK, RunRecord
<1>8. ProcessKnown'
  <2>1. fe'.start <= starts' /\ \A d \in Runs : run[d].newStart <= starts'
    <3>1. starts' \in Nat
      BY <1>1 DEF TypeOK
    <3> QED
      BY <1>6, <1>7, <3>1
  <2>2. \A d \in Runs : fe'.start = run[d].newStart => fe'.start = fe.start
    BY <1>6, <1>7
  <2>3. loads'[fe.start] = loads[fe.start]
    BY <1>6, <1>7
  <2> QED
    BY <1>2, <1>7, <2>1, <2>2, <2>3 DEF ProcessKnown, Knows
<1>9. AttestationTrue'
  BY <1>2, <1>6, <1>7 DEF IInv, AttestationTrue
<1> QED
  BY <1>1, <1>3, <1>5, <1>8, <1>9 DEF IInv

(* The invariant holds at first, when no run has begun, ...                *)
LEMMA InvInit == Init => IInv
<1> SUFFICES ASSUME Init PROVE IInv
  OBVIOUS
<1>1. TypeOK
  BY TypeInit
<1>2. \A d \in Runs : /\ run[d].step = "new" /\ ~run[d].boundary /\ ~run[d].attested
                      /\ run[d].newStart = 0
  <2>1. /\ NewRun \in RunRecord /\ NewRun.step = "new"
        /\ ~NewRun.boundary /\ ~NewRun.attested /\ NewRun.newStart = 0
    BY DEF NewRun, RunRecord, Steps, Contents
  <2>2. LET r == [NewRun EXCEPT !.teardown = TRUE]
        IN  r.step = "new" /\ ~r.boundary /\ ~r.attested /\ r.newStart = 0
    BY <2>1, Zenon DEF RunRecord
  <2> QED
    BY <2>1, <2>2, Zenon DEF Init
<1>3. \A d \in Runs : helper[d] = NoHelper /\ down[d] = "none"
  BY DEF Init
<1>4. starts = 0 /\ claim = Nobody /\ fe.start = 0
  BY DEF Init, NoFe
<1>5. StepsFit
  BY <1>2, <1>3, HelperGone DEF StepsFit, Fits, WorkerSteps, Before, After
<1>6. Owns /\ InstallsStopped /\ VerifiedStays
  BY <1>2, <1>3, HelperGone
  DEF Owns, Holding, BodySteps, WorkerSteps, InstallsStopped, Installs, VerifiedStays, Verified
<1>7. NeverLoadsTorn /\ ServedBeyond /\ ProcessKnown /\ AttestationTrue
  BY <1>2, <1>4
  DEF NeverLoadsTorn, ServedBeyond, Served, Vouches, ProcessKnown, Knows, AttestationTrue
<1> QED
  BY <1>1, <1>5, <1>6, <1>7 DEF IInv

(* ... and after every step.                                               *)
LEMMA InvNext == IInv /\ [Next]_vars => IInv'
<1> SUFFICES ASSUME IInv, [Next]_vars PROVE IInv'
  OBVIOUS
<1>1. ASSUME NEW d \in Runs, ByRun(d)
      PROVE  IInv'
  <2>1. TypeOK' /\ Apart(d) /\ Effect(d)
    BY <1>1, TypeStep, Effects DEF IInv
  <2> QED
    BY <2>1, FitStep, OwnsStep, InstallsStep, VerifiedStep, LoadsStep, ServedStep, ProcessStep,
       AttestationStep
    DEF IInv
<1>2. CASE Around
  BY <1>2, AroundStep
<1>3. CASE UNCHANGED vars
  <2> USE <1>3 DEF vars, IInv
  <2>1. TypeOK'
    BY DEF TypeOK
  <2>2. StepsFit' /\ Owns'
    BY DEF StepsFit, Fits, Kept, Owns
  <2>3. InstallsStopped' /\ VerifiedStays' /\ NeverLoadsTorn'
    BY DEF InstallsStopped, Installs, VerifiedStays, Verified, NeverLoadsTorn
  <2>4. ServedBeyond' /\ ProcessKnown' /\ AttestationTrue'
    BY DEF ServedBeyond, Served, Vouches, ProcessKnown, Knows, AttestationTrue
  <2> QED
    BY <2>1, <2>2, <2>3, <2>4
<1> QED
  BY <1>1, <1>2, <1>3, NextCases

-----------------------------------------------------------------------------
(* THE THEOREMS                                                            *)

LEMMA Invariance == Spec => []IInv
  BY InvInit, InvNext, PTL DEF Spec

(* The program stays in the states the model declares.                     *)
THEOREM TypeCorrect == Spec => []TypeOK
<1>1. IInv => TypeOK
  BY DEF IInv
<1> QED
  BY Invariance, <1>1, PTL

(* At most one run, dead or alive, may still change the plugin volume, and *)
(* no FE runs while an install replaces the files.                         *)
THEOREM Exclusive == Spec => []WritesExclusive
<1>1. IInv => WritesExclusive
  BY DEF IInv, Owns, Installs, InstallsStopped, WritesExclusive
<1> QED
  BY Invariance, <1>1, PTL

(* Every FE that starts finds a whole build of the plugin.                 *)
THEOREM NeverTorn == Spec => []NeverLoadsTorn
<1>1. IInv => NeverLoadsTorn
  BY DEF IInv
<1> QED
  BY Invariance, <1>1, PTL

(* An FE that was started by a run serves beyond the claim of that run only*)
(* if it was attested.                                                     *)
THEOREM NeverUnattested == Spec => []UnattestedNeverServes
<1>1. IInv => UnattestedNeverServes
  BY DEF IInv, ServedBeyond, Served, UnattestedNeverServes
<1> QED
  BY Invariance, <1>1, PTL

(* The process that a receipt names loaded the build the receipt names,    *)
(* whatever outsiders do to the FE and to the volume.                      *)
THEOREM Truthful == Spec => []AttestationTrue
<1>1. IInv => AttestationTrue
  BY DEF IInv
<1> QED
  BY Invariance, <1>1, PTL

-----------------------------------------------------------------------------
(* THE REFINEMENT                                                          *)
servingBar == IF fe.running THEN loads[fe.start] ELSE "nothing"
vouchedBar ==
  fe.running /\ fe.start # 0 => \E d \in Runs : run[d].attested /\ run[d].newStart = fe.start

(* What is not there does not run.                                         *)
Absent == fe.id = 0 => ~fe.running

LEMMA AbsentNext == TypeOK /\ Absent /\ [Next]_vars => Absent'
<1> SUFFICES ASSUME TypeOK, Absent, [Next]_vars PROVE Absent'
  OBVIOUS
<1>1. fe' = fe \/ ~fe'.running \/ fe'.id # 0
  <2>1. ASSUME NEW d \in Runs, ByRun(d)
        PROVE  fe' = fe \/ ~fe'.running \/ fe'.id # 0
    <3>1. Effect(d)
      BY <2>1, Effects
    <3> QED
      BY <3>1 DEF Effect, Quiet, Claims, Leaves, Creates, Works, Removes, Abandons, Halts, Prepares,
                  Launches, TakesDown
  <2>2. CASE Around
    BY <2>2, Stops, StartsFe DEF Around, FeDies, OutsiderStarts, OutsiderWrites
  <2>3. CASE UNCHANGED vars
    BY <2>3 DEF vars
  <2> QED
    BY <2>1, <2>2, <2>3, NextCases
<1> QED
  BY <1>1 DEF Absent

LEMMA Absence == Spec => []Absent
<1>1. Init => Absent
  BY DEF Init, Absent, NoFe
<1>2. IInv => TypeOK
  BY DEF IInv
<1> QED
  BY <1>1, <1>2, Invariance, AbsentNext, PTL DEF Spec

(* While the FE and what runs attested stay, so does what is served.       *)
LEMMA ServesOn ==
  ASSUME fe' = fe, loads' = loads,
         \A e \in Runs : /\ run'[e].attested <=> run[e].attested
                         /\ run[e].attested => run'[e].newStart = run[e].newStart
  PROVE  servingBar' = servingBar /\ vouchedBar' = vouchedBar
<1>1. servingBar' = servingBar
  BY DEF servingBar
<1>2. ASSUME vouchedBar
      PROVE  vouchedBar'
  BY <1>2 DEF vouchedBar
<1>3. ASSUME vouchedBar'
      PROVE  vouchedBar
  BY <1>3 DEF vouchedBar
<1>4. vouchedBar \in BOOLEAN /\ vouchedBar' \in BOOLEAN
  BY DEF vouchedBar
<1> QED
  BY <1>1, <1>2, <1>3, <1>4

(* An FE that stops serves nothing, rightly.                               *)
LEMMA StopRefines ==
  ASSUME UNCHANGED <<claim, volume>>, ~fe'.running
  PROVE  Guarded!Stop
<1>1. servingBar' = "nothing" /\ (vouchedBar' = TRUE)
  BY DEF servingBar, vouchedBar
<1> QED
  BY <1>1 DEF Guarded!Stop, servingBar, vouchedBar

(* The steps that leave the FE alone.                                      *)
LEMMA QuietRefines ==
  ASSUME IInv, NEW d \in Runs, Apart(d), Quiet(d)
  PROVE  Guarded!Vouch(d) \/ UNCHANGED Guarded!vars
<1>1. fe' = fe /\ loads' = loads /\ volume' = volume /\ claim' = claim
  BY DEF Quiet
<1>2. Fits(d) /\ Knows(d) /\ (run[d].step \in Holding => claim = d)
  BY DEF IInv, StepsFit, ProcessKnown, Owns
<1>3. CASE run[d].step = "checked" /\ run'[d].step = "attested"
  <2>1. fe.running /\ fe.start = run[d].newStart /\ run'[d].attested /\ run'[d].newStart = fe.start
    BY <1>3 DEF Quiet, Goes, Changes
  <2>2. claim = d /\ loads[fe.start] = BuildOf[d]
    BY <1>2, <1>3, <2>1 DEF Knows, Holding, BodySteps
  <2>3. servingBar = BuildOf[d] /\ servingBar' = servingBar /\ (vouchedBar' = TRUE)
    BY <1>1, <2>1, <2>2 DEF servingBar, vouchedBar
  <2> QED
    BY <1>1, <2>2, <2>3 DEF Guarded!Vouch, servingBar, vouchedBar
<1>4. CASE ~(run[d].step = "checked" /\ run'[d].step = "attested")
  <2>1. /\ run'[d].attested <=> run[d].attested
        /\ run[d].attested => run'[d].newStart = run[d].newStart
    BY <1>2, <1>4 DEF Quiet, Goes, Changes, Fits, Before, After
  <2>2. \A e \in Runs : /\ run'[e].attested <=> run[e].attested
                        /\ run[e].attested => run'[e].newStart = run[e].newStart
    BY <2>1 DEF Apart
  <2>3. servingBar' = servingBar /\ vouchedBar' = vouchedBar
    BY <1>1, <2>2, ServesOn
  <2> QED
    BY <1>1, <2>3 DEF Guarded!vars, servingBar, vouchedBar
<1> QED
  BY <1>3, <1>4

(* A run starts the FE over the whole build that it verified.              *)
LEMMA LaunchRefines ==
  ASSUME ~Outsiders, IInv, NEW d \in Runs, Apart(d), Launches(d)
  PROVE  Guarded!Serve(d)
<1>1. claim = d /\ volume = BuildOf[d]
  BY DEF IInv, Launches, Owns, Holding, BodySteps, VerifiedStays, Verified
<1>2. servingBar = "nothing" /\ servingBar' = volume /\ claim' = claim /\ volume' = volume
  BY DEF Launches, servingBar
<1>3. starts \in Nat /\ starts' = starts + 1
  BY DEF Launches, IInv, TypeOK
<1>4. \A e \in Runs : run'[e].newStart = run[e].newStart /\ run[e].newStart <= starts
  BY DEF Launches, Apart, Goes, Changes, IInv, ProcessKnown, Knows
<1>5. \A e \in Runs : run'[e].newStart # fe'.start
  <2>1. \A e \in Runs : run[e].newStart \in Nat
    BY DEF IInv, TypeOK, RunRecord
  <2> QED
    BY <1>3, <1>4, <2>1 DEF Launches
<1>6. fe'.running /\ fe'.start # 0
  BY <1>3 DEF Launches
<1>7. vouchedBar' = FALSE
  BY <1>5, <1>6 DEF vouchedBar
<1> QED
  BY <1>1, <1>2, <1>7 DEF Guarded!Serve, servingBar, vouchedBar

(* A run that gives the claim back leaves an FE that is vouched for.       *)
LEMMA LeaveRefines ==
  ASSUME ~Outsiders, IInv, NEW d \in Runs, Apart(d), Leaves(d)
  PROVE  Guarded!Release(d) \/ UNCHANGED Guarded!vars
<1>1. fe' = fe /\ loads' = loads /\ volume' = volume /\ claim = d
  BY DEF Leaves, IInv, Owns, Holding
<1>2. \A e \in Runs : /\ run'[e].attested <=> run[e].attested
                      /\ run[e].attested => run'[e].newStart = run[e].newStart
  BY DEF Leaves, Apart, Goes, Changes
<1>3. servingBar' = servingBar /\ vouchedBar' = vouchedBar
  BY <1>1, <1>2, ServesOn
<1>4. CASE claim' = claim
  BY <1>1, <1>3, <1>4 DEF Guarded!vars, servingBar, vouchedBar
<1>5. CASE claim' = Nobody /\ ~run[d].unsafe
  <2>1. Vouches(d)
    BY DEF IInv, ServedBeyond
  <2>2. vouchedBar
    BY <1>5, <2>1 DEF Leaves, Vouches, Served, Holding, vouchedBar
  <2> QED
    BY <1>1, <1>3, <1>5, <2>2 DEF Guarded!Release, servingBar, vouchedBar
<1> QED
  BY <1>4, <1>5 DEF Leaves

(* The steps that are about the claim, a helper or the volume.             *)
LEMMA VolumeRefines ==
  ASSUME ~Outsiders, IInv, Absent, NEW d \in Runs, Apart(d),
         Claims(d) \/ Creates(d) \/ Works(d) \/ Removes(d) \/ Abandons(d) \/ Prepares(d) \/ TakesDown(d)
  PROVE  Guarded!Acquire(d) \/ Guarded!Change(d) \/ Guarded!Stop \/ UNCHANGED Guarded!vars
<1>1. Fits(d) /\ (Has(d) => claim = d) /\ (Installs(d) => ~fe.running)
  BY DEF IInv, StepsFit, Owns, InstallsStopped, Has
<1>2. CASE TakesDown(d) /\ down[d] = "fe" /\ ~fe'.running /\ volume' = volume
  BY <1>2, StopRefines DEF TakesDown
<1>3. CASE ~(TakesDown(d) /\ down[d] = "fe" /\ ~fe'.running /\ volume' = volume)
  <2>1. fe' = fe /\ loads' = loads
    BY <1>3 DEF Claims, Creates, Works, Removes, Abandons, Prepares, TakesDown
  <2>2. run'[d].attested = run[d].attested /\ run'[d].newStart = run[d].newStart
    BY DEF Claims, Creates, Works, Removes, Abandons, Prepares, TakesDown, Goes, Changes
  <2>3. \A e \in Runs : /\ run'[e].attested <=> run[e].attested
                        /\ run[e].attested => run'[e].newStart = run[e].newStart
    BY <2>2 DEF Apart
  <2>4. servingBar' = servingBar /\ vouchedBar' = vouchedBar
    BY <2>1, <2>3, ServesOn
  <2>5. CASE Claims(d)
    BY <2>4, <2>5 DEF Claims, Guarded!Acquire, servingBar, vouchedBar
  <2>6. CASE claim' = claim /\ volume' = volume
    BY <2>4, <2>6 DEF Guarded!vars, servingBar, vouchedBar
  <2>7. CASE ~Claims(d) /\ volume' # volume
    <3>1. Works(d) \/ Prepares(d) \/ TakesDown(d)
      BY <2>7 DEF Creates, Removes, Abandons
    <3>2. claim' = claim /\ Has(d) /\ ~fe.running
      <4>1. CASE Works(d)
        BY <1>1, <2>7, <4>1 DEF Works, Fits, Installs, Has
      <4>2. CASE Prepares(d)
        BY <4>2 DEF Prepares, Has, Holding, BodySteps
      <4>3. CASE TakesDown(d)
        BY <2>7, <4>3 DEF TakesDown, Has, Absent
      <4> QED
        BY <3>1, <4>1, <4>2, <4>3
    <3>3. volume' \in {"absent", "empty", "torn", BuildOf[d]}
      BY <2>7, <3>1 DEF Works, Prepares, TakesDown
    <3>4. claim = d /\ servingBar = "nothing"
      BY <1>1, <3>2 DEF servingBar
    <3> QED
      BY <2>4, <3>2, <3>3, <3>4 DEF Guarded!Change, servingBar, vouchedBar
  <2>8. claim' = claim \/ Claims(d)
    BY DEF Creates, Works, Removes, Abandons, Prepares, TakesDown
  <2> QED
    BY <2>5, <2>6, <2>7, <2>8
<1> QED
  BY <1>2, <1>3

(* Every step is one of GuardedPlugin or leaves its state alone.           *)
LEMMA StepRefines ==
  ASSUME ~Outsiders
  PROVE  IInv /\ Absent /\ [Next]_vars => [Guarded!Next]_(Guarded!vars)
<1> SUFFICES ASSUME IInv, Absent, [Next]_vars PROVE Guarded!Next \/ UNCHANGED Guarded!vars
  OBVIOUS
<1>1. ASSUME NEW d \in Runs, ByRun(d)
      PROVE  Guarded!Next \/ UNCHANGED Guarded!vars
  <2>1. Apart(d) /\ Effect(d)
    BY <1>1, TypeStep, Effects DEF IInv
  <2>2. CASE Halts(d)
    BY <2>2, StopRefines DEF Halts, Guarded!Next
  <2>3. CASE Quiet(d)
    BY <2>1, <2>3, QuietRefines DEF Guarded!Next
  <2>4. CASE Launches(d)
    BY <2>1, <2>4, LaunchRefines DEF Guarded!Next
  <2>5. CASE Leaves(d)
    BY <2>1, <2>5, LeaveRefines DEF Guarded!Next
  <2>6. CASE \/ Claims(d) \/ Creates(d) \/ Works(d) \/ Removes(d) \/ Abandons(d)
             \/ Prepares(d) \/ TakesDown(d)
    BY <2>1, <2>6, VolumeRefines DEF Guarded!Next
  <2> QED
    BY <2>1, <2>2, <2>3, <2>4, <2>5, <2>6 DEF Effect
<1>2. CASE Around
  <2>1. FeDies
    BY <1>2 DEF Around, OutsiderStarts, OutsiderWrites
  <2> QED
    BY <2>1, Stops, StopRefines DEF FeDies, IInv, Guarded!Next
<1>3. CASE UNCHANGED vars
  BY <1>3, ServesOn DEF vars, Guarded!vars, servingBar, vouchedBar
<1> QED
  BY <1>1, <1>2, <1>3, NextCases

(* Where all honor the claim, any number of runs implement GuardedPlugin.  *)
THEOREM ImplementsGuardedPlugin ==
  ASSUME ~Outsiders
  PROVE  Spec => PluginGuarded
<1>1. Init => Guarded!Init
  <2> SUFFICES ASSUME Init PROVE Guarded!Init
    OBVIOUS
  <2>1. claim = Nobody /\ fe.start = 0 /\ loads[0] = "old"
    BY DeploymentAssumption DEF Init, NoFe
  <2>2. vouchedBar = TRUE
    BY <2>1 DEF vouchedBar
  <2>3. servingBar \in {"nothing", "old"} /\ (volume = "absent" => servingBar = "nothing")
    BY <2>1, DeploymentAssumption DEF Init, NoFe, servingBar
  <2> QED
    BY <2>1, <2>2, <2>3 DEF Init, Guarded!Init, servingBar, vouchedBar
<1> QED
  BY <1>1, Invariance, Absence, StepRefines, PTL DEF Spec, PluginGuarded, Guarded!Spec


-----------------------------------------------------------------------------
(* THE CONTRACT OF ONE RUN                                                 *)
(* A run that handles a failure, or leaves something behind, failed.       *)
FailureKnown ==
  \A d \in Runs : run[d].step \in {"failing", "closing"} \/ run[d].unsafe => run[d].failed

(* That is so after each step of a run, ...                                *)
LEMMA FailureStep ==
  ASSUME TypeOK, FailureKnown, NEW d \in Runs, TypeOK', Apart(d), Effect(d)
  PROVE  FailureKnown'
<1>1. ASSUME NEW e \in Runs, e # d
      PROVE  run'[e] = run[e]
  BY <1>1 DEF Apart
<1>2. run'[d].step \in {"failing", "closing"} \/ run'[d].unsafe => run'[d].failed
  <2> USE DEF FailureKnown, Goes, SameEnd, Changes
  <2>1. CASE Quiet(d)
    BY <2>1 DEF Quiet, BodySteps, WorkerSteps
  <2>2. CASE Claims(d) \/ Leaves(d) \/ Creates(d) \/ Works(d)
    BY <2>2 DEF Claims, Leaves, Creates, Works
  <2>3. CASE Removes(d)
    BY <2>3 DEF Removes, Following, WorkerSteps
  <2>4. CASE Abandons(d) \/ Halts(d) \/ Prepares(d)
    BY <2>4 DEF Abandons, Halts, Prepares
  <2>5. CASE Launches(d) \/ TakesDown(d)
    BY <2>5 DEF Launches, TakesDown
  <2> QED
    BY <2>1, <2>2, <2>3, <2>4, <2>5 DEF Effect
<1> QED
  BY <1>1, <1>2 DEF FailureKnown

(* ... after every other step, ...                                         *)
LEMMA FailureNext == IInv /\ FailureKnown /\ [Next]_vars => FailureKnown'
<1> SUFFICES ASSUME IInv, FailureKnown, [Next]_vars PROVE FailureKnown'
  OBVIOUS
<1>1. ASSUME NEW d \in Runs, ByRun(d)
      PROVE  FailureKnown'
  BY <1>1, TypeStep, Effects, FailureStep DEF IInv
<1>2. CASE run' = run
  BY <1>2 DEF FailureKnown
<1> QED
  BY <1>1, <1>2, NextCases DEF Around, FeDies, OutsiderStarts, OutsiderWrites, vars

(* ... and always.                                                         *)
LEMMA Failures == Spec => []FailureKnown
<1>1. Init => FailureKnown
  <2> SUFFICES ASSUME Init, NEW d \in Runs
               PROVE  run[d].step = "new" /\ ~run[d].unsafe
    BY DEF FailureKnown
  <2>1. NewRun \in RunRecord /\ NewRun.step = "new" /\ ~NewRun.unsafe
    BY DEF NewRun, RunRecord, Steps, Contents
  <2>2. LET r == [NewRun EXCEPT !.teardown = TRUE] IN r.step = "new" /\ ~r.unsafe
    BY <2>1, Zenon DEF RunRecord
  <2> QED
    BY <2>1, <2>2, Zenon DEF Init
<1> QED
  BY <1>1, Invariance, FailureNext, PTL DEF Spec

(* A step of a run is one of its contract, ...                             *)
LEMMA OwnContract ==
  ASSUME IInv, FailureKnown, NEW d \in Runs, TypeOK', Effect(d)
  PROVE  [Contract(d)!Next]_(Contract(d)!vars)
<1> USE DeploymentAssumption DEF ClaimOf, ChildOf, At
<1>1. ASSUME run[d].step \in Holding
      PROVE  claim = d
  BY <1>1 DEF IInv, Owns
<1> USE DEF Contract!Next, Contract!vars, Contract!Obtain, Contract!EndUnclaimed, Contract!Succeed,
            Contract!FailWorking, Contract!Others, Goes, SameEnd, Changes
<1>2. CASE Quiet(d)
  <2>1. CASE run[d].step = "new" /\ Goes(d, "finished") /\ run'[d].failed
    BY <1>2, <2>1 DEF Quiet
  <2>2. CASE run[d].step \notin {"new", "finished", "killed"} /\ Goes(d, "killed")
    BY <1>1, <1>2, <2>2 DEF Quiet, IInv, TypeOK, RunRecord, Steps, Holding
  <2>3. CASE claim' = claim /\ ChildOf(d)' = ChildOf(d)
    BY <2>3
  <2> QED
    BY <1>2, <2>1, <2>2, <2>3 DEF Quiet, BodySteps, WorkerSteps
<1>3. CASE Claims(d)
  BY <1>3 DEF Claims
<1>4. CASE Leaves(d)
  BY <1>1, <1>4 DEF Leaves, Holding, FailureKnown
<1>5. CASE Creates(d) \/ Works(d)
  BY <1>5 DEF Creates, Works, WorkerSteps
<1>6. CASE Removes(d)
  BY <1>6 DEF Removes, Following, WorkerSteps
<1>7. CASE Abandons(d) \/ Halts(d) \/ Prepares(d)
  BY <1>7 DEF Abandons, Halts, Prepares
<1>8. CASE Launches(d) \/ TakesDown(d)
  BY <1>8 DEF Launches, TakesDown
<1> QED
  BY <1>2, <1>3, <1>4, <1>5, <1>6, <1>7, <1>8 DEF Effect

(* ... and to the others, no more than somebody else's coming or going.    *)
LEMMA ForeignContract ==
  ASSUME IInv, NEW d \in Runs, NEW e \in Runs, e # d, TypeOK', Apart(d), Effect(d)
  PROVE  [Contract(e)!Next]_(Contract(e)!vars)
<1>1. ChildOf(e)' = ChildOf(e)
  BY DEF Apart, ChildOf, At
<1>2. claim' = claim \/ (claim \in {Nobody, d} /\ claim' \in {Nobody, d})
  BY DEF IInv, Owns, Holding, Effect, Quiet, Claims, Leaves, Creates, Works, Removes, Abandons, Halts,
         Prepares, Launches, TakesDown
<1> QED
  BY <1>1, <1>2, DeploymentAssumption DEF ClaimOf, Contract!Next, Contract!Others, Contract!vars

(* At first nobody has the claim and no run has begun.                     *)
LEMMA InitContract ==
  ASSUME Init, NEW d \in Runs
  PROVE  Contract(d)!Init
<1>1. run[d].step = "new"
  <2>1. NewRun \in RunRecord /\ NewRun.step = "new"
    BY DEF NewRun, RunRecord, Steps, Contents
  <2>2. [NewRun EXCEPT !.teardown = TRUE].step = "new"
    BY <2>1, Zenon DEF RunRecord
  <2> QED
    BY <2>1, <2>2, Zenon DEF Init
<1>2. claim = Nobody
  BY DEF Init
<1> QED
  BY <1>1, <1>2 DEF Contract!Init, ChildOf, ClaimOf, At

(* To whoever started it, every run keeps the contract of a deployment,    *)
(* whatever its rivals, the daemon and outsiders do.                       *)
THEOREM ImplementsContract == Spec => ContractKept
<1>1. Init => \A d \in Runs : Contract(d)!Init
  BY InitContract
<1>2. IInv /\ FailureKnown /\ [Next]_vars
        => [\A d \in Runs : [Contract(d)!Next]_(Contract(d)!vars)]_vars
  <2> SUFFICES ASSUME IInv, FailureKnown, [Next]_vars, NEW e \in Runs
               PROVE  [Contract(e)!Next]_(Contract(e)!vars)
    OBVIOUS
  <2>1. ASSUME NEW d \in Runs, ByRun(d)
        PROVE  [Contract(e)!Next]_(Contract(e)!vars)
    <3>1. TypeOK' /\ Apart(d) /\ Effect(d)
      BY <2>1, TypeStep, Effects DEF IInv
    <3>2. CASE e = d
      BY <3>1, <3>2, OwnContract
    <3>3. CASE e # d
      BY <3>1, <3>3, ForeignContract
    <3> QED
      BY <3>2, <3>3
  <2>2. CASE UNCHANGED <<run, claim>>
    <3>1. UNCHANGED (Contract(e)!vars)
      BY <2>2 DEF Contract!vars, ChildOf, ClaimOf, At
    <3> QED
      BY <3>1
  <2> QED
    BY <2>1, <2>2, NextCases DEF Around, FeDies, OutsiderStarts, OutsiderWrites, vars
<1> QED
  BY <1>1, <1>2, Invariance, Failures, PTL DEF Spec, ContractKept

-----------------------------------------------------------------------------
(* HOW LONG A RUN TAKES                                                    *)
(* The steps that are left to a run's process, at most.                    *)
Remaining ==
  [new |-> 19, claimed |-> 18, prepared |-> 17, preserved |-> 16, stopped |-> 15, bounded |-> 14,
   staged |-> 13, installed |-> 12, verified |-> 11, starting |-> 10, ready |-> 9, confirmed |-> 8,
   matched |-> 7, checked |-> 6, attested |-> 5, removing |-> 4, failing |-> 3, closing |-> 2,
   leaving |-> 1, finished |-> 0, killed |-> 0]
(* A worker's helper has yet to be created, and then to be started.        *)
HelperLeft(d) == IF ~helper[d].known THEN 2 ELSE IF helper[d].at = "created" THEN 1 ELSE 0
Left(d) == 4 * Remaining[run[d].step] + HelperLeft(d)

LEMMA LeftIsNat ==
  ASSUME TypeOK, NEW d \in Runs
  PROVE  Left(d) \in Nat /\ HelperLeft(d) \in 0..2 /\ Remaining[run[d].step] \in 0..19
<1>1. run[d].step \in Steps
  BY DEF TypeOK, RunRecord
<1>2. Remaining[run[d].step] \in 0..19
  BY <1>1 DEF Remaining, Steps, BodySteps, WorkerSteps
<1> QED
  BY <1>2 DEF Left, HelperLeft

LEMMA LeftIsNatNext ==
  ASSUME TypeOK', NEW d \in Runs
  PROVE  Left(d)' \in Nat
<1>1. run'[d].step \in Steps
  BY DEF TypeOK, RunRecord
<1>2. Remaining[run'[d].step] \in 0..19
  BY <1>1 DEF Remaining, Steps, BodySteps, WorkerSteps
<1> QED
  BY <1>2 DEF Left, HelperLeft

(* What brings it nearer to its end.                                       *)
LEMMA FewerLeft ==
  ASSUME TypeOK, TypeOK', NEW d \in Runs,
         \/ Remaining[run'[d].step] < Remaining[run[d].step]
         \/ run'[d].step = run[d].step /\ HelperLeft(d)' < HelperLeft(d)
  PROVE  Left(d)' < Left(d)
<1>1. /\ HelperLeft(d) \in 0..2 /\ Remaining[run[d].step] \in 0..19
      /\ HelperLeft(d)' \in 0..2 /\ Remaining[run'[d].step] \in 0..19
  <2>1. run[d].step \in Steps /\ run'[d].step \in Steps
    BY DEF TypeOK, RunRecord
  <2>2. Remaining[run[d].step] \in 0..19 /\ Remaining[run'[d].step] \in 0..19
    BY <2>1 DEF Remaining, Steps, BodySteps, WorkerSteps
  <2> QED
    BY <2>2 DEF HelperLeft
<1>2. Left(d)' = 4 * Remaining[run'[d].step] + HelperLeft(d)'
  BY DEF Left
<1>3. Left(d) = 4 * Remaining[run[d].step] + HelperLeft(d)
  BY DEF Left
<1> HIDE DEF HelperLeft, Remaining
<1> QED
  BY <1>1, <1>2, <1>3

(* Each step of its process does.                                          *)
LEMMA OwnProgress ==
  ASSUME TypeOK, TypeOK', NEW d \in Runs, RunStep(d)
  PROVE  Left(d)' < Left(d)
<1> USE DEF Remaining, Goes, Changes, At
<1> SUFFICES \/ Remaining[run'[d].step] < Remaining[run[d].step]
             \/ run'[d].step = run[d].step /\ HelperLeft(d)' < HelperLeft(d)
  BY FewerLeft
<1>1. CASE Claim(d)
  BY <1>1, StepMoves, StepEndsUnsure DEF Claim, Steps, BodySteps
<1>2. CASE ClaimOccupied(d)
  BY <1>2, StepEnds DEF ClaimOccupied
<1>3. CASE Leave(d)
  BY <1>3, StepMoves, StepEndsUnsure DEF Leave, LeaveSafely, Steps
<1>4. CASE CreateHelper(d)
  <2>1. PICK known \in BOOLEAN :
          /\ helper' = [helper EXCEPT ![d] = [op |-> Operation[run[d].step], at |-> "created",
                                               known |-> known]]
          /\ IF known THEN UNCHANGED run ELSE Fails(d)
    BY <1>4, Zenon DEF CreateHelper
  <2>2. CASE ~known
    BY <1>4, <2>1, <2>2, StepFails DEF CreateHelper, WorkerSteps
  <2>3. CASE known
    <3>1. helper'[d].at = "created" /\ helper'[d].known /\ ~helper[d].known
      BY <1>4, <2>1, <2>3, HelperGone DEF CreateHelper, TypeOK
    <3> QED
      BY <2>1, <2>3, <3>1 DEF HelperLeft
  <2> QED
    BY <2>2, <2>3
<1>5. CASE StartHelper(d)
  BY <1>5, HelperMoves DEF StartHelper, HelperLeft
<1>6. CASE WorkerReturns(d)
  <2>1. Following[run[d].step] \in Steps
    BY <1>6 DEF WorkerReturns, WorkerSteps, Following, Steps, BodySteps
  <2>2. run'[d].step = Following[run[d].step]
    BY <1>6, <2>1, StepMoves DEF WorkerReturns
  <2> QED
    BY <1>6, <2>2 DEF WorkerReturns, WorkerSteps, Following
<1>7. CASE Inspect(d) \/ BackupEmpty(d) \/ CrossBoundary(d)
  <2>1. \/ run[d].step = "claimed" /\ run'[d].step = "prepared"
        \/ run[d].step = "prepared" /\ run'[d].step = "preserved"
        \/ run[d].step = "stopped" /\ run'[d].step = "bounded"
    BY <1>7, StepInspect, StepBackupEmpty, StepBoundary, Zenon
  <2> QED
    BY <2>1
<1>8. CASE StopFe(d) \/ PrepareVolume(d) \/ StartFe(d)
  BY <1>8, StepMoves DEF StopFe, PrepareVolume, StartFe, Steps, BodySteps, WorkerSteps
<1>9. CASE WaitReady(d) \/ Attest(d)
  <2>1. \/ run[d].step = "starting" /\ run'[d].step = "ready"
        \/ run[d].step = "checked" /\ run'[d].step = "attested"
    BY <1>9, StepReady, StepAttest, Zenon
  <2> QED
    BY <2>1
<1>10. CASE Confirm(d) \/ ReadRegistry(d) \/ SmokeEnds(d)
  BY <1>10, StepMoves DEF Confirm, ReadRegistry, SmokeEnds, Steps, BodySteps, WorkerSteps
<1>11. CASE Fail(d)
  BY <1>11, StepFails DEF Fail, BodySteps, WorkerSteps
<1>12. CASE CleanupHelpers(d)
  <2>1. Moves(d, "closing") \/ MovesUnsafe(d, "closing")
    BY <1>12, Zenon DEF CleanupHelpers
  <2>2. run[d].step = "failing" /\ run'[d].step = "closing"
    BY <1>12, <2>1, StepMoves, StepUnsafe DEF CleanupHelpers, Steps
  <2> QED
    BY <2>2
<1>13. CASE FailClosed(d)
  <2>1. Moves(d, "leaving") \/ MovesUnsafe(d, "leaving")
    BY <1>13, Zenon DEF FailClosed
  <2>2. run[d].step = "closing" /\ run'[d].step = "leaving"
    BY <1>13, <2>1, StepMoves, StepUnsafe DEF FailClosed, Steps
  <2> QED
    BY <2>2
<1>14. CASE RequestDown(d) \/ DownReturns(d)
  BY <1>14, StepMoves DEF RequestDown, DownReturns, Steps, BodySteps
<1>15. CASE DownFails(d)
  <2>1. run[d].step \in {"claimed", "removing"} /\ run'[d].step = "leaving"
    BY <1>15, StepDownFails, Zenon
  <2> QED
    BY <2>1
<1> QED
  BY <1>1, <1>2, <1>3, <1>4, <1>5, <1>6, <1>7, <1>8, <1>9, <1>10, <1>11, <1>12, <1>13, <1>14, <1>15
  DEF RunStep

(* Nothing else, a signal or the daemon's work, takes it further away.     *)
LEMMA NoRegress ==
  ASSUME TypeOK, TypeOK', NEW d \in Runs, Effect(d)
  PROVE  Left(d)' <= Left(d)
<1>1. Left(d) \in Nat /\ Left(d)' \in Nat
  BY LeftIsNat, LeftIsNatNext
<1>2. \/ Remaining[run'[d].step] < Remaining[run[d].step]
      \/ run'[d].step = run[d].step /\ HelperLeft(d)' <= HelperLeft(d)
  <2> USE DEF Remaining, Goes, Changes
  <2>1. CASE Quiet(d)
    <3>1. HelperLeft(d)' = HelperLeft(d)
      BY <2>1 DEF Quiet, HelperLeft
    <3>2. HelperLeft(d) \in 0..2
      BY LeftIsNat
    <3>3. \/ run'[d].step = run[d].step
          \/ <<run[d].step, run'[d].step>> \in
               {<<"new", "finished">>, <<"claimed", "prepared">>, <<"prepared", "preserved">>,
                <<"stopped", "bounded">>, <<"starting", "ready">>, <<"ready", "confirmed">>,
                <<"confirmed", "matched">>, <<"checked", "attested">>, <<"attested", "leaving">>,
                <<"claimed", "leaving">>, <<"removing", "leaving">>, <<"closing", "leaving">>}
          \/ run[d].step \in BodySteps /\ run'[d].step = "failing"
          \/ run[d].step \in Steps \ {"new", "finished", "killed"} /\ run'[d].step = "killed"
      <4> HIDE DEF Remaining
      <4>1. run[d].step \in Steps
        BY DEF TypeOK, RunRecord
      <4> QED
        BY <2>1, <4>1, Zenon DEF Quiet
    <3>4. run'[d].step = run[d].step \/ Remaining[run'[d].step] < Remaining[run[d].step]
      BY <3>3 DEF Steps, BodySteps, WorkerSteps
    <3> QED
      BY <3>1, <3>2, <3>4
  <2>2. CASE Claims(d) \/ Leaves(d)
    <3>1. \/ run[d].step = "new" /\ run'[d].step \in {"claimed", "finished"}
          \/ run[d].step = "leaving" /\ run'[d].step = "finished"
      BY <2>2 DEF Claims, Leaves
    <3> QED
      BY <3>1
  <2>3. CASE Creates(d)
    BY <2>3, LeftIsNat DEF Creates, HelperIs, HelperLeft, WorkerSteps
  <2>4. CASE Works(d)
    BY <2>4 DEF Works, HelperIs, HelperLeft
  <2>5. CASE Removes(d)
    <3>1. \/ run[d].step \in WorkerSteps /\ run'[d].step = Following[run[d].step]
          \/ run[d].step = "failing" /\ run'[d].step = "closing"
      BY <2>5 DEF Removes
    <3> QED
      BY <3>1 DEF Following, WorkerSteps
  <2>6. CASE Abandons(d) \/ Halts(d) \/ Prepares(d)
    BY <2>6 DEF Abandons, Halts, Prepares
  <2>7. CASE Launches(d) \/ TakesDown(d)
    <3>1. HelperLeft(d)' = HelperLeft(d) /\ HelperLeft(d) \in 0..2
      BY <2>7, LeftIsNat DEF Launches, TakesDown, HelperLeft
    <3>2. \/ run'[d].step = run[d].step
          \/ run[d].step = "verified" /\ run'[d].step = "starting"
          \/ run[d].step = "claimed" /\ run'[d].step = "removing"
          \/ run[d].step = "removing" /\ run'[d].step = "leaving"
      BY <2>7 DEF Launches, TakesDown
    <3> QED
      BY <3>1, <3>2
  <2> QED
    BY <2>1, <2>2, <2>3, <2>4, <2>5, <2>6, <2>7 DEF Effect
<1>3. CASE run'[d].step = run[d].step /\ HelperLeft(d)' = HelperLeft(d)
  BY <1>1, <1>3 DEF Left
<1>4. HelperLeft(d) \in 0..2 /\ HelperLeft(d)' \in 0..2
  BY DEF HelperLeft
<1> QED
  BY <1>1, <1>2, <1>3, <1>4, FewerLeft

(* Every step of a run's own process leaves it one step less, and no step  *)
(* of rivals, of the daemon or of outsiders, no signal and no kill gives it*)
(* more to do: a run takes at most 78 steps.                               *)
RunsAdvance == [][\A d \in Runs : Left(d)' <= Left(d) /\ (RunStep(d) => Left(d)' < Left(d))]_vars
THEOREM Advancing == Spec => RunsAdvance
<1>1. IInv /\ [Next]_vars
        => [\A d \in Runs : Left(d)' <= Left(d) /\ (RunStep(d) => Left(d)' < Left(d))]_vars
  <2> SUFFICES ASSUME IInv, [Next]_vars, vars' # vars, NEW e \in Runs
               PROVE  Left(e)' <= Left(e) /\ (RunStep(e) => Left(e)' < Left(e))
    OBVIOUS
  <2>1. TypeOK /\ TypeOK'
    BY InvNext DEF IInv
  <2>2. Left(e) \in Nat
    BY <2>1, LeftIsNat
  <2>3. RunStep(e) => Left(e)' < Left(e)
    BY <2>1, OwnProgress
  <2>4. ASSUME NEW d \in Runs, ByRun(d)
        PROVE  Left(e)' <= Left(e)
    <3>1. Apart(d) /\ Effect(d)
      BY <2>1, <2>4, TypeStep, Effects
    <3>2. CASE e = d
      BY <2>1, <3>1, <3>2, NoRegress
    <3>3. CASE e # d
      <4>1. Left(e)' = Left(e)
        BY <3>1, <3>3 DEF Apart, Left, HelperLeft
      <4> QED
        BY <2>2, <4>1
    <3> QED
      BY <3>2, <3>3
  <2>5. CASE UNCHANGED <<run, helper>>
    <3>1. Left(e)' = Left(e)
      BY <2>5 DEF Left, HelperLeft
    <3> QED
      BY <2>2, <2>3, <3>1
  <2> QED
    BY <2>3, <2>4, <2>5, NextCases DEF Around, FeDies, OutsiderStarts, OutsiderWrites
<1> QED
  BY <1>1, Invariance, PTL DEF Spec, RunsAdvance

(* A run that has not begun does not have the claim, and one that has      *)
(* ended has it still only if it had to leave something running, or its    *)
(* request to remove the claim had no reply; a killed one cannot give it   *)
(* back.                                                                   *)
ClaimExcused ==
  \A d \in Runs :
    claim = d => run[d].step # "new" /\ (run[d].step = "finished" => run[d].unsafe \/ run[d].lost)

LEMMA ExcusedStep ==
  ASSUME IInv, ClaimExcused, NEW d \in Runs, TypeOK', Apart(d), Effect(d)
  PROVE  ClaimExcused'
<1>1. ASSUME NEW e \in Runs, e # d, claim' = e
      PROVE  /\ run'[e].step # "new"
             /\ run'[e].step = "finished" => run'[e].unsafe \/ run'[e].lost
  <2>1. claim' = claim \/ claim' \in {Nobody, d}
    BY DEF Effect, Quiet, Claims, Leaves, Creates, Works, Removes, Abandons, Halts, Prepares, Launches,
           TakesDown
  <2>2. claim = e
    BY <1>1, <2>1, DeploymentAssumption
  <2>3. run'[e] = run[e]
    BY <1>1 DEF Apart
  <2> QED
    BY <2>2, <2>3 DEF ClaimExcused
<1>2. ASSUME claim' = d
      PROVE  /\ run'[d].step # "new"
             /\ run'[d].step = "finished" => run'[d].unsafe \/ run'[d].lost
  <2> USE <1>2 DEF Goes, Changes
  <2>1. CASE Quiet(d)
    <3>1. claim = d
      BY <2>1 DEF Quiet
    <3>2. run[d].step # "new"
      BY <3>1 DEF ClaimExcused
    <3> QED
      BY <2>1, <3>2 DEF Quiet, BodySteps, WorkerSteps
  <2>2. CASE Claims(d)
    BY <2>2 DEF Claims
  <2>3. CASE Leaves(d)
    BY <2>3, DeploymentAssumption DEF Leaves
  <2>4. CASE Creates(d)
    BY <2>4 DEF Creates, WorkerSteps
  <2>5. CASE Works(d)
    <3>1. claim = d
      BY <2>5 DEF Works
    <3> QED
      BY <2>5, <3>1 DEF Works, SameEnd, ClaimExcused
  <2>6. CASE Removes(d)
    <3>1. run'[d].step \in {"preserved", "installed", "verified", "checked", "closing"}
      BY <2>6 DEF Removes, Following, WorkerSteps
    <3> QED
      BY <3>1
  <2>7. CASE Abandons(d) \/ Halts(d) \/ Prepares(d)
    BY <2>7 DEF Abandons, Halts, Prepares
  <2>8. CASE Launches(d) \/ TakesDown(d)
    <3>1. \/ run'[d].step \notin {"new", "finished"}
          \/ /\ claim = d /\ run'[d].step = run[d].step
             /\ run'[d].unsafe = run[d].unsafe /\ run'[d].lost = run[d].lost
      BY <2>8 DEF Launches, TakesDown, SameEnd
    <3> QED
      BY <3>1 DEF ClaimExcused
  <2> QED
    BY <2>1, <2>2, <2>3, <2>4, <2>5, <2>6, <2>7, <2>8 DEF Effect
<1> QED
  BY <1>1, <1>2 DEF ClaimExcused

THEOREM KeptClaimsAreExcused == Spec => []ClaimExcused
<1>1. Init => ClaimExcused
  BY DeploymentAssumption DEF Init, ClaimExcused
<1>2. IInv /\ ClaimExcused /\ [Next]_vars => ClaimExcused'
  <2> SUFFICES ASSUME IInv, ClaimExcused, [Next]_vars PROVE ClaimExcused'
    OBVIOUS
  <2>1. ASSUME NEW d \in Runs, ByRun(d)
        PROVE  ClaimExcused'
    BY <2>1, TypeStep, Effects, ExcusedStep DEF IInv
  <2>2. CASE UNCHANGED <<run, claim>>
    BY <2>2 DEF ClaimExcused
  <2> QED
    BY <2>1, <2>2, NextCases DEF Around, FeDies, OutsiderStarts, OutsiderWrites, vars
<1> QED
  BY <1>1, <1>2, Invariance, PTL DEF Spec

=============================================================================
