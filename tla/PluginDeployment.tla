-------------------------- MODULE PluginDeployment --------------------------
(***************************************************************************)
(* How compose/plugin_deploy.py replaces the connector in a running front  *)
(* end: several runs, from any checkout or host, share one Docker daemon.  *)
(* A run claims the plugin volume by creating a container with a name made *)
(* from the volume's, saves the old files, stops the FE, replaces the      *)
(* files, starts the FE and attests which build it loaded; a teardown      *)
(* claims and removes everything.  The work on the volume is done by       *)
(* helper containers, which go on when the run that started them is gone.  *)
(*                                                                         *)
(* Every request to the daemon may fail, and may have had its effect all   *)
(* the same (a client timeout); a run may be interrupted or killed.  A     *)
(* failure is the action Fail after, or instead of, the step it hits.      *)
(***************************************************************************)
EXTENDS Integers

CONSTANTS
  Runs,        \* invocations of plugin_deploy.py, each with a token of its own
  Nobody,      \* the value of claim while no run holds it
  BuildOf,     \* BuildOf[d]: the build a run installs
  Outsiders,   \* whether others start the FE and write the volume by hand
  MaxStarts    \* bound on the number of FE starts

Builds == {BuildOf[d] : d \in Runs}
(* The volume is missing, empty, half replaced, holds the plugin of before *)
(* or one of the builds.                                                   *)
Contents == Builds \cup {"absent", "empty", "torn", "old"}

ASSUME DeploymentAssumption ==
  /\ Nobody \notin Runs
  /\ {"absent", "empty", "torn", "old"} \cap Builds = {}
  /\ Outsiders \in BOOLEAN /\ MaxStarts \in Nat

VARIABLES
  claim,    \* the run whose token the claim container has
  volume,   \* what the plugin volume holds
  fe,       \* the FE container: its id (0: none), whether it runs, its last start
  loads,    \* loads[n]: what the n-th start of an FE loaded; 0 is the one of before
  starts,   \* how many starts there were
  helper,   \* helper[d]: the helper container of run d
  down,     \* down[d]: how far a compose down is in the daemon
  run       \* run[d]: the state of the run's process

vars == <<claim, volume, fe, loads, starts, helper, down, run>>

-----------------------------------------------------------------------------
(* The steps that call a worker, what it does, and the step that follows.  *)
WorkerSteps == {"prepared", "staged", "installed", "matched"}
Operation == [prepared |-> "snapshot", staged |-> "install", installed |-> "verify",
              matched |-> "verify"]
Following == [prepared |-> "preserved", staged |-> "installed", installed |-> "verified",
              matched |-> "checked"]

BodySteps == WorkerSteps \cup {"claimed", "preserved", "stopped", "bounded", "verified",
                               "starting", "ready", "confirmed", "checked", "attested"}
Steps == BodySteps \cup {"new", "removing", "failing", "closing", "leaving", "finished", "killed"}

NoHelper == [op |-> "none", at |-> "gone", known |-> FALSE]
HelperRecord ==
  [op: {"none", "snapshot", "install", "verify"},
   at: {"gone", "created", "running", "clearing", "done", "failed"}, known: BOOLEAN]

(* teardown: whether it was run with --down; boundary: install_boundary;   *)
(* attested: deployment_attested; unsafe: unsafe_helper_state or           *)
(* unsafe_fe_state; lost: whether the reply to a request for the claim was *)
(* lost; prev: the rollback archive; priorId and priorStart: prior;        *)
(* newStart: new_process.                                                  *)
RunRecord ==
  [step: Steps, teardown: BOOLEAN, failed: BOOLEAN, boundary: BOOLEAN, attested: BOOLEAN,
   unsafe: BOOLEAN, lost: BOOLEAN, interrupted: BOOLEAN, prev: Contents,
   priorId: Nat, priorStart: Nat, newStart: Nat]

NewRun == [step |-> "new", teardown |-> FALSE, failed |-> FALSE, boundary |-> FALSE,
           attested |-> FALSE, unsafe |-> FALSE, lost |-> FALSE, interrupted |-> FALSE,
           prev |-> "absent", priorId |-> 0, priorStart |-> 0, newStart |-> 0]

NoFe == [id |-> 0, running |-> FALSE, start |-> 0]

TypeOK ==
  /\ claim \in Runs \cup {Nobody}
  /\ volume \in Contents
  /\ fe \in [id: Nat, running: BOOLEAN, start: Nat]
  /\ starts \in 0..MaxStarts
  /\ loads \in [0..MaxStarts -> Contents]
  /\ helper \in [Runs -> HelperRecord]
  /\ down \in [Runs -> {"none", "fe", "volume", "done"}]
  /\ run \in [Runs -> RunRecord]

Init ==
  /\ claim = Nobody
  /\ \/ volume = "absent" /\ fe = NoFe
     \/ volume = "old" /\ fe \in {NoFe} \cup [id: {1}, running: BOOLEAN, start: {0}]
  /\ starts = 0
  /\ loads = [n \in 0..MaxStarts |-> IF n = 0 THEN "old" ELSE "absent"]
  /\ helper = [d \in Runs |-> NoHelper]
  /\ down = [d \in Runs |-> "none"]
  /\ run \in [Runs -> {NewRun, [NewRun EXCEPT !.teardown = TRUE]}]

-----------------------------------------------------------------------------
(* THE DAEMON                                                              *)
daemon == <<volume, fe, loads, starts, down>>

At(d, s) == run[d].step = s
Moves(d, s) == run' = [run EXCEPT ![d].step = s]
(* An exception leaves the body of the run, and something may be left in   *)
(* the daemon that the claim must outlive.                                 *)
Fails(d) == run' = [run EXCEPT ![d].step = "failing", ![d].failed = TRUE]
MovesUnsafe(d, s) == run' = [run EXCEPT ![d].step = s, ![d].unsafe = TRUE]
HelperGoes(d, at) == helper' = [helper EXCEPT ![d].at = at]

(* revalidate: no container but the FE may use the plugin volume.          *)
SoleConsumer == \A d \in Runs : helper[d].op = "none"

(* docker start or compose up: the new process loads what the volume holds.*)
FeStarts ==
  /\ ~fe.running /\ starts < MaxStarts
  /\ starts' = starts + 1
  /\ fe' = [id |-> IF fe.id = 0 THEN starts + 2 ELSE fe.id, running |-> TRUE, start |-> starts + 1]
  /\ loads' = [loads EXCEPT ![starts + 1] = volume]

FeStops == fe' = [fe EXCEPT !.running = FALSE] /\ UNCHANGED <<loads, starts>>

(* The FE process dies.                                                    *)
FeDies == fe.running /\ FeStops /\ UNCHANGED <<claim, volume, helper, down, run>>

(* Somebody who does not honor the claim.                                  *)
OutsiderStarts ==
  /\ Outsiders /\ fe.id # 0 /\ FeStarts
  /\ UNCHANGED <<claim, volume, helper, down, run>>
OutsiderWrites ==
  /\ Outsiders /\ volume # "absent"
  /\ volume' \in Builds \cup {"torn"}
  /\ UNCHANGED <<claim, fe, loads, starts, helper, down, run>>

-----------------------------------------------------------------------------
(* OWNERSHIP                                                               *)
(* The name of the claim container is atomic within the daemon.  When the  *)
(* reply is lost, the run ends and the claim stays.                        *)
(* (EndsMisnamed is a mutant of Ends.)                                     *)
EndsMisnamed(d) == run' = [run EXCEPT ![d].step = "failed", ![d].failed = TRUE]
Ends(d) == run' = [run EXCEPT ![d].step = "finished", ![d].failed = TRUE]
EndsUnsure(d) ==
  run' = [run EXCEPT ![d].step = "finished", ![d].failed = TRUE, ![d].lost = TRUE]

Claim(d) ==
  /\ At(d, "new") /\ claim = Nobody
  /\ claim' = d
  /\ Moves(d, "claimed") \/ EndsUnsure(d)
  /\ UNCHANGED <<daemon, helper>>

ClaimOccupied(d) ==
  /\ At(d, "new") /\ claim # Nobody
  /\ Ends(d)
  /\ UNCHANGED <<claim, daemon, helper>>

(* The end of ownership(): the helpers are cleaned up once more, and the   *)
(* claim is removed, which may fail, unless something unsafe may run.      *)
CleanUp(d) ==
  \/ UNCHANGED helper
  \/ helper[d].known /\ helper' = [helper EXCEPT ![d] = NoHelper]
(* A mutant of LeaveSafely: that the claim may not be gone is overlooked.  *)
LeaveUnchecked(d) == claim' \in {claim, Nobody} /\ Moves(d, "finished")
LeaveSafely(d) ==
  \/ claim' = Nobody /\ Moves(d, "finished")
  \/ claim' \in {claim, Nobody} /\ EndsUnsure(d)

(* Mutants of Leave: the claim is released whatever is still running; it   *)
(* is released only by a run that succeeded.                               *)
LeaveAnyway(d) ==
  /\ At(d, "leaving")
  /\ CleanUp(d) /\ LeaveSafely(d)
  /\ UNCHANGED daemon
LeaveHolding(d) ==
  /\ At(d, "leaving")
  /\ CleanUp(d)
  /\ IF run[d].unsafe \/ run[d].failed THEN claim' = claim /\ Moves(d, "finished") ELSE LeaveSafely(d)
  /\ UNCHANGED daemon

Leave(d) ==
  /\ At(d, "leaving")
  /\ CleanUp(d)
  /\ IF run[d].unsafe THEN claim' = claim /\ Moves(d, "finished") ELSE LeaveSafely(d)
  /\ UNCHANGED daemon

-----------------------------------------------------------------------------
(* HELPER CONTAINERS                                                       *)
(* worker: create, copy files in, start and attach, check the exit code,   *)
(* remove.  Only the last check looks at what the helper did.              *)
CreateHelper(d) ==
  /\ run[d].step \in WorkerSteps /\ helper[d] = NoHelper
  /\ At(d, "prepared") => volume # "absent"
  /\ At(d, "staged") => SoleConsumer /\ fe.id = run[d].priorId /\ ~fe.running
  /\ \E known \in BOOLEAN :
       /\ helper' = [helper EXCEPT ![d] = [op |-> Operation[run[d].step], at |-> "created", known |-> known]]
       /\ IF known THEN UNCHANGED run
          ELSE Fails(d)
  /\ UNCHANGED <<claim, daemon>>

StartHelper(d) ==
  /\ run[d].step \in WorkerSteps /\ helper[d].known /\ helper[d].at = "created"
  /\ HelperGoes(d, "running")
  /\ UNCHANGED <<claim, daemon, run>>

Doing(d, op) == helper[d].op = op /\ helper[d].at = "running"

(* snapshot, the two halves of install, and verify, inside the helper.     *)
Snapshots(d) ==
  /\ Doing(d, "snapshot") /\ HelperGoes(d, "done")
  /\ run' = [run EXCEPT ![d].prev = volume]
  /\ UNCHANGED <<claim, daemon>>

ClearVolume(d) ==
  /\ Doing(d, "install") /\ volume = run[d].prev
  /\ volume' = "torn"
  /\ HelperGoes(d, "clearing")
  /\ UNCHANGED <<claim, fe, loads, starts, down, run>>
CopyBuild(d) ==
  /\ helper[d].at = "clearing"
  /\ volume' = BuildOf[d]
  /\ HelperGoes(d, "done")
  /\ UNCHANGED <<claim, fe, loads, starts, down, run>>

Verifies(d) ==
  /\ Doing(d, "verify") /\ volume = BuildOf[d]
  /\ HelperGoes(d, "done")
  /\ UNCHANGED <<claim, daemon, run>>

HelperFails(d) ==
  /\ helper[d].at \in {"running", "clearing"}
  /\ HelperGoes(d, "failed")
  /\ UNCHANGED <<claim, daemon, run>>

(* A mutant of WorkerReturns: the exit code is not looked at.              *)
WorkerEnds(d) ==
  /\ run[d].step \in WorkerSteps /\ helper[d].at \in {"done", "failed"}
  /\ helper' = [helper EXCEPT ![d] = NoHelper]
  /\ Moves(d, Following[run[d].step])
  /\ UNCHANGED <<claim, daemon>>
WorkerReturns(d) ==
  /\ run[d].step \in WorkerSteps /\ helper[d].at = "done"
  /\ helper' = [helper EXCEPT ![d] = NoHelper]
  /\ Moves(d, Following[run[d].step])
  /\ UNCHANGED <<claim, daemon>>

-----------------------------------------------------------------------------
(* DEPLOYMENT                                                              *)
(* The FE of before is recorded; without a volume there is nothing to save.*)
Inspect(d) ==
  /\ At(d, "claimed") /\ ~run[d].teardown /\ SoleConsumer
  /\ run' = [run EXCEPT ![d].step = "prepared", ![d].priorId = fe.id, ![d].priorStart = fe.start]
  /\ UNCHANGED <<claim, daemon, helper>>
BackupEmpty(d) ==
  /\ At(d, "prepared") /\ volume = "absent" /\ helper[d] = NoHelper
  /\ run' = [run EXCEPT ![d].step = "preserved", ![d].prev = "empty"]
  /\ UNCHANGED <<claim, daemon, helper>>

StopFe(d) ==
  /\ At(d, "preserved") /\ SoleConsumer /\ fe.id = run[d].priorId
  /\ FeStops
  /\ Moves(d, "stopped")
  /\ UNCHANGED <<claim, volume, helper, down>>
CrossBoundary(d) ==
  /\ At(d, "stopped")
  /\ run' = [run EXCEPT ![d].step = "bounded", ![d].boundary = TRUE]
  /\ UNCHANGED <<claim, daemon, helper>>
PrepareVolume(d) ==
  /\ At(d, "bounded") /\ SoleConsumer /\ fe.id = run[d].priorId /\ ~fe.running
  /\ volume' = IF volume = "absent" THEN "empty" ELSE volume
  /\ Moves(d, "staged")
  /\ UNCHANGED <<claim, fe, loads, starts, helper, down>>

StartFe(d) ==
  /\ At(d, "verified") /\ SoleConsumer
  /\ FeStarts
  /\ Moves(d, "starting")
  /\ UNCHANGED <<claim, volume, helper, down>>
WaitReady(d) ==
  /\ At(d, "starting") /\ SoleConsumer /\ fe.running
  /\ run[d].priorId # 0 => fe.id = run[d].priorId /\ fe.start > run[d].priorStart
  /\ run' = [run EXCEPT ![d].step = "ready", ![d].newStart = fe.start]
  /\ UNCHANGED <<claim, daemon, helper>>

(* confirm_process; a mutant of it compares the container, not the process.*)
SameContainer(d) == SoleConsumer /\ fe.running
SameProcess(d) == SoleConsumer /\ fe.running /\ fe.start = run[d].newStart
Confirm(d) ==
  /\ At(d, "ready") /\ SameProcess(d)
  /\ Moves(d, "confirmed")
  /\ UNCHANGED <<claim, daemon, helper>>
(* The registry is that of the process that answers, confirmed or not.     *)
ReadRegistry(d) ==
  /\ At(d, "confirmed") /\ fe.running /\ loads[fe.start] = BuildOf[d]
  /\ Moves(d, "matched")
  /\ UNCHANGED <<claim, daemon, helper>>
Attest(d) ==
  /\ At(d, "checked") /\ SameProcess(d)
  /\ run' = [run EXCEPT ![d].step = "attested", ![d].attested = TRUE]
  /\ UNCHANGED <<claim, daemon, helper>>
(* There was no smoke command, or it succeeded.                            *)
SmokeEnds(d) ==
  /\ At(d, "attested")
  /\ Moves(d, "leaving")
  /\ UNCHANGED <<claim, daemon, helper>>

-----------------------------------------------------------------------------
(* FAILURE                                                                 *)
Fail(d) ==
  /\ run[d].step \in BodySteps /\ ~run[d].teardown
  /\ Fails(d)
  /\ UNCHANGED <<claim, daemon, helper>>

(* SIGTERM or SIGINT raises a RuntimeError where the run is.  The polling  *)
(* of the starting FE and the reading of its cluster id catch those.       *)
Interrupt(d) ==
  /\ run[d].step \in BodySteps /\ ~run[d].teardown /\ ~run[d].interrupted
  /\ \/ run' = [run EXCEPT ![d].step = "failing", ![d].failed = TRUE, ![d].interrupted = TRUE]
     \/ run[d].step \in {"claimed", "starting"} /\ run' = [run EXCEPT ![d].interrupted = TRUE]
  /\ UNCHANGED <<claim, daemon, helper>>

(* A helper that cannot be stopped and removed is left as it is.           *)
CleanupHelpers(d) ==
  /\ At(d, "failing")
  /\ \/ helper' = [helper EXCEPT ![d] = IF @.known THEN NoHelper ELSE @] /\ Moves(d, "closing")
     \/ helper[d].known /\ UNCHANGED helper
        /\ MovesUnsafe(d, "closing")
  /\ UNCHANGED <<claim, daemon>>

(* A mutant of FailClosed: the FE is left as it is.                        *)
FailOpen(d) ==
  /\ At(d, "closing") /\ Moves(d, "leaving")
  /\ UNCHANGED <<claim, daemon, helper>>
FailClosed(d) ==
  /\ At(d, "closing")
  /\ IF ~run[d].boundary \/ run[d].attested
     THEN Moves(d, "leaving") /\ UNCHANGED <<fe, loads, starts>>
     ELSE \/ SoleConsumer /\ FeStops /\ Moves(d, "leaving")
          \/ /\ FeStops \/ UNCHANGED <<fe, loads, starts>>
             /\ MovesUnsafe(d, "leaving")
  /\ UNCHANGED <<claim, volume, helper, down>>

(* SIGKILL, a lost host: nothing is undone.                                *)
Kill(d) ==
  /\ run[d].step \notin {"new", "finished", "killed"}
  /\ Moves(d, "killed")
  /\ UNCHANGED <<claim, daemon, helper>>

-----------------------------------------------------------------------------
(* TEARDOWN                                                                *)
RequestDown(d) ==
  /\ At(d, "claimed") /\ run[d].teardown /\ SoleConsumer
  /\ down' = [down EXCEPT ![d] = "fe"]
  /\ Moves(d, "removing")
  /\ UNCHANGED <<claim, volume, fe, loads, starts, helper>>
DownRemovesFe(d) ==
  /\ down[d] = "fe"
  /\ fe' = NoFe
  /\ down' = [down EXCEPT ![d] = "volume"]
  /\ UNCHANGED <<claim, volume, loads, starts, helper, run>>
DownRemovesVolume(d) ==
  /\ down[d] = "volume" /\ SoleConsumer /\ fe.id = 0
  /\ volume' = "absent"
  /\ down' = [down EXCEPT ![d] = "done"]
  /\ UNCHANGED <<claim, fe, loads, starts, helper, run>>
DownReturns(d) ==
  /\ At(d, "removing") /\ down[d] = "done"
  /\ down' = [down EXCEPT ![d] = "none"]
  /\ Moves(d, "leaving")
  /\ UNCHANGED <<claim, volume, fe, loads, starts, helper>>
(* The client gives up; what it asked the daemon for may go on.            *)
DownFails(d) ==
  /\ run[d].step \in {"claimed", "removing"} /\ run[d].teardown
  /\ run' = [run EXCEPT ![d].step = "leaving", ![d].failed = TRUE, ![d].unsafe = TRUE]
  /\ UNCHANGED <<claim, daemon, helper>>

-----------------------------------------------------------------------------
(* What the process of a run does, and what happens to it and around it.   *)
RunStep(d) ==
  \/ Claim(d) \/ ClaimOccupied(d) \/ Leave(d)
  \/ CreateHelper(d) \/ StartHelper(d) \/ WorkerReturns(d)
  \/ Inspect(d) \/ BackupEmpty(d) \/ StopFe(d) \/ CrossBoundary(d) \/ PrepareVolume(d)
  \/ StartFe(d) \/ WaitReady(d) \/ Confirm(d) \/ ReadRegistry(d) \/ Attest(d) \/ SmokeEnds(d)
  \/ Fail(d) \/ CleanupHelpers(d) \/ FailClosed(d)
  \/ RequestDown(d) \/ DownReturns(d) \/ DownFails(d)

DaemonStep(d) ==
  \/ Snapshots(d) \/ ClearVolume(d) \/ CopyBuild(d) \/ Verifies(d) \/ HelperFails(d)
  \/ DownRemovesFe(d) \/ DownRemovesVolume(d)

Next ==
  \/ \E d \in Runs : RunStep(d) \/ DaemonStep(d) \/ Interrupt(d) \/ Kill(d)
  \/ FeDies \/ OutsiderStarts \/ OutsiderWrites

Spec == Init /\ [][Next]_vars
(* Where a run may wait for ever: docker_output, which revalidate and so   *)
(* every look at the FE is made of, has no time limit, and neither has the *)
(* wait for the smoke driver.  The other requests have one: those of a     *)
(* worker, of the cleaning up, of a compose down and of leaving.           *)
WaitsWithoutLimit(d) ==
  \/ run[d].step \in {"new", "claimed", "preserved", "stopped", "bounded", "verified", "starting",
                     "ready", "confirmed", "checked", "attested"}
  \/ run[d].step \in {"prepared", "staged"} /\ helper[d] = NoHelper
  \/ At(d, "closing") /\ run[d].boundary /\ ~run[d].attested
LimitedStep(d) == ~WaitsWithoutLimit(d) /\ RunStep(d)
(* A process that lives gets over every wait that has a time limit.        *)
FairSpec == Spec /\ \A d \in Runs : WF_vars(LimitedStep(d))

-----------------------------------------------------------------------------
(* Whoever may still change the plugin volume holds the claim, dead or     *)
(* alive: an install helper or a compose down outlives its client, and a   *)
(* rival must not start beside it.  While an install runs, no FE does.     *)
Installs(d) ==
  helper[d].known /\ helper[d].op = "install" /\ helper[d].at \in {"created", "running", "clearing"}
WritesExclusive ==
  \A d \in Runs :
    /\ Installs(d) \/ down[d] \in {"fe", "volume"} => claim = d
    /\ ~Outsiders /\ Installs(d) => ~fe.running

(* When no one holds the claim, the FE that serves is the one of before or *)
(* one that a run attested: a failed deployment is kept stopped.           *)
UnattestedNeverServes ==
  ~Outsiders /\ claim = Nobody /\ fe.running /\ fe.start # 0 =>
    \E d \in Runs : run[d].attested /\ run[d].newStart = fe.start

(* No FE ever starts from half replaced files.                             *)
NeverLoadsTorn == ~Outsiders => \A n \in 1..starts : loads[n] \in Builds

(* A receipt tells the truth about the process it names, even when others  *)
(* restart the FE and write the volume during attestation.                 *)
AttestationTrue ==
  \A d \in Runs : run[d].attested => loads[run[d].newStart] = BuildOf[d]

(* The claim comes back unless its owner was killed, lost a reply or had   *)
(* to leave something running, or waits for ever for what has no limit: a  *)
(* run that gets an answer or an exception there has no excuse from then.  *)
ClaimReturned ==
  \A d \in Runs :
    \/ <>[]WaitsWithoutLimit(d)
    \/ claim = d ~> claim # d \/ run[d].unsafe \/ run[d].lost \/ At(d, "killed")

(* An interrupted run ends as a failed one.                                *)
InterruptedRunFails ==
  \A d \in Runs : run[d].interrupted /\ At(d, "finished") => run[d].failed

(* Where all honor the claim, runs as a whole implement GuardedPlugin: the *)
(* files change only under their owner and no running FE, a start loads    *)
(* the owner's whole build, and the claim is given back only over an FE    *)
(* that is stopped, attested or of before.                                 *)
Guarded == INSTANCE GuardedPlugin WITH
  Owners  <- Runs,
  owner   <- claim,
  files   <- volume,
  serving <- IF fe.running THEN loads[fe.start] ELSE "nothing",
  vouched <- fe.running /\ fe.start # 0 =>
               \E d \in Runs : run[d].attested /\ run[d].newStart = fe.start
PluginGuarded == Guarded!Spec

(* To whoever started it, each run is a deployment that keeps the contract *)
(* the campaigns rely on: its claim is not lost while it works, a success  *)
(* has given it back, and a run that never had it takes nobody else's.     *)
ChildOf(d) ==
  CASE At(d, "new") -> "starting"
    [] At(d, "finished") -> IF run[d].failed THEN "failed" ELSE "succeeded"
    [] At(d, "killed") -> "failed"
    [] OTHER -> "working"
ClaimOf(d) ==
  CASE claim = Nobody -> "none"
    [] claim = d /\ ChildOf(d) = "working" -> "held"
    [] OTHER -> "retained"
Contract(d) == INSTANCE DeploymentContract WITH child <- ChildOf(d), claim <- ClaimOf(d)
ContractKept ==
  /\ \A d \in Runs : Contract(d)!Init
  /\ [][\A d \in Runs : [Contract(d)!Next]_(Contract(d)!vars)]_vars
=============================================================================
