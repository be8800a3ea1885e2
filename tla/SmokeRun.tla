------------------------------ MODULE SmokeRun ------------------------------
(***************************************************************************)
(* A full smoke, from the moment the new FE answers to the exit code.      *)
(*                                                                         *)
(* The owner (plugin_deploy.py) resolves the substrate, attests which FE   *)
(* and BE processes serve, and starts the driver (smoke_run.sh) in a       *)
(* process group of its own.  The driver lets one check process after      *)
(* another (smoke_checks.py) observe a case and record it in the ledger;   *)
(* the last closes the ledger and writes a receipt of it.  The owner then  *)
(* verifies ledger, receipt and processes, and reports.                    *)
(*                                                                         *)
(* All of it is in files that are replaced whole, and all of it may be cut *)
(* short: the FE and the BE may restart at any time, the owner may get     *)
(* signals, and a driver may lose its shell while a check process goes on. *)
(* What PluginDeployment models (the claim, the volume, the helpers) is    *)
(* left out.                                                               *)
(***************************************************************************)
EXTENDS SmokeEvidence

CONSTANTS
  Required,       \* the cases of the ledger, in the order of the driver
  KnownFailures,  \* the cases with a reviewed expected failure
  MaxProcess,     \* bound on the number of FE and of BE processes
  MaxRoute,       \* bound on the number of substrate configurations
  MaxSignals      \* bound on the signals that the owner gets

ASSUME SmokeAssumption ==
  /\ Required \in Seq(Cases) /\ Len(Required) > 0
  /\ \A i, j \in DOMAIN Required : Required[i] = Required[j] => i = j
  /\ KnownFailures \subseteq Cases
  /\ MaxProcess \in Nat \ {0} /\ MaxRoute \in Nat \ {0} /\ MaxSignals \in Nat

N == Len(Required)

VARIABLES
  step,     \* the owner: where it is
  signals,  \* how many signals it got
  exit,     \* its exit code, once it has one
  fe, be,   \* the FE and the BE process that run: the n-th of its kind
  newFe,    \* the FE process that the owner started (new_process)
  boundBe,  \* the BE process of runtime_images
  seen,     \* the pairs of processes that answered a gate or a case
  route,    \* the configuration of the substrate, which others may edit
  planned,  \* the one the owner resolved before it started the substrate
  served,   \* the one that the substrate was started with
  target,   \* the one of smoke_target
  attested, \* deployment-attested.json: none, current, or kept as history
  result,   \* run-result.json
  ledger,   \* smoke-assertions.json
  right,    \* the cases that were as demanded when they were observed
  proof,    \* smoke-correctness.json, with the ledger it has the hash of
  driver,   \* the shell of the driver
  case,     \* the case that the driver is at; 0: init, N + 1: finish
  check,    \* its check process
  held,     \* the ledger that the check process will write
  lone      \* whether a shell ended by itself and its check process went on

owner == <<exit, newFe, boundBe, planned, served, target, attested, result>>
checks == <<ledger, right, proof, check, held>>
smoke == <<checks, driver, case, lone>>
processes == <<fe, be, route>>
vars == <<step, signals, owner, smoke, processes, seen>>

-----------------------------------------------------------------------------
Outcomes == {"passed", "expected_failure", "failed"}
LedgerRecord == [status: Outcomes \cup {"none", "checking"}, rows: [1..N -> Outcomes \cup {"none"}],
                 target: 0..MaxRoute]
NoLedger == [status |-> "none", rows |-> [i \in 1..N |-> "none"], target |-> 0]

(* What an exception in these steps leads to differs: see Interrupt.       *)
Body == {"new", "planned", "served", "started", "backed", "seeing", "asking", "stable",
         "attested", "smoking", "exited", "verified"}
Reporting == {"confirmed", "writing"}
Handler == {"retracting", "retracted", "reporting"}
Steps == Body \cup Reporting \cup Handler \cup {"returned", "stopping", "failing", "ended", "killed"}

TypeOK ==
  /\ step \in Steps /\ signals \in 0..MaxSignals /\ exit \in {"none", "0", "1"}
  /\ {fe, be} \subseteq 1..MaxProcess /\ {newFe, boundBe} \subseteq 0..MaxProcess
  /\ seen \subseteq (1..MaxProcess) \X (1..MaxProcess)
  /\ route \in 1..MaxRoute /\ {planned, served, target} \subseteq 0..MaxRoute
  /\ attested \in {"none", "current", "history"}
  /\ result \in {"none", "passed", "failed"}
  /\ ledger \in LedgerRecord /\ held \in LedgerRecord
  /\ right \subseteq 1..N
  /\ proof \in [at: {"none", "current", "history"}, of: LedgerRecord]
  /\ driver \in {"none", "running", "trap", "ok", "failed"}
  /\ case \in 0..N + 1
  /\ check \in {"none", "record", "finish", "prove", "ok", "bad"}
  /\ lone \in BOOLEAN

Init ==
  /\ step = "new" /\ signals = 0 /\ exit = "none"
  /\ fe = 1 /\ be = 1 /\ newFe = 0 /\ boundBe = 0 /\ seen = {}
  /\ route = 1 /\ planned = 0 /\ served = 0 /\ target = 0
  /\ attested = "none" /\ result = "none"
  /\ ledger = NoLedger /\ held = NoLedger /\ right = {}
  /\ proof = [at |-> "none", of |-> NoLedger]
  /\ driver = "none" /\ case = 0 /\ check = "none" /\ lone = FALSE

-----------------------------------------------------------------------------
(* AROUND THE SMOKE                                                        *)
FeRestarts == fe < MaxProcess /\ fe' = fe + 1 /\ UNCHANGED <<be, route>>
BeRestarts == be < MaxProcess /\ be' = be + 1 /\ UNCHANGED <<fe, route>>
RouteEdited == route < MaxRoute /\ route' = route + 1 /\ UNCHANGED <<fe, be>>
Around ==
  /\ FeRestarts \/ BeRestarts \/ RouteEdited
  /\ UNCHANGED <<step, signals, owner, smoke, seen>>

-----------------------------------------------------------------------------
(* THE OWNER BEFORE THE SMOKE                                              *)
Goes(from, to) == step = from /\ step' = to

(* resolve_substrate, before the substrate is started and after; whatever  *)
(* it finds missing, foreign or ambiguous is a failure (Fail).             *)
PlanRoute ==
  /\ Goes("new", "planned") /\ planned' = route
  /\ UNCHANGED <<signals, exit, newFe, boundBe, served, target, attested, result, smoke, processes, seen>>
StartSubstrate ==
  /\ Goes("planned", "served") /\ served' = route
  /\ UNCHANGED <<signals, exit, newFe, boundBe, planned, target, attested, result, smoke, processes, seen>>
(* A mutant of ResolveRoute: the two resolutions are not compared.         *)
ResolveAnyRoute ==
  /\ Goes("served", "started")
  /\ target' = route /\ newFe' = fe
  /\ UNCHANGED <<signals, exit, boundBe, planned, served, attested, result, smoke, processes, seen>>
(* The installation follows; the FE that gets ready is new_process.        *)
ResolveRoute ==
  /\ Goes("served", "started") /\ route = planned
  /\ target' = route /\ newFe' = fe
  /\ UNCHANGED <<signals, exit, boundBe, planned, served, attested, result, smoke, processes, seen>>

(* ProviderAttestation.run: compose up of the BE, which may have to be     *)
(* started, and a look at the container it runs in.                        *)
SameFe == fe = newFe
SameBe == be = boundBe
StartBackend ==
  /\ Goes("started", "backed") /\ SameFe
  /\ be' \in {be, be + 1} \cap (1..MaxProcess)
  /\ UNCHANGED <<signals, owner, smoke, fe, route, seen>>
BindBackend ==
  /\ Goes("backed", "seeing") /\ boundBe' = be
  /\ UNCHANGED <<signals, exit, newFe, planned, served, target, attested, result, smoke, processes, seen>>
(* query: the process is confirmed first, and then asked, over and over:   *)
(* for live backends, frontends, the inventory, a readiness SELECT.        *)
ConfirmFe ==
  /\ Goes("seeing", "asking") /\ SameFe
  /\ UNCHANGED <<signals, owner, smoke, processes, seen>>
Answer ==
  /\ Goes("asking", "seeing")
  /\ seen' = seen \cup {<<fe, be>>}
  /\ UNCHANGED <<signals, owner, smoke, processes>>
ConfirmBoth ==
  /\ Goes("seeing", "stable") /\ seen # {} /\ SameFe /\ SameBe
  /\ UNCHANGED <<signals, owner, smoke, processes, seen>>
Attest ==
  /\ Goes("stable", "attested") /\ attested' = "current"
  /\ UNCHANGED <<signals, exit, newFe, boundBe, planned, served, target, result, smoke, processes, seen>>

-----------------------------------------------------------------------------
(* THE DRIVER AND ITS CHECK PROCESSES                                      *)
StartDriver ==
  /\ Goes("attested", "smoking") /\ driver' = "running"
  /\ UNCHANGED <<signals, owner, checks, case, lone, processes, seen>>

Idle == driver = "running" /\ check = "none"
Checked(how) == check' = how /\ UNCHANGED <<step, signals, owner, driver, case, lone, processes>>

(* initialize: a ledger that is there is not adopted.                      *)
InitLedger ==
  /\ Idle /\ case = 0
  /\ IF ledger.status = "none"
     THEN ledger' = [status |-> "checking", rows |-> NoLedger.rows, target |-> target] /\ Checked("ok")
     ELSE UNCHANGED ledger /\ Checked("bad")
  /\ UNCHANGED <<right, proof, held, seen>>

(* A case is observed, in SQL, in the catalog and in the object store, and *)
(* record takes the ledger it reads for open and the case for new.         *)
Recorded(outcome) ==
  [status |-> IF outcome = "passed" THEN ledger.status ELSE outcome,
   rows |-> [ledger.rows EXCEPT ![case] = outcome], target |-> ledger.target]
OutcomesOf(o) ==
  IF o.as = "failed" /\ Required[case] \in KnownFailures THEN {"failed", "expected_failure"} ELSE {o.as}
Observe ==
  /\ Idle /\ case \in 1..N
  /\ seen' = seen \cup {<<fe, be>>}
  /\ \E o \in Observations[Required[case]] :
       /\ right' = IF o.right THEN right \cup {case} ELSE right
       /\ IF o.as # "raises" /\ ledger.status = "checking" /\ ledger.rows[case] = "none"
          THEN (\E outcome \in OutcomesOf(o) : held' = Recorded(outcome)) /\ Checked("record")
          ELSE UNCHANGED held /\ Checked("bad")
  /\ UNCHANGED <<ledger, proof>>
WriteRecord ==
  /\ check = "record" /\ ledger' = held
  /\ Checked(IF held.status = "checking" THEN "ok" ELSE "bad")
  /\ UNCHANGED <<right, proof, held, seen>>

(* validate_ledger; finish writes the ledger, and then a receipt with the  *)
(* hash of the file as it is by then.                                      *)
validate_ledger(l) == l.target = target /\ \A i \in 1..N : l.rows[i] = "passed"
Finish ==
  /\ Idle /\ case = N + 1
  /\ IF ledger.status = "checking" /\ validate_ledger(ledger)
     THEN held' = [ledger EXCEPT !.status = "passed"] /\ Checked("finish")
     ELSE UNCHANGED held /\ Checked("bad")
  /\ UNCHANGED <<ledger, right, proof, seen>>
WriteFinished ==
  /\ check = "finish" /\ ledger' = held /\ Checked("prove")
  /\ UNCHANGED <<right, proof, held, seen>>
WriteProof ==
  /\ check = "prove" /\ proof' = [at |-> "current", of |-> ledger] /\ Checked("ok")
  /\ UNCHANGED <<ledger, right, held, seen>>

(* The shell goes on to the next case, or leaves through its exit trap.    *)
NextCase ==
  /\ driver = "running" /\ check = "ok" /\ case <= N
  /\ case' = case + 1 /\ check' = "none"
  /\ UNCHANGED <<step, signals, owner, ledger, right, proof, held, driver, lone, processes, seen>>
DriverEnds ==
  /\ driver = "running" /\ check = "ok" /\ case = N + 1
  /\ driver' = "ok" /\ check' = "none"
  /\ UNCHANGED <<step, signals, owner, ledger, right, proof, held, case, lone, processes, seen>>
(* A check, a command of the driver itself, or its last log fails.         *)
DriverFails ==
  /\ driver = "running" /\ check \in {"none", "ok", "bad"}
  /\ driver' = "trap" /\ check' = "none"
  /\ UNCHANGED <<step, signals, owner, ledger, right, proof, held, case, lone, processes, seen>>
(* The trap marks the ledger, if there is one and it can; the shell ends.  *)
Abort ==
  /\ driver = "trap" /\ driver' = "failed"
  /\ \/ ledger # NoLedger /\ ledger' = [ledger EXCEPT !.status = "failed"]
     \/ UNCHANGED ledger
  /\ UNCHANGED <<step, signals, owner, right, proof, check, held, case, lone, processes, seen>>

(* Somebody ends the shell alone, by a signal that lets its trap run or by *)
(* one that does not; its check process goes on.                           *)
LoneShell ==
  /\ driver = "running" /\ driver' \in {"trap", "failed"}
  /\ lone' = TRUE
  /\ UNCHANGED <<step, signals, owner, checks, case, processes, seen>>

-----------------------------------------------------------------------------
(* THE OWNER AFTER THE SMOKE                                               *)
DriverReturns ==
  /\ Goes("smoking", "exited") /\ driver = "ok"
  /\ UNCHANGED <<signals, owner, smoke, processes, seen>>
DriverReturnsFailed ==
  /\ Goes("smoking", "failing") /\ driver = "failed"
  /\ UNCHANGED <<signals, owner, smoke, processes, seen>>

verify_completed ==
  ledger.status = "passed" /\ validate_ledger(ledger) /\ proof = [at |-> "current", of |-> ledger]
Verify ==
  /\ Goes("exited", "verified") /\ verify_completed
  /\ UNCHANGED <<signals, owner, smoke, processes, seen>>
(* A mutant of ConfirmAfter: that the BE runs is enough.                   *)
ConfirmFeAfter ==
  /\ Goes("verified", "confirmed") /\ SameFe
  /\ UNCHANGED <<signals, owner, smoke, processes, seen>>
ConfirmAfter ==
  /\ Goes("verified", "confirmed") /\ SameFe /\ SameBe
  /\ UNCHANGED <<signals, owner, smoke, processes, seen>>
(* The claim has been released; all is verified once more.                 *)
VerifyAgain ==
  /\ Goes("confirmed", "writing") /\ verify_completed
  /\ UNCHANGED <<signals, owner, smoke, processes, seen>>
WriteResult ==
  /\ Goes("writing", "returned") /\ result' = "passed"
  /\ UNCHANGED <<signals, exit, newFe, boundBe, planned, served, target, attested, smoke, processes, seen>>
Return ==
  /\ Goes("returned", "ended") /\ exit' = "0"
  /\ UNCHANGED <<signals, newFe, boundBe, planned, served, target, attested, result, smoke, processes, seen>>

-----------------------------------------------------------------------------
(* FAILURE                                                                 *)
(* An exception, in the body under the claim or later in run().            *)
Fail ==
  /\ \/ step \in Body \ {"smoking"} /\ step' = "failing"
     \/ step \in Reporting /\ step' = "retracting"
  /\ UNCHANGED <<signals, owner, smoke, processes, seen>>

(* While the driver runs, its whole group is told to end: the check        *)
(* process does, the shell after its trap, or at once.                     *)
EndsGroup == check' = "none" /\ driver' \in (IF driver = "running" THEN {"trap", "failed"} ELSE {driver})
(* A mutant of Interrupt: only the shell is told.                          *)
InterruptShell ==
  /\ signals < MaxSignals /\ signals' = signals + 1
  /\ \/ step = "smoking" /\ step' = "stopping" /\ UNCHANGED check
          /\ driver' \in (IF driver = "running" THEN {"trap", "failed"} ELSE {driver})
     \/ step # "smoking" /\ step \in Body /\ step' = "failing" /\ UNCHANGED <<check, driver>>
  /\ UNCHANGED <<owner, ledger, right, proof, held, case, lone, processes, seen>>
(* SIGTERM or SIGINT raises an exception where the owner is: one that ends *)
(* the body, cuts the wait for the driver short, is passed on to run(), or *)
(* ends the handler of run() itself.  One in main, after run(), only       *)
(* changes the exit code.  (wait_ready, of PluginDeployment, swallows it.) *)
Interrupt ==
  /\ signals < MaxSignals /\ signals' = signals + 1
  /\ \/ step = "smoking" /\ step' = "stopping" /\ EndsGroup /\ UNCHANGED exit
     \/ /\ \/ step \in (Body \ {"smoking"}) \cup {"stopping", "failing"} /\ step' = "failing" /\ UNCHANGED exit
           \/ step \in Reporting \cup {"returned"} /\ step' = "retracting" /\ UNCHANGED exit
           \/ step \in Handler \cup {"returned"} /\ step' = "ended" /\ exit' = "1"
        /\ UNCHANGED <<check, driver>>
  /\ UNCHANGED <<newFe, boundBe, planned, served, target, attested, result,
                 ledger, right, proof, held, case, lone, processes, seen>>

Stopped ==
  /\ Goes("stopping", "failing") /\ driver \in {"ok", "failed"}
  /\ UNCHANGED <<signals, owner, smoke, processes, seen>>
(* A mutant of KillGroup: the driver is told to end once more.             *)
TellAgain == step = "stopping" /\ driver = "trap" /\ UNCHANGED vars
(* It did not end within 10 seconds.                                       *)
KillGroup ==
  /\ Goes("stopping", "failing") /\ driver = "trap"
  /\ driver' = "failed" /\ check' = "none"
  /\ UNCHANGED <<signals, owner, ledger, right, proof, held, case, lone, processes, seen>>

(* The FE is stopped, the claim is released or kept (PluginDeployment).    *)
FailClosed ==
  /\ Goes("failing", "retracting")
  /\ UNCHANGED <<signals, owner, smoke, processes, seen>>
History(at) == IF at = "current" THEN "history" ELSE at
RetractAttested ==
  /\ Goes("retracting", "retracted") /\ attested' = History(attested)
  /\ UNCHANGED <<signals, exit, newFe, boundBe, planned, served, target, result, smoke, processes, seen>>
(* A mutant of RetractProof: the receipt of the smoke is left alone.       *)
KeepProof ==
  /\ Goes("retracted", "reporting")
  /\ UNCHANGED <<signals, owner, smoke, processes, seen>>
RetractProof ==
  /\ Goes("retracted", "reporting") /\ proof' = [proof EXCEPT !.at = History(@)]
  /\ UNCHANGED <<signals, owner, ledger, right, check, held, driver, case, lone, processes, seen>>
(* (WriteError is a mutant of WriteFailure.)                               *)
WriteError ==
  /\ Goes("reporting", "ended") /\ result' = "error" /\ exit' = "1"
  /\ UNCHANGED <<signals, newFe, boundBe, planned, served, target, attested, smoke, processes, seen>>
WriteFailure ==
  /\ Goes("reporting", "ended") /\ result' = "failed" /\ exit' = "1"
  /\ UNCHANGED <<signals, newFe, boundBe, planned, served, target, attested, smoke, processes, seen>>

(* SIGKILL, a lost host; the driver is in another session and may go on.   *)
Kill ==
  /\ step \notin {"ended", "killed"} /\ step' = "killed"
  /\ UNCHANGED <<signals, owner, smoke, processes, seen>>

-----------------------------------------------------------------------------
OwnerStep ==
  \/ PlanRoute \/ StartSubstrate \/ ResolveRoute \/ StartBackend \/ BindBackend
  \/ ConfirmFe \/ Answer \/ ConfirmBoth \/ Attest \/ StartDriver
  \/ DriverReturns \/ DriverReturnsFailed \/ Verify \/ ConfirmAfter \/ VerifyAgain
  \/ WriteResult \/ Return \/ Fail \/ Stopped \/ KillGroup
  \/ FailClosed \/ RetractAttested \/ RetractProof \/ WriteFailure

DriverStep ==
  \/ InitLedger \/ Observe \/ WriteRecord \/ Finish \/ WriteFinished \/ WriteProof
  \/ NextCase \/ DriverEnds \/ DriverFails \/ Abort

Next == OwnerStep \/ DriverStep \/ Interrupt \/ Kill \/ LoneShell \/ Around

Spec == Init /\ [][Next]_vars
(* Neither the driver nor docker_output, of which every look at the FE is  *)
(* made, has a time limit: no step of the body is sure to end, nor is the  *)
(* look of fail_closed, which there is unless the FE was attested.         *)
LooksWithoutLimit == step = "failing" /\ attested = "none"
LimitedStep == step \notin Body /\ ~LooksWithoutLimit /\ OwnerStep
FairSpec == Spec /\ WF_vars(LimitedStep)

-----------------------------------------------------------------------------
(* A smoke that exits with 0 is whole: the ledger is closed with every     *)
(* required case passed, expected failures among them not counted, the     *)
(* receipt is of that very ledger, and the cases were run against the      *)
(* substrate that was started.                                             *)
SuccessIsWhole ==
  exit = "0" =>
    /\ result = "passed" /\ attested = "current"
    /\ ledger.status = "passed" /\ \A i \in 1..N : ledger.rows[i] = "passed"
    /\ proof = [at |-> "current", of |-> ledger]
    /\ ledger.target = served

(* Everything it counts was answered by the one FE process and the one BE  *)
(* process that the attestation names, whenever either restarted.          *)
OneDeployment == exit = "0" => seen = {<<newFe, boundBe>>}

(* A case that is passed in the ledger was right: errors of the store are  *)
(* never taken for the absence of an object, nor counts for what they say. *)
EvidenceTrue == \A i \in 1..N : ledger.rows[i] = "passed" => i \in right

(* A run that is reported as failed leaves no current receipt behind; only *)
(* a check process that outlives its shell may still write one.            *)
FailureRetracts ==
  result = "failed" /\ ~lone => attested # "current" /\ proof.at # "current"

(* A ledger that says the smoke failed says so for ever.                   *)
FailedStays ==
  [][ledger.status \in {"failed", "expected_failure"} /\ ~lone =>
       ledger'.status \in {"failed", "expected_failure"}]_vars

(* An interrupted owner ends, however long its driver would take, unless   *)
(* its last look at the FE never gets an answer.                           *)
InterruptEnds ==
  <>[]LooksWithoutLimit \/ (signals > 0 ~> step \in {"ended", "killed"})
=============================================================================
