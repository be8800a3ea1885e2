------------------------- MODULE AcceptanceCampaign -------------------------
(***************************************************************************)
(* The acceptance campaigns (plugin_acceptance.py and the five that build  *)
(* on it), the oracle-only baseline and the triage.                        *)
(*                                                                         *)
(* A campaign builds a sandbox with names of its own, runs deployments in  *)
(* it as child processes that reach docker only through a guard, judges    *)
(* what they and its test JVMs leave behind, and, however that went, stops *)
(* what it started, removes the sandbox, compares the stacks of others     *)
(* with what they were, and writes its verdict.                            *)
(*                                                                         *)
(* The campaign may be interrupted at any step, more than once, or killed; *)
(* a deployment it no longer waits for may go on by itself.  What happens  *)
(* inside a deployment is in PluginDeployment and SmokeRun; here it is a   *)
(* process that keeps DeploymentContract.                                  *)
(***************************************************************************)
EXTENDS ReplayEvidence, Sequences

CONSTANTS
  Campaigns,      \* the campaigns that are run
  MaxInterrupts,  \* bound on the interrupts that a campaign gets
  MaxChanges      \* bound on the changes to the stacks of others

ASSUME CampaignAssumption ==
  /\ Campaigns \subseteq {"plugin", "network", "smoke", "read_correctness", "corpus", "read_safety",
                       "baseline", "triage"}
  /\ MaxInterrupts \in Nat /\ MaxChanges \in Nat

(* What each does, one item after the other.  Deployments: of a bundle, of *)
(* one with a stale identity reported, the full smoke, one with a row      *)
(* corrupted.  "local" is what the campaign itself then seeds and compares.*)
Plan(kind) ==
  CASE kind = "plugin" -> <<"up", "local", "up", "local", "stale", "up", "local">>
    [] kind = "network" -> <<"up", "local", "tunnel">>
    [] kind = "smoke" -> <<"smoke", "corrupt">>
    [] kind = "read_correctness" -> <<"smoke", "local", "tests">>
    [] kind = "corpus" -> <<"up", "corpus">>
    [] kind = "read_safety" -> <<"up", "safety">>
    [] OTHER -> <<kind>>

Deployments == {"up", "stale", "smoke", "corrupt"}
Guarded == {"up", "stale"}      \* waited for, and ended as a process group
Injecting == {"stale", "corrupt"}
Scoped == {"corpus", "safety", "baseline"}   \* a JVM in a systemd scope
Judged == [local |-> {[right |-> ok, as |-> Required(ok)] : ok \in BOOLEAN},
           tunnel |-> {[right |-> ok, as |-> Required(ok)] : ok \in BOOLEAN},
           tests |-> LiveJudged, safety |-> LiveJudged, corpus |-> CorpusJudged,
           baseline |-> BaselineJudged, triage |-> TriageJudged]

VARIABLES
  kind, at,    \* the campaign, and the item of its plan that it is at
  pc,          \* where in it
  interrupts,  \* how many it got
  status,      \* result["status"], in memory
  written,     \* the status in acceptance.json, campaign.json or summary.json
  right,       \* whether all it accepted was as a pass claims
  owned,       \* the compose projects of the sandbox that have resources
  started, cleaned, scopeStarted,  \* the flags of these names
  before,      \* protected_before: the stacks of others, by version
  stacks,      \* those stacks as they are
  child,       \* the deployment that was started last
  claim,       \* the claim container of the sandbox's volume
  log,         \* what the guard recorded in this deployment
  touched,     \* whether a deployment reached beyond what it may
  abandoned,   \* whether the campaign left a deployment running
  scope,       \* the systemd scope
  tunnel       \* whether the private sshd runs

flags == <<started, cleaned, scopeStarted>>
campaign == <<kind, at, pc, interrupts, status, written, right, before, flags>>
deployment == <<child, claim, log, touched>>
vars == <<campaign, deployment, owned, stacks, abandoned, scope, tunnel>>

Projects == {"doris", "substrate"}
Live == child \in {"starting", "working"}
Item == Plan(kind)[at]
Sandboxed == kind \notin {"baseline", "triage"}

TypeOK ==
  /\ kind \in Campaigns /\ at \in 1..Len(Plan(kind)) + 1
  /\ pc \in {"prepare", "next", "launched", "running", "ending", "closing", "stopping", "claims",
             "doris", "substrate", "verify", "compare", "writing", "ended", "killed"}
  /\ interrupts \in 0..MaxInterrupts
  /\ status \in {"running", "passed", "failed", "interrupted"}
  /\ written \in {"none", "running", "passed", "failed", "interrupted"}
  /\ {right, started, cleaned, scopeStarted, touched, abandoned, tunnel} \subseteq BOOLEAN
  /\ owned \subseteq Projects
  /\ before \in -1..MaxChanges /\ stacks \in 0..MaxChanges
  /\ child \in {"none", "starting", "working", "succeeded", "refused", "failed"}
  /\ claim \in {"none", "held", "retained"}
  /\ log \subseteq {"disallowed", "allocation", "injected"}
  /\ scope \in {"none", "running", "gone"}

Init ==
  /\ kind \in Campaigns /\ at = 1 /\ pc = "prepare" /\ interrupts = 0
  /\ status = "running" /\ written = "none" /\ right = TRUE
  /\ owned = {} /\ started = FALSE /\ cleaned = FALSE /\ scopeStarted = FALSE
  /\ before = -1 /\ stacks = 0
  /\ child = "none" /\ claim = "none" /\ log = {} /\ touched = FALSE /\ abandoned = FALSE
  /\ scope = "none" /\ tunnel = FALSE

-----------------------------------------------------------------------------
(* THE GUARD OF DOCKER                                                     *)
(* A command of a deployment: its verb; whether what it names is of the    *)
(* sandbox; and what the guard's patterns make of its SQL: whether they    *)
(* see it change data, and then whether they take it for a statement of    *)
(* the smoke.  They are no parser: an UPDATE, or SQL on the standard       *)
(* input, is not data to them, and a DELETE has no name they look at; such *)
(* a statement is confined by its container alone, which is the sandbox's. *)
Commands == [verb: {"run", "bootstrap", "up", "down", "control", "exec", "copy", "create", "look", "other"},
             mine: BOOLEAN, data: BOOLEAN, fixture: BOOLEAN]
allocation(c) == c.verb \in {"run", "bootstrap"} \/ (c.verb = "exec" /\ c.data)
(* A mutant of allowed: a full smoke may run anything.                     *)
AllowedToSmokes(c, full) == full \/ (~allocation(c) /\ (c.mine \/ c.verb = "look"))
allowed(c, full) ==
  /\ allocation(c) => full
  /\ CASE c.verb \in {"run", "exec"} -> c.mine /\ (allocation(c) => c.fixture)
       [] c.verb \in {"bootstrap", "up", "control", "copy", "create"} -> c.mine
       [] c.verb = "look" -> TRUE
       [] OTHER -> FALSE

-----------------------------------------------------------------------------
(* A DEPLOYMENT                                                            *)
(* Its process and its claim keep a contract that PluginDeployment proves  *)
(* of every run.                                                           *)
Contract == INSTANCE DeploymentContract

ChildClaims ==
  /\ Contract!Obtain \/ Contract!EndUnclaimed
  /\ UNCHANGED <<campaign, log, touched, owned, stacks, abandoned, scope, tunnel>>
ChildCreates ==
  /\ child = "working" /\ \E p \in Projects : owned' = owned \cup {p}
  /\ UNCHANGED <<campaign, deployment, stacks, abandoned, scope, tunnel>>
(* What it asks of docker is recorded, and done if the guard allows it.    *)
ChildCommand ==
  /\ child = "working" /\ at <= Len(Plan(kind)) /\ Item \in Deployments
  /\ \E c \in Commands :
       LET ok == allowed(c, Item \notin Guarded)
           allocates == allocation(c) /\ c.verb # "bootstrap" /\ ~c.fixture
           beyond == ok /\ c.verb # "look" /\ (~c.mine \/ allocates)
       IN /\ log' = log \cup (IF ok THEN {} ELSE {"disallowed"})
                        \cup (IF allocation(c) THEN {"allocation"} ELSE {})
          /\ touched' = (touched \/ beyond)
  /\ UNCHANGED <<campaign, child, claim, owned, stacks, abandoned, scope, tunnel>>
(* The guard gives a row that is as it should be another value.            *)
ChildSeesInjection ==
  /\ child = "working" /\ at <= Len(Plan(kind)) /\ Item \in Injecting
  /\ log' = log \cup {"injected"}
  /\ UNCHANGED <<campaign, child, claim, touched, owned, stacks, abandoned, scope, tunnel>>
ChildEnds ==
  /\ Contract!Succeed \/ Contract!FailWorking
  /\ child' = "succeeded" => owned = Projects /\ "injected" \notin log
  /\ child' = "refused" => "injected" \in log
  /\ UNCHANGED <<campaign, log, touched, owned, stacks, abandoned, scope, tunnel>>

(* Others change their stacks.                                             *)
StackChanged ==
  /\ stacks < MaxChanges /\ stacks' = stacks + 1
  /\ UNCHANGED <<campaign, deployment, owned, abandoned, scope, tunnel>>

-----------------------------------------------------------------------------
(* THE CAMPAIGN                                                            *)
Goes(from, to) == pc = from /\ pc' = to
Raise == pc' = "stopping" /\ status' = "failed"

(* The stacks of others are noted before the sandbox is laid out.          *)
Prepare ==
  /\ \/ /\ Goes("prepare", "next") /\ UNCHANGED status
        /\ before' = IF Sandboxed THEN stacks ELSE -1
     \/ pc = "prepare" /\ Raise /\ before' \in IF Sandboxed THEN {-1, stacks} ELSE {-1}
  /\ UNCHANGED <<kind, at, interrupts, written, right, flags, deployment, owned, stacks,
                 abandoned, scope, tunnel>>

(* Between two items, and before it starts one, the campaign may fail.     *)
Fail ==
  /\ pc = "next" /\ Raise
  /\ UNCHANGED <<kind, at, interrupts, written, right, before, flags, deployment, owned, stacks,
                 abandoned, scope, tunnel>>

(* phase and full_phase: a deployment is started,                          *)
StartDeployment ==
  /\ Goes("next", "running") /\ at <= Len(Plan(kind)) /\ Item \in Deployments
  /\ started' = TRUE /\ child' = "starting" /\ log' = {}
  /\ UNCHANGED <<kind, at, interrupts, status, written, right, before, cleaned, scopeStarted,
                 claim, touched, owned, stacks, abandoned, scope, tunnel>>
(* and judged by its exit code, its own report and the record of the guard.*)
Expected == IF Item \in Injecting THEN "refused" ELSE "succeeded"
Kept == "disallowed" \notin log /\ (Item \in Guarded => "allocation" \notin log)
(* A mutant of JudgeDeployment: how it ended is not compared.              *)
AcceptDeployment ==
  /\ pc = "running" /\ Item \in Deployments /\ child # "none" /\ ~Live
  /\ IF Kept
     THEN /\ pc' = "next" /\ at' = at + 1 /\ written' = status /\ UNCHANGED status
          /\ right' = (right /\ child = Expected)
     ELSE Raise /\ UNCHANGED <<at, written, right>>
  /\ UNCHANGED <<kind, interrupts, before, flags, deployment, owned, stacks, abandoned, scope, tunnel>>
JudgeDeployment ==
  /\ pc = "running" /\ Item \in Deployments /\ child # "none" /\ ~Live
  /\ IF Kept /\ child = Expected
     THEN /\ pc' = "next" /\ at' = at + 1 /\ written' = status /\ UNCHANGED status
          /\ right' = (right /\ child = Expected)
     ELSE Raise /\ UNCHANGED <<at, written, right>>
  /\ UNCHANGED <<kind, interrupts, before, flags, deployment, owned, stacks, abandoned, scope, tunnel>>

(* The other items are judged by what they show: accepted, accepted as a   *)
(* failure of the replay, or an exception.                                 *)
Judge(o, next) ==
  IF o.as = "raises" THEN Raise /\ UNCHANGED <<at, right>>
  ELSE /\ pc' = next /\ at' = at + 1 /\ right' = (right /\ (o.as = "passed" => o.right))
       /\ status' = IF o.as = "failed" THEN "failed" ELSE status
Check ==
  /\ pc = "next" /\ at <= Len(Plan(kind)) /\ Item \in {"local", "tests", "triage"}
  /\ \E o \in Judged[Item] : Judge(o, "next")
  /\ UNCHANGED <<kind, interrupts, written, before, flags, deployment, owned, stacks, abandoned,
                 scope, tunnel>>

(* ssh_forward: the sshd runs while it is used, and is ended in any case.  *)
OpenTunnel ==
  /\ Goes("next", "running") /\ at <= Len(Plan(kind)) /\ Item = "tunnel" /\ tunnel' = TRUE
  /\ UNCHANGED <<kind, at, interrupts, status, written, right, before, flags, deployment, owned,
                 stacks, abandoned, scope>>
UseTunnel ==
  /\ pc = "running" /\ Item = "tunnel" /\ pc' = "closing"
  /\ \E o \in Judged["tunnel"] :
       IF o.as = "raises" THEN status' = "failed" /\ UNCHANGED <<at, right>>
       ELSE at' = at + 1 /\ right' = (right /\ o.right) /\ UNCHANGED status
  /\ UNCHANGED <<kind, interrupts, written, before, flags, deployment, owned, stacks, abandoned,
                 scope, tunnel>>
CloseTunnel ==
  /\ pc = "closing" /\ tunnel' = FALSE
  /\ pc' = IF status = "running" THEN "next" ELSE "stopping"
  /\ UNCHANGED <<kind, at, interrupts, status, written, right, before, flags, deployment, owned,
                 stacks, abandoned, scope>>

(* replay, and run of the baseline: the scope is started; that it was is   *)
(* noted a step later, the baseline knows it by its name.                  *)
LaunchScope ==
  /\ Goes("next", "launched") /\ at <= Len(Plan(kind)) /\ Item \in Scoped
  /\ scope' = "running" /\ written' = status
  /\ UNCHANGED <<kind, at, interrupts, status, right, before, flags, deployment, owned, stacks,
                 abandoned, tunnel>>
NoteScope ==
  /\ Goes("launched", "running") /\ scopeStarted' = TRUE
  /\ UNCHANGED <<kind, at, interrupts, status, written, right, before, started, cleaned, deployment,
                 owned, stacks, abandoned, scope, tunnel>>
(* The JVM ends; others of its scope may not.                              *)
JudgeReplay ==
  /\ pc = "running" /\ Item \in Scoped /\ scope' \in {"running", "gone"}
  /\ \E o \in Judged[Item] : Judge(o, "next")
  /\ UNCHANGED <<kind, interrupts, written, before, flags, deployment, owned, stacks, abandoned, tunnel>>

(* All is done: the pass is noted, unless a replay has failed.             *)
Conclude ==
  /\ Goes("next", "stopping") /\ at > Len(Plan(kind))
  /\ status' = IF status = "running" THEN "passed" ELSE status
  /\ UNCHANGED <<kind, at, interrupts, written, right, before, flags, deployment, owned, stacks,
                 abandoned, scope, tunnel>>

-----------------------------------------------------------------------------
(* INTERRUPTS                                                              *)
(* An exception: of a signal, or of the time limit of a wait.              *)
Status(signal) == IF signal /\ kind \in {"corpus", "read_safety"} THEN "interrupted" ELSE "failed"
(* It cuts a wait short.  A guarded deployment is told to end and waited   *)
(* for once more, unless the signal comes between its start and the wait;  *)
(* of a full smoke only the shell is killed.  A scope that was noted is    *)
(* stopped, here and again at the end.                                     *)
CutShort(signal) ==
  /\ \/ pc = "running" /\ Item \in Guarded /\ Live /\ pc' = "ending"
     \/ pc = "running" /\ Item = "tunnel" /\ pc' = "closing"
     \/ pc = "running" /\ (Item \in Guarded => signal) /\ Item # "tunnel" /\ pc' = "stopping"
     \/ pc \in {"prepare", "next", "launched"} /\ pc' = "stopping"
  /\ status' = Status(signal)
  /\ abandoned' = (abandoned \/ (Live /\ pc' = "stopping"))
  /\ scope' \in (IF pc = "running" /\ scope = "running" THEN {"running", "gone"} ELSE {scope})
  /\ UNCHANGED <<written, tunnel>>
(* A second one cuts the cleaning up short, too, or comes before it.       *)
CutShortAgain ==
  /\ \/ pc = "ending" /\ pc' = "stopping" /\ abandoned' = (abandoned \/ Live) /\ UNCHANGED status
     \/ pc = "closing" /\ pc' = "stopping" /\ status' = "failed" /\ UNCHANGED abandoned
     \/ pc = "stopping" /\ pc' = pc /\ status' = Status(TRUE) /\ UNCHANGED abandoned
     \/ /\ pc \in {"stopping", "claims", "doris", "substrate", "verify", "compare"}
        /\ pc' = (IF kind = "baseline" THEN "ended" ELSE "writing")
        /\ status' = "failed" /\ UNCHANGED abandoned
     \/ pc = "writing" /\ pc' = "ended" /\ UNCHANGED <<status, abandoned>>
  /\ UNCHANGED <<written, scope, tunnel>>
Interrupt ==
  /\ interrupts < MaxInterrupts /\ interrupts' = interrupts + 1
  /\ CutShort(TRUE) \/ CutShortAgain
  /\ UNCHANGED <<kind, at, right, before, flags, deployment, owned, stacks>>
Timeout ==
  /\ pc = "running" /\ CutShort(FALSE)
  /\ UNCHANGED <<kind, at, interrupts, right, before, flags, deployment, owned, stacks>>

(* The deployment that was told to end does, by itself or with its group.  *)
ChildEnded ==
  /\ Goes("ending", "stopping") /\ ~Live
  /\ UNCHANGED <<kind, at, interrupts, status, written, right, before, flags, deployment, owned, stacks,
                 abandoned, scope, tunnel>>
(* A mutant of KillGroup: it is waited for as long as it takes.            *)
WaitOn == pc = "ending" /\ Live /\ UNCHANGED vars
KillGroup ==
  /\ Goes("ending", "stopping") /\ Live
  /\ child' = "failed" /\ claim' = IF claim = "held" THEN "retained" ELSE claim
  /\ UNCHANGED <<kind, at, interrupts, status, written, right, before, flags, log, touched, owned, stacks,
                 abandoned, scope, tunnel>>

(* SIGKILL; and SIGTERM, where it has no handler.                          *)
Kill ==
  /\ pc \notin {"ended", "killed"} /\ pc' = "killed" /\ abandoned' = (abandoned \/ Live)
  /\ UNCHANGED <<kind, at, interrupts, status, written, right, before, flags, deployment, owned, stacks,
                 scope, tunnel>>

-----------------------------------------------------------------------------
(* AT THE END                                                              *)
(* A step of it that fails leaves the rest undone, but for the verdict.    *)
GiveUp == pc' = "writing" /\ status' = "failed"
EndStep(from, to, ok) ==
  /\ pc = from
  /\ IF ok THEN pc' = to /\ UNCHANGED status ELSE GiveUp
  /\ UNCHANGED <<kind, at, interrupts, written, right, before, started, scopeStarted, deployment, stacks,
                 abandoned, tunnel>>

(* stop_scope does nothing unless it was noted that the scope was started; *)
(* a baseline that cannot stop it writes no verdict at all.                *)
Known == scopeStarted \/ kind = "baseline"
StopScope ==
  /\ pc = "stopping"
  /\ \/ /\ scope' = (IF scope = "running" /\ Known THEN "gone" ELSE scope)
        /\ pc' = "claims" /\ UNCHANGED status
     \/ /\ scope = "running" /\ Known /\ UNCHANGED scope
        /\ pc' = (IF kind = "baseline" THEN "ended" ELSE "writing") /\ status' = "failed"
  /\ UNCHANGED <<kind, at, interrupts, written, right, before, flags, deployment, owned, stacks,
                 abandoned, tunnel>>
(* cleanup.  (CleanUp is a mutant of CheckClaims: it does not look.)       *)
CleanUp ==
  /\ EndStep("claims", IF started THEN "doris" ELSE "compare", TRUE)
  /\ UNCHANGED <<owned, cleaned, scope>>
CheckClaims ==
  /\ EndStep("claims", IF started THEN "doris" ELSE "compare", started => claim = "none")
  /\ UNCHANGED <<owned, cleaned, scope>>
(* compose down may fail, and may leave things behind that are in use.     *)
Down(project, next) ==
  /\ \E ok \in BOOLEAN : EndStep(project, next, ok)
  /\ owned' \in {owned, owned \ {project}}
  /\ UNCHANGED <<cleaned, scope>>
DownDoris == Down("doris", "substrate")
DownSubstrate == Down("substrate", "verify")
(* A mutant of VerifyGone: what compose down says is believed.             *)
BelieveGone ==
  /\ EndStep("verify", "compare", TRUE)
  /\ cleaned' = TRUE
  /\ UNCHANGED <<owned, scope>>
VerifyGone ==
  /\ EndStep("verify", "compare", owned = {})
  /\ cleaned' = (owned = {})
  /\ UNCHANGED <<owned, scope>>
Compare ==
  /\ EndStep("compare", "writing", before = -1 \/ before = stacks)
  /\ UNCHANGED <<owned, cleaned, scope>>
WriteVerdict ==
  /\ Goes("writing", "ended") /\ written' = IF kind = "triage" /\ status = "failed" THEN "none" ELSE status
  /\ UNCHANGED <<kind, at, interrupts, status, right, before, flags, deployment, owned, stacks, abandoned,
                 scope, tunnel>>

-----------------------------------------------------------------------------
CampaignStep ==
  \/ Prepare \/ Fail \/ StartDeployment \/ JudgeDeployment \/ Check \/ OpenTunnel \/ UseTunnel \/ CloseTunnel
  \/ LaunchScope \/ NoteScope \/ JudgeReplay \/ Conclude \/ Timeout \/ ChildEnded \/ KillGroup
  \/ StopScope \/ CheckClaims \/ DownDoris \/ DownSubstrate \/ VerifyGone \/ Compare \/ WriteVerdict
ChildStep == ChildClaims \/ ChildCreates \/ ChildCommand \/ ChildSeesInjection \/ ChildEnds

Next == CampaignStep \/ ChildStep \/ Interrupt \/ Kill \/ StackChanged

Spec == Init /\ [][Next]_vars
(* The waits for a deployment, a JVM and what docker removes have time     *)
(* limits, and the wait for a killed group ends.  The local looks have     *)
(* none: git, systemctl show and docker logs, which are before and between *)
(* the items, at the stopping of the scope and before the first removal.   *)
LooksWithoutLimit == pc \in {"prepare", "next", "doris"} \/ (pc = "stopping" /\ Known)
LimitedStep == ~LooksWithoutLimit /\ CampaignStep
FairSpec == Spec /\ WF_vars(LimitedStep)

-----------------------------------------------------------------------------
(* A campaign whose written verdict is a pass went through its whole plan, *)
(* every deployment ended as it had to, every piece of evidence was what   *)
(* the pass claims, none of its deployments reached beyond the sandbox,    *)
(* and it left nothing of its own behind: no container, claim, deployment, *)
(* scope or sshd.                                                          *)
PassedIsWhole ==
  written = "passed" =>
    /\ at = Len(Plan(kind)) + 1 /\ right /\ ~touched
    /\ owned = {} /\ claim = "none" /\ ~Live /\ scope # "running" /\ ~tunnel

(* owned_resources_cleaned is the truth, unless a deployment was left to   *)
(* itself, which may create the sandbox again.                             *)
CleanedIsGone == cleaned /\ ~abandoned => owned = {}

(* Nothing of a sandbox is removed while its volume is claimed: what a     *)
(* failed deployment left for recovery is preserved.                       *)
NoTeardownUnderClaim ==
  [][owned' \subseteq owned /\ owned' # owned /\ ~abandoned => claim = "none"]_vars

(* A campaign ends, whatever its deployments and its JVMs do, unless a     *)
(* look that has no time limit never gets an answer.                       *)
CampaignEnds == <>[]LooksWithoutLimit \/ <>(pc \in {"ended", "killed"})
=============================================================================
