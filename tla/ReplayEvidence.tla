--------------------------- MODULE ReplayEvidence ---------------------------
(***************************************************************************)
(* How the campaigns judge what a test JVM left behind: the replay of the  *)
(* SQL corpus, the read-safety and the read-correctness tests, the replay  *)
(* by the oracle alone (the baseline), and the triage that joins failures  *)
(* of a retained replay to two baselines.  As in SmokeEvidence, "right" is *)
(* whether things are as a pass claims, and a judgement is "passed",       *)
(* "failed" or "raises".                                                   *)
(***************************************************************************)
EXTENDS Integers, FiniteSets

Verdict(ok) == IF ok THEN "passed" ELSE "failed"
Required(ok) == IF ok THEN "passed" ELSE "raises"

-----------------------------------------------------------------------------
(* What a JVM did: it wrote a report, after running, after skipping its    *)
(* tests, or not at all; in how many of the two selected files; how many   *)
(* mirrors and records passed and failed; whether it gave up on a file.    *)
(* Gradle's exit code is not 0 when a test failed, and for other reasons.  *)
Reports ==
  {w \in [report: {"ran", "skipped", "none"}, files: 0..2, mirrors: 0..1, failures: 0..1,
          blocked: BOOLEAN, exit: {0, 1, 137}] :
     /\ w.failures > 0 => w.exit # 0
     /\ w.report # "ran" => w.files = 0 /\ w.mirrors = 0}
Selected == 2
AllPassed(w) == w.report = "ran" /\ w.failures = 0 /\ w.exit = 0

(* A mutant of replay_measurements: mirrors that passed are not asked for. *)
MeasuredFiles(w) == w.report = "ran" /\ w.files = Selected
replay_measurements(w) == w.report = "ran" /\ w.files = Selected /\ w.mirrors > 0
CorpusJudged ==
  {[right |-> AllPassed(w) /\ w.files = Selected /\ w.mirrors > 0 /\ ~w.blocked,
    as |-> IF replay_measurements(w) THEN Verdict(w.exit = 0 /\ w.failures = 0 /\ ~w.blocked)
           ELSE "raises"] : w \in Reports}

(* The other tests print a marker for what they showed; here "mirrors".    *)
live_receipt(w) == w.exit = 0 /\ w.report = "ran" /\ w.failures = 0 /\ w.mirrors > 0
LiveJudged ==
  {[right |-> AllPassed(w) /\ w.mirrors > 0, as |-> Required(live_receipt(w))] : w \in Reports}

(* A baseline may fail, but its failures must be those that it counted and *)
(* listed, and it must have gone through every file that it was given.     *)
Baselines == [w: Reports, listed: 0..1, counted: 0..1]
baseline_measurements(b) == b.w.files = Selected /\ b.listed = b.counted
Explained(b) == b.w.exit \in {0, 1} /\ (b.w.failures > 0 <=> b.listed > 0)
BaselineJudged ==
  {[right |-> b.w.files = Selected /\ ~b.w.blocked /\ b.w.exit # 137
              /\ b.listed = b.counted /\ b.counted = b.w.failures,
    as |-> Required(b.w.report = "ran" /\ baseline_measurements(b) /\ ~b.w.blocked /\ Explained(b))]
     : b \in Baselines}

-----------------------------------------------------------------------------
(* TRIAGE                                                                  *)
(* What an axis observed at the line of a failure: nothing, or the kinds   *)
(* of all its outcomes there.                                              *)
Kinds == {"Pass", "Fail", "Skip"}
Observed == SUBSET Kinds
(* A mutant of state: one failure among the outcomes is enough.            *)
WorstState(kinds) ==
  IF kinds = {} THEN "unobserved"
  ELSE IF "Fail" \in kinds THEN "Fail" ELSE IF kinds = {"Pass"} THEN "Pass" ELSE "mixed"
state(kinds) ==
  IF kinds = {} THEN "unobserved"
  ELSE IF Cardinality(kinds) = 1 THEN CHOOSE k \in kinds : TRUE ELSE "mixed"

(* Failures of Doris itself are named for their stage; only those of the   *)
(* replay's own oracle are held against the baselines.                     *)
Stages == {"doris", "oracle"}
classify(stage, embedded, postgres) ==
  CASE stage = "doris" -> "doris"
    [] stage # "doris" /\ postgres = "Fail" /\ embedded = "Fail" -> "native-or-replay-baseline"
    [] stage # "doris" /\ postgres = "Fail" /\ embedded = "Pass" -> "metadata-backend-axis"
    [] stage # "doris" /\ postgres = "Pass" /\ embedded = "Pass" -> "live-only-or-nondeterministic"
    [] OTHER -> "unresolved-baseline-evidence"

(* What a class claims of the outcomes.                                    *)
Justified(class, stage, embedded, postgres) ==
  CASE class = "doris" -> stage = "doris"
    [] class = "native-or-replay-baseline" -> embedded = {"Fail"} /\ postgres = {"Fail"}
    [] class = "metadata-backend-axis" -> embedded = {"Pass"} /\ postgres = {"Fail"}
    [] class = "live-only-or-nondeterministic" -> embedded = {"Pass"} /\ postgres = {"Pass"}
    [] OTHER -> TRUE

(* load_baseline: a finished baseline, of the retained commit and of the   *)
(* axis it is used for, over the same bytes; then both of one runtime.     *)
Axis == [complete: BOOLEAN, same: BOOLEAN]
load_baseline(a) == a.complete /\ a.same
TriageJudged ==
  {[right |-> (\A a \in w.axes : a.complete /\ a.same)
              /\ Justified(classify(w.stage, state(w.embedded), state(w.postgres)),
                           w.stage, w.embedded, w.postgres),
    as |-> Required(\A a \in w.axes : load_baseline(a))]
     : w \in [stage: Stages, embedded: Observed, postgres: Observed, axes: SUBSET Axis \ {{}}]}
=============================================================================
