---------------------- MODULE AcceptanceCampaignProofs ----------------------
(***************************************************************************)
(* That a campaign whose verdict is a pass is whole and left nothing, that *)
(* what it says it cleaned is gone, and that it removes nothing under a    *)
(* claim: for any set of campaigns and any number of interrupts.           *)
(***************************************************************************)
EXTENDS AcceptanceCampaign, FiniteSetTheorems, TLAPS

-----------------------------------------------------------------------------
(* THE INVARIANT                                                           *)
AtEnd == {"stopping", "claims", "doris", "substrate", "verify", "compare", "writing", "ended", "killed"}
Lost == status \in {"failed", "interrupted"} \/ pc = "killed"

(* What is launched or running is an item of the plan.                     *)
WithinPlan == pc \in {"launched", "running"} => at <= Len(Plan(kind))
(* What was accepted was right, and done within the sandbox.               *)
AllRight == right /\ ~touched
(* A pass is noted at the end of the plan, and written once, at the end.   *)
PassNoted == status = "passed" => at = Len(Plan(kind)) + 1 /\ pc \in AtEnd
PassWritten == written = "passed" => status = "passed" /\ pc = "ended"
(* What the campaign started runs while it is waited for, or the campaign  *)
(* is known not to pass.                                                   *)
LiveWaited == Live => \/ abandoned
                      \/ pc = "running" /\ Item \in Deployments
                      \/ pc = "ending"
AbandonedFails ==
  /\ abandoned => pc \in AtEnd /\ Lost
  /\ pc = "ending" => status \in {"failed", "interrupted"}
TunnelUsed == tunnel => pc = "closing" \/ (pc = "running" /\ Item = "tunnel") \/ Lost
ScopeNoted ==
  /\ pc = "running" /\ Item \in Scoped => scopeStarted
  /\ scope = "running" => Known \/ pc = "launched" \/ Lost
ScopeStopped == scope = "running" /\ status = "passed" => pc \in {"stopping", "killed"}
(* What a campaign has is of deployments that it started.                  *)
Unstarted ==
  ~started => /\ owned = {} /\ claim = "none" /\ child = "none"
              /\ pc \notin {"doris", "substrate", "verify"}
(* It goes past "claims" when there is none, and past "verify" when there  *)
(* is nothing.                                                             *)
Unclaimed ==
  /\ pc \in {"doris", "substrate", "verify", "compare"} /\ ~abandoned => claim = "none"
  /\ status = "passed" /\ pc \in {"doris", "substrate", "verify", "compare", "writing", "ended"}
       => claim = "none"
Gone ==
  /\ cleaned => pc \in {"compare", "writing", "ended", "killed"}
  /\ cleaned /\ ~abandoned => owned = {}
  /\ status = "passed" /\ pc \in {"compare", "writing", "ended"} => owned = {}

Controlled == WithinPlan /\ AllRight /\ PassNoted /\ PassWritten
Watched == LiveWaited /\ AbandonedFails /\ TunnelUsed /\ ScopeNoted /\ ScopeStopped
Held == Unstarted /\ Unclaimed /\ Gone
IInv == TypeOK /\ Controlled /\ Watched /\ Held

-----------------------------------------------------------------------------
(* THE EVIDENCE                                                            *)
(* What is claimed of the outcomes at a line is what all of them were.     *)
LEMMA StateIsOfAll ==
  ASSUME NEW ks \in Observed, NEW k \in {"Pass", "Fail"}, state(ks) = k
  PROVE  ks = {k}
<1>1. ks # {} BY DEF state
<1>2. CASE Cardinality(ks) = 1
  <2>1. IsFiniteSet({"Pass", "Fail", "Skip"})
    <3>1. IsFiniteSet({"Pass"}) BY FS_Singleton
    <3>2. IsFiniteSet({"Pass"} \cup {"Fail"}) BY <3>1, FS_AddElement
    <3>3. IsFiniteSet(({"Pass"} \cup {"Fail"}) \cup {"Skip"}) BY <3>2, FS_AddElement
    <3>4. ({"Pass"} \cup {"Fail"}) \cup {"Skip"} = {"Pass", "Fail", "Skip"} OBVIOUS
    <3> QED BY <3>3, <3>4
  <2>2. IsFiniteSet(ks) BY <2>1, FS_Subset DEF Observed, Kinds
  <2>3. PICK x : ks = {x} BY <1>2, <2>2, FS_Singleton
  <2> QED BY <1>1, <1>2, <2>3 DEF state
<1> QED BY <1>1, <1>2 DEF state

LEMMA TriageIsRight ==
  ASSUME NEW o \in TriageJudged PROVE o.as \in {"passed", "raises"} /\ (o.as = "passed" => o.right)
<1>1. PICK w \in [stage: Stages, embedded: Observed, postgres: Observed, axes: SUBSET Axis \ {{}}] :
        o = [right |-> (\A a \in w.axes : a.complete /\ a.same)
                        /\ Justified(classify(w.stage, state(w.embedded), state(w.postgres)),
                                     w.stage, w.embedded, w.postgres),
             as |-> Required(\A a \in w.axes : load_baseline(a))]
  BY Zenon DEF TriageJudged
<1> DEFINE e == state(w.embedded)
           p == state(w.postgres)
<1>2. w.stage \in Stages /\ w.embedded \in Observed /\ w.postgres \in Observed OBVIOUS
<1>3. Justified(classify(w.stage, e, p), w.stage, w.embedded, w.postgres)
  <2> HIDE DEF e, p
  <2>1. \A k \in {"Pass", "Fail"} : (e = k => w.embedded = {k}) /\ (p = k => w.postgres = {k})
    BY <1>2, StateIsOfAll DEF e, p
  <2> QED BY <1>2, <2>1 DEF Justified, classify, Stages
<1>4. o.as \in {"passed", "raises"} BY <1>1 DEF Required
<1>5. o.as = "passed" => \A a \in w.axes : a.complete /\ a.same
  BY <1>1 DEF Required, load_baseline
<1>6. o.right <=> (\A a \in w.axes : a.complete /\ a.same)
                   /\ Justified(classify(w.stage, e, p), w.stage, w.embedded, w.postgres)
  BY <1>1, Zenon
<1> QED BY <1>3, <1>4, <1>5, <1>6, Zenon

LEMMA CorpusIsRight ==
  ASSUME NEW o \in CorpusJudged
  PROVE  o.as \in {"passed", "failed", "raises"} /\ (o.as = "passed" => o.right)
<1>1. PICK w \in Reports :
        o = [right |-> AllPassed(w) /\ w.files = Selected /\ w.mirrors > 0 /\ ~w.blocked,
             as |-> IF replay_measurements(w) THEN Verdict(w.exit = 0 /\ w.failures = 0 /\ ~w.blocked)
                    ELSE "raises"]
  BY Zenon DEF CorpusJudged
<1> QED BY <1>1 DEF AllPassed, replay_measurements, Verdict

LEMMA LiveIsRight ==
  ASSUME NEW o \in LiveJudged
  PROVE  o.as \in {"passed", "raises"} /\ (o.as = "passed" => o.right)
<1>1. PICK w \in Reports :
        o = [right |-> AllPassed(w) /\ w.mirrors > 0, as |-> Required(live_receipt(w))]
  BY Zenon DEF LiveJudged
<1> QED BY <1>1 DEF AllPassed, live_receipt, Required

LEMMA BaselineIsRight ==
  ASSUME NEW o \in BaselineJudged
  PROVE  o.as \in {"passed", "raises"} /\ (o.as = "passed" => o.right)
<1>1. PICK b \in Baselines :
        o = [right |-> b.w.files = Selected /\ ~b.w.blocked /\ b.w.exit # 137
                        /\ b.listed = b.counted /\ b.counted = b.w.failures,
             as |-> Required(b.w.report = "ran" /\ baseline_measurements(b) /\ ~b.w.blocked /\ Explained(b))]
  BY Zenon DEF BaselineJudged
<1>2. b.w \in Reports /\ b.listed \in 0..1 /\ b.counted \in 0..1 BY DEF Baselines
<1>3. b.w.failures \in 0..1 BY <1>2 DEF Reports
<1>4. b.w.exit \in {0, 1} => b.w.exit # 137 OBVIOUS
<1>5. (b.w.failures > 0 <=> b.listed > 0) => b.listed = b.w.failures
  BY <1>2, <1>3
<1>6. o.as \in {"passed", "raises"} BY <1>1 DEF Required
<1>7. o.as = "passed" => baseline_measurements(b) /\ ~b.w.blocked /\ Explained(b)
  BY <1>1 DEF Required
<1>8. o.as = "passed" => /\ b.w.files = Selected /\ ~b.w.blocked /\ b.w.exit # 137
                         /\ b.listed = b.counted /\ b.counted = b.w.failures
  BY <1>4, <1>5, <1>7 DEF baseline_measurements, Explained
<1> QED BY <1>1, <1>6, <1>8

(* A piece of evidence that is accepted is what a pass claims of it: the   *)
(* judgements of corpus_acceptance.py, read_safety_acceptance.py,          *)
(* read_correctness_acceptance.py, corpus_baseline.py and the triage.      *)
THEOREM AcceptedIsRight ==
  \A i \in {"local", "tunnel", "tests", "safety", "corpus", "baseline", "triage"} : \A o \in Judged[i] :
    o.as = "passed" => o.right
<1> SUFFICES ASSUME NEW i \in {"local", "tunnel", "tests", "safety", "corpus", "baseline", "triage"},
                    NEW o \in Judged[i], o.as = "passed"
             PROVE o.right
  OBVIOUS
<1>1. CASE i \in {"local", "tunnel"} BY <1>1 DEF Judged, Required
<1>2. CASE i \in {"tests", "safety"} 
  <2>1. Judged["tests"] = LiveJudged /\ Judged["safety"] = LiveJudged BY Zenon DEF Judged
  <2> QED BY <1>2, <2>1, LiveIsRight
<1>3. CASE i = "corpus" BY <1>3, CorpusIsRight, Zenon DEF Judged
<1>4. CASE i = "baseline" BY <1>4, BaselineIsRight, Zenon DEF Judged
<1>5. CASE i = "triage" BY <1>5, TriageIsRight, Zenon DEF Judged
<1> QED BY <1>1, <1>2, <1>3, <1>4, <1>5

-----------------------------------------------------------------------------
(* THE STEPS                                                               *)
LEMMA PlanLength == \A k : Len(Plan(k)) \in Nat
BY DEF Plan

LEMMA RightIsBoolean ==
  ASSUME TypeOK, NEW o, NEW next, Judge(o, next) PROVE right' \in BOOLEAN
<1>1. right \in BOOLEAN BY DEF TypeOK
<1>2. CASE o.as = "raises" BY <1>1, <1>2, Zenon DEF Judge
<1>3. CASE o.as # "raises" BY <1>3, Zenon DEF Judge
<1> QED BY <1>2, <1>3

(* Every step keeps the types,                                             *)
LEMMA TypeStep == IInv /\ [Next]_vars => TypeOK'
<1> SUFFICES ASSUME IInv, [Next]_vars PROVE TypeOK'
  OBVIOUS
<1> USE PlanLength DEF IInv, TypeOK, WithinPlan, Controlled, Projects
<1>1. CASE Prepare
  BY <1>1, CampaignAssumption DEF Prepare, vars, campaign, deployment, flags, Goes, Raise
<1>2. CASE Fail
  BY <1>2 DEF Fail, vars, campaign, deployment, flags, Raise
<1>3. CASE StartDeployment
  BY <1>3 DEF StartDeployment, vars, campaign, deployment, flags, Goes
<1>4. CASE JudgeDeployment
  BY <1>4 DEF JudgeDeployment, vars, campaign, deployment, flags, Raise, Live
<1>5. CASE Check
  <2>1. PICK o : Judge(o, "next") BY <1>5 DEF Check
  <2>2. at \in 1..Len(Plan(kind)) BY <1>5 DEF Check
  <2>3. right' \in BOOLEAN BY <2>1, RightIsBoolean
  <2> QED BY <1>5, <2>1, <2>2, <2>3 DEF Check, Judge, Raise, vars, campaign, deployment, flags
<1>6. CASE OpenTunnel
  BY <1>6 DEF OpenTunnel, vars, campaign, deployment, flags, Goes
<1>7. CASE UseTunnel
  <2>1. PICK o \in Judged["tunnel"] :
          IF o.as = "raises" THEN status' = "failed" /\ UNCHANGED <<at, right>>
          ELSE at' = at + 1 /\ right' = (right /\ o.right) /\ UNCHANGED status
    BY <1>7, Zenon DEF UseTunnel
  <2>2. right' \in BOOLEAN BY <2>1, Zenon
  <2>3. at \in 1..Len(Plan(kind)) BY <1>7 DEF UseTunnel
  <2> QED BY <1>7, <2>1, <2>2, <2>3 DEF UseTunnel, vars, campaign, deployment, flags
<1>8. CASE CloseTunnel
  BY <1>8 DEF CloseTunnel, vars, campaign, deployment, flags
<1>9. CASE LaunchScope
  BY <1>9 DEF LaunchScope, vars, campaign, deployment, flags, Goes
<1>10. CASE NoteScope
  BY <1>10 DEF NoteScope, vars, campaign, deployment, flags, Goes
<1>11. CASE JudgeReplay
  <2>1. PICK o : Judge(o, "next") BY <1>11 DEF JudgeReplay
  <2>2. right' \in BOOLEAN BY <2>1, RightIsBoolean
  <2>3. at \in 1..Len(Plan(kind)) BY <1>11 DEF JudgeReplay
  <2> QED BY <1>11, <2>1, <2>2, <2>3 DEF JudgeReplay, Judge, Raise, vars, campaign, deployment, flags
<1>12. CASE Conclude
  BY <1>12 DEF Conclude, vars, campaign, deployment, flags, Goes
<1>13. CASE Timeout
  BY <1>13 DEF Timeout, vars, campaign, deployment, flags, CutShort, Status, Live
<1>14. CASE ChildEnded
  BY <1>14 DEF ChildEnded, vars, campaign, deployment, flags, Goes, Live
<1>15. CASE KillGroup
  BY <1>15 DEF KillGroup, vars, campaign, deployment, flags, Goes, Live
<1>16. CASE StopScope
  BY <1>16 DEF StopScope, vars, campaign, deployment, flags
<1>17. CASE CheckClaims
  BY <1>17 DEF CheckClaims, vars, campaign, deployment, flags, EndStep, GiveUp
<1>18. CASE DownDoris
  BY <1>18 DEF DownDoris, vars, campaign, deployment, flags, Down, EndStep, GiveUp
<1>19. CASE DownSubstrate
  BY <1>19 DEF DownSubstrate, vars, campaign, deployment, flags, Down, EndStep, GiveUp
<1>20. CASE VerifyGone
  BY <1>20 DEF VerifyGone, vars, campaign, deployment, flags, EndStep, GiveUp
<1>21. CASE Compare
  BY <1>21 DEF Compare, vars, campaign, deployment, flags, EndStep, GiveUp
<1>22. CASE WriteVerdict
  BY <1>22 DEF WriteVerdict, vars, campaign, deployment, flags, Goes
<1>23. CASE ChildClaims
  BY <1>23 DEF ChildClaims, Contract!Obtain, Contract!EndUnclaimed, vars, campaign, deployment, flags
<1>24. CASE ChildCreates
  BY <1>24 DEF ChildCreates, vars, campaign, deployment, flags
<1>25. CASE ChildCommand
  BY <1>25 DEF ChildCommand, vars, campaign, deployment, flags
<1>26. CASE ChildSeesInjection
  BY <1>26 DEF ChildSeesInjection, vars, campaign, deployment, flags
<1>27. CASE ChildEnds
  BY <1>27 DEF ChildEnds, Contract!Succeed, Contract!FailWorking, vars, campaign, deployment, flags
<1>28. CASE Interrupt
  <2>1. interrupts' \in 0..MaxInterrupts BY <1>28, CampaignAssumption DEF Interrupt
  <2>2. CASE CutShort(TRUE)
    BY <1>28, <2>1, <2>2 DEF Interrupt, CutShort, Status, Live, vars, campaign, deployment, flags
  <2>3. CASE CutShortAgain
    <3>1. abandoned' \in BOOLEAN BY <2>3, Zenon DEF CutShortAgain
    <3> QED BY <1>28, <2>1, <2>3, <3>1 DEF Interrupt, CutShortAgain, Status, vars, campaign, deployment, flags
  <2> QED BY <1>28, <2>2, <2>3 DEF Interrupt
<1>29. CASE Kill
  BY <1>29 DEF Kill, vars, campaign, deployment, flags, Live
<1>30. CASE StackChanged
  BY <1>30, CampaignAssumption DEF StackChanged, vars, campaign, deployment, flags
<1>31. CASE UNCHANGED vars
  BY <1>31 DEF vars, campaign, deployment, flags
<1> QED
  BY <1>1, <1>2, <1>3, <1>4, <1>5, <1>6, <1>7, <1>8, <1>9, <1>10, <1>11, <1>12, <1>13, <1>14, <1>15, <1>16, <1>17, <1>18, <1>19, <1>20, <1>21, <1>22, <1>23, <1>24, <1>25, <1>26, <1>27, <1>28, <1>29, <1>30, <1>31 DEF Next, CampaignStep, ChildStep

(* What the guard allows stays within the sandbox and the fixtures.        *)
LEMMA AllowedIsInside ==
  ASSUME NEW c \in Commands, NEW full, allowed(c, full), c.verb # "look"
  PROVE  c.mine /\ (allocation(c) /\ c.verb # "bootstrap" => c.fixture)
BY DEF Commands, allowed, allocation

(* control the campaign,                                                   *)
LEMMA ControlStep == IInv /\ [Next]_vars => Controlled'
<1> SUFFICES ASSUME IInv, [Next]_vars PROVE Controlled'
  OBVIOUS
<1> USE PlanLength DEF IInv, TypeOK, WithinPlan, AllRight, PassNoted, PassWritten, Controlled, AtEnd
<1>1. CASE Prepare
  BY <1>1 DEF Prepare, vars, campaign, deployment, flags, Goes, Raise
<1>2. CASE Fail
  BY <1>2 DEF Fail, vars, campaign, deployment, flags, Raise
<1>3. CASE StartDeployment
  BY <1>3 DEF StartDeployment, vars, campaign, deployment, flags, Goes
<1>4. CASE JudgeDeployment
  BY <1>4 DEF JudgeDeployment, vars, campaign, deployment, flags, Raise, Live
<1>5. CASE Check
  <2>1. PICK o \in Judged[Item] : Judge(o, "next") BY <1>5, Zenon DEF Check
  <2>2. at \in 1..Len(Plan(kind)) BY <1>5 DEF Check
  <2>3. o.as = "passed" => o.right BY <1>5, <2>1, AcceptedIsRight DEF Check
  <2> QED BY <1>5, <2>1, <2>2, <2>3 DEF Check, Judge, Raise, vars, campaign, deployment, flags
<1>6. CASE OpenTunnel
  BY <1>6 DEF OpenTunnel, vars, campaign, deployment, flags, Goes
<1>7. CASE UseTunnel
  <2>1. PICK o \in Judged["tunnel"] :
          IF o.as = "raises" THEN status' = "failed" /\ UNCHANGED <<at, right>>
          ELSE at' = at + 1 /\ right' = (right /\ o.right) /\ UNCHANGED status
    BY <1>7, Zenon DEF UseTunnel
  <2>2. o.as # "raises" => o.right BY <2>1, AcceptedIsRight DEF Judged, Required
  <2> QED BY <1>7, <2>1, <2>2 DEF UseTunnel, vars, campaign, deployment, flags
<1>8. CASE CloseTunnel
  BY <1>8 DEF CloseTunnel, vars, campaign, deployment, flags
<1>9. CASE LaunchScope
  BY <1>9 DEF LaunchScope, vars, campaign, deployment, flags, Goes
<1>10. CASE NoteScope
  BY <1>10 DEF NoteScope, vars, campaign, deployment, flags, Goes
<1>11. CASE JudgeReplay
  <2>1. PICK o \in Judged[Item] : Judge(o, "next") BY <1>11, Zenon DEF JudgeReplay
  <2>2. o.as = "passed" => o.right BY <1>11, <2>1, AcceptedIsRight DEF JudgeReplay, Scoped
  <2>3. right' BY <2>1, <2>2 DEF Judge
  <2> QED BY <1>11, <2>1, <2>3 DEF JudgeReplay, Judge, Raise, vars, campaign, deployment, flags
<1>12. CASE Conclude
  BY <1>12 DEF Conclude, vars, campaign, deployment, flags, Goes
<1>13. CASE Timeout
  BY <1>13 DEF Timeout, vars, campaign, deployment, flags, CutShort, Status, Live
<1>14. CASE ChildEnded
  BY <1>14 DEF ChildEnded, vars, campaign, deployment, flags, Goes, Live
<1>15. CASE KillGroup
  BY <1>15 DEF KillGroup, vars, campaign, deployment, flags, Goes, Live
<1>16. CASE StopScope
  BY <1>16 DEF StopScope, vars, campaign, deployment, flags
<1>17. CASE CheckClaims
  BY <1>17 DEF CheckClaims, vars, campaign, deployment, flags, EndStep, GiveUp
<1>18. CASE DownDoris
  BY <1>18 DEF DownDoris, vars, campaign, deployment, flags, Down, EndStep, GiveUp
<1>19. CASE DownSubstrate
  BY <1>19 DEF DownSubstrate, vars, campaign, deployment, flags, Down, EndStep, GiveUp
<1>20. CASE VerifyGone
  BY <1>20 DEF VerifyGone, vars, campaign, deployment, flags, EndStep, GiveUp
<1>21. CASE Compare
  BY <1>21 DEF Compare, vars, campaign, deployment, flags, EndStep, GiveUp
<1>22. CASE WriteVerdict
  BY <1>22 DEF WriteVerdict, vars, campaign, deployment, flags, Goes
<1>23. CASE ChildClaims
  BY <1>23 DEF ChildClaims, Contract!Obtain, Contract!EndUnclaimed, vars, campaign, deployment, flags
<1>24. CASE ChildCreates
  BY <1>24 DEF ChildCreates, vars, campaign, deployment, flags
<1>25. CASE ChildCommand
  <2>1. ~touched' BY <1>25, AllowedIsInside, Zenon DEF ChildCommand
  <2> QED BY <1>25, <2>1 DEF ChildCommand, vars, campaign, deployment, flags
<1>26. CASE ChildSeesInjection
  BY <1>26 DEF ChildSeesInjection, vars, campaign, deployment, flags
<1>27. CASE ChildEnds
  BY <1>27 DEF ChildEnds, Contract!Succeed, Contract!FailWorking, vars, campaign, deployment, flags
<1>28. CASE Interrupt
  BY <1>28 DEF Interrupt, vars, campaign, deployment, flags, CutShort, CutShortAgain, Status, Live
<1>29. CASE Kill
  BY <1>29 DEF Kill, vars, campaign, deployment, flags, Live
<1>30. CASE StackChanged
  BY <1>30 DEF StackChanged, vars, campaign, deployment, flags
<1>31. CASE UNCHANGED vars
  BY <1>31 DEF vars, campaign, deployment, flags
<1> QED
  BY <1>1, <1>2, <1>3, <1>4, <1>5, <1>6, <1>7, <1>8, <1>9, <1>10, <1>11, <1>12, <1>13, <1>14, <1>15, <1>16, <1>17, <1>18, <1>19, <1>20, <1>21, <1>22, <1>23, <1>24, <1>25, <1>26, <1>27, <1>28, <1>29, <1>30, <1>31 DEF Next, CampaignStep, ChildStep

(* leave what runs waited for or its campaign failed,                      *)
LEMMA WatchStep == IInv /\ [Next]_vars => Watched'
<1> SUFFICES ASSUME IInv, [Next]_vars PROVE Watched'
  OBVIOUS
<1> USE PlanLength DEF IInv, TypeOK, WithinPlan, PassNoted, PassWritten, Controlled, Watched, LiveWaited, AbandonedFails, TunnelUsed, ScopeNoted, ScopeStopped, AtEnd, Lost, Live, Known, Item, Deployments, Scoped, Guarded
<1>1. CASE Prepare
  BY <1>1 DEF Prepare, vars, campaign, deployment, flags, Goes, Raise
<1>2. CASE Fail
  BY <1>2 DEF Fail, vars, campaign, deployment, flags, Raise
<1>3. CASE StartDeployment
  BY <1>3 DEF StartDeployment, vars, campaign, deployment, flags, Goes
<1>4. CASE JudgeDeployment
  BY <1>4 DEF JudgeDeployment, vars, campaign, deployment, flags, Raise, Live
<1>5. CASE Check
  BY <1>5 DEF Check, vars, campaign, deployment, flags, Judge, Raise
<1>6. CASE OpenTunnel
  BY <1>6 DEF OpenTunnel, vars, campaign, deployment, flags, Goes
<1>7. CASE UseTunnel
  BY <1>7 DEF UseTunnel, vars, campaign, deployment, flags
<1>8. CASE CloseTunnel
  BY <1>8 DEF CloseTunnel, vars, campaign, deployment, flags
<1>9. CASE LaunchScope
  BY <1>9 DEF LaunchScope, vars, campaign, deployment, flags, Goes
<1>10. CASE NoteScope
  BY <1>10 DEF NoteScope, vars, campaign, deployment, flags, Goes
<1>11. CASE JudgeReplay
  BY <1>11 DEF JudgeReplay, vars, campaign, deployment, flags, Judge, Raise
<1>12. CASE Conclude
  BY <1>12 DEF Conclude, vars, campaign, deployment, flags, Goes
<1>13. CASE Timeout
  BY <1>13 DEF Timeout, vars, campaign, deployment, flags, CutShort, Status, Live
<1>14. CASE ChildEnded
  BY <1>14 DEF ChildEnded, vars, campaign, deployment, flags, Goes, Live
<1>15. CASE KillGroup
  BY <1>15 DEF KillGroup, vars, campaign, deployment, flags, Goes, Live
<1>16. CASE StopScope
  BY <1>16 DEF StopScope, vars, campaign, deployment, flags
<1>17. CASE CheckClaims
  BY <1>17 DEF CheckClaims, vars, campaign, deployment, flags, EndStep, GiveUp
<1>18. CASE DownDoris
  BY <1>18 DEF DownDoris, vars, campaign, deployment, flags, Down, EndStep, GiveUp
<1>19. CASE DownSubstrate
  BY <1>19 DEF DownSubstrate, vars, campaign, deployment, flags, Down, EndStep, GiveUp
<1>20. CASE VerifyGone
  BY <1>20 DEF VerifyGone, vars, campaign, deployment, flags, EndStep, GiveUp
<1>21. CASE Compare
  BY <1>21 DEF Compare, vars, campaign, deployment, flags, EndStep, GiveUp
<1>22. CASE WriteVerdict
  BY <1>22 DEF WriteVerdict, vars, campaign, deployment, flags, Goes
<1>23. CASE ChildClaims
  BY <1>23 DEF ChildClaims, Contract!Obtain, Contract!EndUnclaimed, vars, campaign, deployment, flags
<1>24. CASE ChildCreates
  BY <1>24 DEF ChildCreates, vars, campaign, deployment, flags
<1>25. CASE ChildCommand
  BY <1>25 DEF ChildCommand, vars, campaign, deployment, flags
<1>26. CASE ChildSeesInjection
  BY <1>26 DEF ChildSeesInjection, vars, campaign, deployment, flags
<1>27. CASE ChildEnds
  BY <1>27 DEF ChildEnds, Contract!Succeed, Contract!FailWorking, vars, campaign, deployment, flags
<1>28. CASE Interrupt
  <2>1. CASE CutShort(TRUE)
    BY <1>28, <2>1 DEF Interrupt, CutShort, Status, vars, campaign, deployment, flags
  <2>2. CASE CutShortAgain
    <3> USE <1>28, <2>2 DEF Interrupt, CutShortAgain, Status, vars, campaign, deployment, flags
    <3>1. LiveWaited' OBVIOUS
    <3>2. AbandonedFails' OBVIOUS
    <3>3. TunnelUsed' OBVIOUS
    <3>4. ScopeNoted' OBVIOUS
    <3>5. ScopeStopped' OBVIOUS
    <3> QED BY <3>1, <3>2, <3>3, <3>4, <3>5
  <2> QED BY <1>28, <2>1, <2>2 DEF Interrupt
<1>29. CASE Kill
  BY <1>29 DEF Kill, vars, campaign, deployment, flags, Live
<1>30. CASE StackChanged
  BY <1>30 DEF StackChanged, vars, campaign, deployment, flags
<1>31. CASE UNCHANGED vars
  BY <1>31 DEF vars, campaign, deployment, flags
<1> QED
  BY <1>1, <1>2, <1>3, <1>4, <1>5, <1>6, <1>7, <1>8, <1>9, <1>10, <1>11, <1>12, <1>13, <1>14, <1>15, <1>16, <1>17, <1>18, <1>19, <1>20, <1>21, <1>22, <1>23, <1>24, <1>25, <1>26, <1>27, <1>28, <1>29, <1>30, <1>31 DEF Next, CampaignStep, ChildStep

(* and remove only what is not claimed.                                    *)
LEMMA HeldStep == IInv /\ [Next]_vars => Held'
<1> SUFFICES ASSUME IInv, [Next]_vars PROVE Held'
  OBVIOUS
<1> USE PlanLength DEF IInv, TypeOK, PassNoted, PassWritten, Controlled, Watched, LiveWaited, AbandonedFails, Held, Unstarted, Unclaimed, Gone, AtEnd, Lost, Live, Projects
<1>1. CASE Prepare
  BY <1>1 DEF Prepare, vars, campaign, deployment, flags, Goes, Raise
<1>2. CASE Fail
  BY <1>2 DEF Fail, vars, campaign, deployment, flags, Raise
<1>3. CASE StartDeployment
  BY <1>3 DEF StartDeployment, vars, campaign, deployment, flags, Goes
<1>4. CASE JudgeDeployment
  BY <1>4 DEF JudgeDeployment, vars, campaign, deployment, flags, Raise, Live
<1>5. CASE Check
  BY <1>5 DEF Check, vars, campaign, deployment, flags, Judge, Raise
<1>6. CASE OpenTunnel
  BY <1>6 DEF OpenTunnel, vars, campaign, deployment, flags, Goes
<1>7. CASE UseTunnel
  BY <1>7 DEF UseTunnel, vars, campaign, deployment, flags
<1>8. CASE CloseTunnel
  BY <1>8 DEF CloseTunnel, vars, campaign, deployment, flags
<1>9. CASE LaunchScope
  BY <1>9 DEF LaunchScope, vars, campaign, deployment, flags, Goes
<1>10. CASE NoteScope
  BY <1>10 DEF NoteScope, vars, campaign, deployment, flags, Goes
<1>11. CASE JudgeReplay
  BY <1>11 DEF JudgeReplay, vars, campaign, deployment, flags, Judge, Raise
<1>12. CASE Conclude
  BY <1>12 DEF Conclude, vars, campaign, deployment, flags, Goes
<1>13. CASE Timeout
  BY <1>13 DEF Timeout, vars, campaign, deployment, flags, CutShort, Status, Live
<1>14. CASE ChildEnded
  BY <1>14 DEF ChildEnded, vars, campaign, deployment, flags, Goes, Live
<1>15. CASE KillGroup
  BY <1>15 DEF KillGroup, vars, campaign, deployment, flags, Goes, Live
<1>16. CASE StopScope
  BY <1>16 DEF StopScope, vars, campaign, deployment, flags
<1>17. CASE CheckClaims
  BY <1>17 DEF CheckClaims, vars, campaign, deployment, flags, EndStep, GiveUp
<1>18. CASE DownDoris
  BY <1>18 DEF DownDoris, vars, campaign, deployment, flags, Down, EndStep, GiveUp
<1>19. CASE DownSubstrate
  BY <1>19 DEF DownSubstrate, vars, campaign, deployment, flags, Down, EndStep, GiveUp
<1>20. CASE VerifyGone
  BY <1>20 DEF VerifyGone, vars, campaign, deployment, flags, EndStep, GiveUp
<1>21. CASE Compare
  BY <1>21 DEF Compare, vars, campaign, deployment, flags, EndStep, GiveUp
<1>22. CASE WriteVerdict
  BY <1>22 DEF WriteVerdict, vars, campaign, deployment, flags, Goes
<1>23. CASE ChildClaims
  BY <1>23 DEF ChildClaims, Contract!Obtain, Contract!EndUnclaimed, vars, campaign, deployment, flags
<1>24. CASE ChildCreates
  BY <1>24 DEF ChildCreates, vars, campaign, deployment, flags
<1>25. CASE ChildCommand
  BY <1>25 DEF ChildCommand, vars, campaign, deployment, flags
<1>26. CASE ChildSeesInjection
  BY <1>26 DEF ChildSeesInjection, vars, campaign, deployment, flags
<1>27. CASE ChildEnds
  BY <1>27 DEF ChildEnds, Contract!Succeed, Contract!FailWorking, vars, campaign, deployment, flags
<1>28. CASE Interrupt
  BY <1>28 DEF Interrupt, vars, campaign, deployment, flags, CutShort, CutShortAgain, Status, Live
<1>29. CASE Kill
  BY <1>29 DEF Kill, vars, campaign, deployment, flags, Live
<1>30. CASE StackChanged
  BY <1>30 DEF StackChanged, vars, campaign, deployment, flags
<1>31. CASE UNCHANGED vars
  BY <1>31 DEF vars, campaign, deployment, flags
<1> QED
  BY <1>1, <1>2, <1>3, <1>4, <1>5, <1>6, <1>7, <1>8, <1>9, <1>10, <1>11, <1>12, <1>13, <1>14, <1>15, <1>16, <1>17, <1>18, <1>19, <1>20, <1>21, <1>22, <1>23, <1>24, <1>25, <1>26, <1>27, <1>28, <1>29, <1>30, <1>31 DEF Next, CampaignStep, ChildStep

-----------------------------------------------------------------------------
(* THE THEOREMS                                                            *)
LEMMA InitIInv == Init => IInv
<1> SUFFICES ASSUME Init PROVE IInv
  OBVIOUS
<1>1. TypeOK
  <2>1. kind \in Campaigns /\ at \in 1..Len(Plan(kind)) + 1
    <3>1. Len(Plan(kind)) \in Nat /\ at = 1 BY PlanLength DEF Init
    <3> QED BY <3>1 DEF Init
  <2>2. interrupts \in 0..MaxInterrupts /\ before \in -1..MaxChanges /\ stacks \in 0..MaxChanges
    BY CampaignAssumption DEF Init
  <2> QED BY <2>1, <2>2 DEF Init, TypeOK, Projects
<1>2. Controlled BY DEF Init, Controlled, WithinPlan, AllRight, PassNoted, PassWritten
<1>3. Watched
  BY DEF Init, Watched, LiveWaited, AbandonedFails, TunnelUsed, ScopeNoted, ScopeStopped, Live
<1>4. Held BY DEF Init, Held, Unstarted, Unclaimed, Gone
<1> QED BY <1>1, <1>2, <1>3, <1>4 DEF IInv

LEMMA Invariance == Spec => []IInv
<1>1. IInv /\ [Next]_vars => IInv'
  BY TypeStep, ControlStep, WatchStep, HeldStep DEF IInv
<1> QED BY InitIInv, <1>1, PTL DEF Spec

(* A campaign, with its deployments and others, stays in its states.       *)
THEOREM CampaignTypes == Spec => []TypeOK
<1>1. IInv => TypeOK BY DEF IInv
<1> QED BY Invariance, <1>1, PTL

(* acceptance.json, campaign.json or summary.json says "passed" only of a  *)
(* campaign that went through its plan, whose evidence was what a pass     *)
(* claims, and that left no container, claim, deployment, scope or sshd.   *)
THEOREM PassIsWhole == Spec => []PassedIsWhole
<1>1. IInv => PassedIsWhole
  BY DEF IInv, TypeOK, PassedIsWhole, Controlled, AllRight, PassNoted, PassWritten, Watched, LiveWaited,
         AbandonedFails, TunnelUsed, ScopeStopped, Held, Unclaimed, Gone, Lost
<1> QED BY Invariance, <1>1, PTL

(* owned_resources_cleaned is the truth of a sandbox whose deployments the *)
(* campaign waited for.                                                    *)
THEOREM CleanIsGone == Spec => []CleanedIsGone
<1>1. IInv => CleanedIsGone BY DEF IInv, Held, Gone, CleanedIsGone
<1> QED BY Invariance, <1>1, PTL

(* cleanup takes nothing down while the volume of the sandbox is claimed.  *)
LEMMA OnlyCleanupRemoves ==
  ASSUME [Next]_vars, owned' # owned, owned' \subseteq owned
  PROVE  pc \in {"doris", "substrate"}
<1>1. \/ ChildCreates \/ DownDoris \/ DownSubstrate \/ UNCHANGED owned
  BY DEF Next, CampaignStep, ChildStep, vars, Prepare, Fail, StartDeployment, JudgeDeployment, Check,
         OpenTunnel, UseTunnel, CloseTunnel, LaunchScope, NoteScope, JudgeReplay, Conclude, Timeout,
         ChildEnded, KillGroup, StopScope, CheckClaims, VerifyGone, Compare, WriteVerdict,
         ChildClaims, ChildCommand, ChildSeesInjection, ChildEnds, Interrupt, Kill, StackChanged
<1>2. CASE ChildCreates BY <1>2 DEF ChildCreates
<1>3. CASE DownDoris \/ DownSubstrate BY <1>3 DEF DownDoris, DownSubstrate, Down, EndStep
<1> QED BY <1>1, <1>2, <1>3

THEOREM NoTeardown == Spec => NoTeardownUnderClaim
<1>1. IInv /\ [Next]_vars =>
        [owned' \subseteq owned /\ owned' # owned /\ ~abandoned => claim = "none"]_vars
  <2> SUFFICES ASSUME IInv, [Next]_vars, owned' \subseteq owned, owned' # owned, ~abandoned
               PROVE  claim = "none"
    OBVIOUS
  <2>1. pc \in {"doris", "substrate"} BY OnlyCleanupRemoves
  <2> QED BY <2>1 DEF IInv, Held, Unclaimed
<1> QED BY Invariance, <1>1, PTL DEF Spec, NoTeardownUnderClaim
-----------------------------------------------------------------------------
(* HOW LONG A CAMPAIGN TAKES                                               *)
(* The steps that are left to it, at most: for each item of its plan six,  *)
(* and then those of its end.                                              *)
ToClose == [stopping |-> 7, claims |-> 6, doris |-> 5, substrate |-> 4, verify |-> 3, compare |-> 2,
            writing |-> 1, ended |-> 0, killed |-> 0]
InItem == CASE pc = "prepare" -> 6 [] pc = "next" -> 4 [] pc = "launched" -> 3 [] pc = "running" -> 2
            [] pc = "closing" -> IF status = "running" THEN 5 ELSE 1
            [] OTHER -> 1
Left == IF pc \in AtEnd THEN ToClose[pc] ELSE 8 + 6 * (Len(Plan(kind)) + 1 - at) + InItem

(* What brings it nearer to its end.                                       *)
Nearer ==
  \/ pc' \in AtEnd /\ pc \in AtEnd /\ ToClose[pc'] < ToClose[pc]
  \/ pc' \in AtEnd /\ pc \notin AtEnd
  \/ pc' \notin AtEnd /\ pc \notin AtEnd /\ at' = at + 1
  \/ pc' \notin AtEnd /\ pc \notin AtEnd /\ at' = at /\ InItem' < InItem

LEMMA NearerEnd ==
  ASSUME TypeOK, TypeOK', kind' = kind, Nearer
  PROVE  Left' < Left
<1>1. InItem \in 1..6 /\ InItem' \in 1..6
  BY DEF InItem
<1>2. \A s \in AtEnd : ToClose[s] \in 0..7
  BY DEF AtEnd, ToClose
<1>3. at \in 1..Len(Plan(kind)) + 1 /\ at' \in 1..Len(Plan(kind)) + 1 /\ Len(Plan(kind)) \in Nat
  BY PlanLength DEF TypeOK
<1>4. Plan(kind)' = Plan(kind)
  BY DEF Plan
<1> HIDE DEF InItem, ToClose, AtEnd
<1>5. CASE pc' \in AtEnd
  <2>1. Left' = ToClose[pc']
    BY <1>5 DEF Left
  <2>2. CASE pc \in AtEnd
    BY <1>5, <2>1, <2>2 DEF Left, Nearer
  <2>3. CASE pc \notin AtEnd
    <3>1. Left = 8 + 6 * (Len(Plan(kind)) + 1 - at) + InItem
      BY <2>3 DEF Left
    <3> QED
      BY <1>1, <1>2, <1>3, <1>5, <2>1, <3>1
  <2> QED
    BY <2>2, <2>3
<1>6. CASE pc' \notin AtEnd
  <2>1. /\ Left = 8 + 6 * (Len(Plan(kind)) + 1 - at) + InItem
        /\ Left' = 8 + 6 * (Len(Plan(kind)) + 1 - at') + InItem'
    BY <1>4, <1>6 DEF Left, Nearer
  <2>2. at' = at + 1 \/ (at' = at /\ InItem' < InItem)
    BY <1>6 DEF Nearer
  <2>3. PICK n \in Nat, i \in 1..6, j \in 1..6 :
          n = Len(Plan(kind)) /\ i = InItem /\ j = InItem'
    BY <1>1, <1>3
  <2>4. 8 + 6 * (n + 1 - at') + j < 8 + 6 * (n + 1 - at) + i
    BY <1>3, <2>2, <2>3
  <2>5. Left = 8 + 6 * (n + 1 - at) + i /\ Left' = 8 + 6 * (n + 1 - at') + j
    BY <2>1, <2>3, Zenon
  <2> QED
    BY <2>4, <2>5, Zenon
<1> QED
  BY <1>5, <1>6

(* Every step of the campaign does, so does a kill and an interrupt that   *)
(* takes it anywhere.                                                      *)
LEMMA OwnNearer ==
  ASSUME TypeOK, CampaignStep \/ Kill \/ (Interrupt /\ pc' # pc)
  PROVE  kind' = kind /\ Nearer
<1> USE DEF Nearer, AtEnd, ToClose, InItem, Goes, Raise
<1>1. CASE Prepare \/ Fail \/ StartDeployment \/ OpenTunnel \/ LaunchScope \/ NoteScope
  BY <1>1 DEF Prepare, Fail, StartDeployment, OpenTunnel, LaunchScope, NoteScope
<1>2. CASE JudgeDeployment
  BY <1>2 DEF JudgeDeployment, flags
<1>3. CASE Check \/ JudgeReplay
  <2>1. kind' = kind /\ pc \in {"next", "running"}
    BY <1>3 DEF Check, JudgeReplay
  <2>2. pc' = "stopping" \/ (pc' = "next" /\ at' = at + 1)
    BY <1>3, Zenon DEF Check, JudgeReplay, Judge
  <2> QED
    BY <2>1, <2>2
<1>4. CASE UseTunnel
  <2>1. kind' = kind /\ pc = "running" /\ pc' = "closing"
    BY <1>4 DEF UseTunnel
  <2>2. at' = at + 1 \/ (at' = at /\ status' = "failed")
    BY <1>4, Zenon DEF UseTunnel
  <2> QED
    BY <2>1, <2>2
<1>5. CASE CloseTunnel \/ Conclude
  BY <1>5 DEF CloseTunnel, Conclude
<1>6. CASE ChildEnded \/ KillGroup \/ StopScope
  BY <1>6 DEF ChildEnded, KillGroup, StopScope
<1>7. CASE Timeout \/ (Interrupt /\ CutShort(TRUE))
  <2>1. kind' = kind /\ at' = at
    BY <1>7 DEF Timeout, Interrupt
  <2>2. status' \in {"failed", "interrupted"}
    BY <1>7 DEF Timeout, CutShort, Status
  <2>3. \/ pc = "running" /\ pc' \in {"ending", "closing", "stopping"}
        \/ pc \in {"prepare", "next", "launched"} /\ pc' = "stopping"
    BY <1>7 DEF Timeout, CutShort
  <2> QED
    BY <2>1, <2>2, <2>3
<1>8. CASE Interrupt /\ CutShortAgain /\ pc' # pc
  <2>1. kind' = kind
    BY <1>8 DEF Interrupt
  <2>2. \/ pc \in {"ending", "closing"} /\ pc' = "stopping"
        \/ /\ pc \in {"stopping", "claims", "doris", "substrate", "verify", "compare"}
           /\ pc' \in {"ended", "writing"}
        \/ pc = "writing" /\ pc' = "ended"
    BY <1>8 DEF CutShortAgain
  <2> QED
    BY <2>1, <2>2
<1>9. CASE CheckClaims \/ DownDoris \/ DownSubstrate \/ VerifyGone \/ Compare
  <2>1. kind' = kind
    BY <1>9 DEF CheckClaims, DownDoris, DownSubstrate, Down, VerifyGone, Compare, EndStep
  <2>2. \/ pc = "claims" /\ pc' \in {"doris", "compare", "writing"}
        \/ pc = "doris" /\ pc' \in {"substrate", "writing"}
        \/ pc = "substrate" /\ pc' \in {"verify", "writing"}
        \/ pc = "verify" /\ pc' \in {"compare", "writing"}
        \/ pc = "compare" /\ pc' = "writing"
    BY <1>9 DEF CheckClaims, DownDoris, DownSubstrate, Down, VerifyGone, Compare, EndStep, GiveUp
  <2> QED
    BY <2>1, <2>2
<1>10. CASE WriteVerdict
  BY <1>10 DEF WriteVerdict
<1>11. CASE Kill
  BY <1>11 DEF Kill, TypeOK
<1> QED
  BY <1>1, <1>2, <1>3, <1>4, <1>5, <1>6, <1>7, <1>8, <1>9, <1>10, <1>11 DEF CampaignStep, Interrupt

(* Each step that a campaign takes is one less that is left to it, and     *)
(* nothing that signals, its deployments or others do adds one: a campaign *)
(* takes at most 56.                                                       *)
CampaignAdvances == [][Left' <= Left /\ (CampaignStep \/ Kill => Left' < Left)]_vars
THEOREM Advancing == Spec => CampaignAdvances
<1>1. ASSUME IInv, IInv', CampaignStep \/ Kill \/ (Interrupt /\ pc' # pc)
      PROVE  Left' < Left
  BY <1>1, OwnNearer, NearerEnd DEF IInv
<1>2. ASSUME ChildStep \/ StackChanged
      PROVE  Left' = Left
  <2>1. UNCHANGED <<kind, at, pc, status>>
    BY <1>2 DEF ChildStep, StackChanged, ChildClaims, ChildCreates, ChildCommand, ChildSeesInjection,
                ChildEnds, campaign
  <2> QED
    BY <2>1 DEF Left, InItem
<1>3. ASSUME TypeOK
      PROVE  Left \in Nat
  <2>1. InItem \in 1..6
    BY DEF InItem
  <2>2. at \in 1..Len(Plan(kind)) + 1 /\ Len(Plan(kind)) \in Nat
    BY <1>3, PlanLength DEF TypeOK
  <2> QED
    BY <2>1, <2>2 DEF Left, AtEnd, ToClose
<1>4. IInv /\ IInv' /\ [Next]_vars
        => [Left' <= Left /\ (CampaignStep \/ Kill => Left' < Left)]_vars
  <2> SUFFICES ASSUME IInv, IInv', Next
               PROVE  Left' <= Left /\ (CampaignStep \/ Kill => Left' < Left)
    OBVIOUS
  <2>1. Left \in Nat
    BY <1>3 DEF IInv
  <2>2. Left' \in Nat
    <3>1. InItem' \in 1..6
      BY DEF InItem
    <3>2. at' \in 1..Len(Plan(kind')) + 1 /\ Len(Plan(kind')) \in Nat
      BY PlanLength DEF IInv, TypeOK
    <3>3. Plan(kind)' = Plan(kind')
      BY DEF Plan
    <3> QED
      BY <3>1, <3>2, <3>3 DEF Left, AtEnd, ToClose
  <2>3. CASE CampaignStep \/ Kill \/ (Interrupt /\ pc' # pc)
    BY <1>1, <2>1, <2>2, <2>3
  <2>4. CASE Interrupt /\ pc' = pc /\ ~(CampaignStep \/ Kill)
    <3>1. pc = "stopping"
      BY <2>4 DEF Interrupt, CutShort, CutShortAgain
    <3>2. Left' = Left
      BY <2>4, <3>1 DEF Left, AtEnd, ToClose
    <3> QED
      BY <2>1, <2>4, <3>2
  <2>5. CASE ~(CampaignStep \/ Interrupt \/ Kill)
    BY <1>2, <2>1, <2>5 DEF Next
  <2> QED
    BY <2>3, <2>4, <2>5
<1> QED
  BY <1>4, Invariance, PTL DEF Spec, CampaignAdvances

=============================================================================
