--------------------------- MODULE SmokeRunProofs ---------------------------
(***************************************************************************)
(* That what a smoke counts was right, that a run which exits with 0 is    *)
(* whole and of one deployment, and that one which failed keeps no current *)
(* receipt: for any cases, processes, edits and signals.                   *)
(***************************************************************************)
EXTENDS SmokeRun, FiniteSetTheorems, TLAPS

-----------------------------------------------------------------------------
(* THE INVARIANT                                                           *)
Early == {"new", "planned", "served", "started", "backed"}
Succeeding == {"exited", "verified", "confirmed", "writing", "returned"}
Attesting == {"attested", "smoking"} \cup Succeeding
Resolved == {"started", "backed", "seeing", "asking", "stable"} \cup Attesting

(* What a check process is about to write is as true as the ledger, and    *)
(* the ledger is open until it has; unless its shell has left it.          *)
HeldTrue == \A i \in 1..N : held.rows[i] = "passed" => i \in right
LedgerOpen == check \in {"record", "finish"} /\ ~lone => ledger.status = "checking"
CheckOfShell ==
  /\ driver # "running" /\ ~lone => check = "none"
  /\ lone => driver \in {"trap", "failed"}
(* The owner goes on when its driver has ended.                            *)
DriverWaited ==
  /\ step \in Early \cup {"seeing", "asking", "stable", "attested"} => driver = "none"
  /\ driver = "running" => step \in {"smoking", "killed"}
  /\ step \in Succeeding \/ exit = "0" => driver = "ok"

(* Where the owner is when it has its exit code, or its report.            *)
Reported ==
  /\ exit = "0" => step = "ended" /\ result = "passed"
  /\ step = "returned" => result = "passed"
  /\ result = "failed" => step = "ended"
(* The ledger was verified when nobody wrote it any more.                  *)
Verified == step \in {"writing", "returned"} \/ exit = "0" => verify_completed
Certified == step \in Attesting \/ exit = "0" => attested = "current"
Retracted ==
  /\ step \in {"retracted", "reporting"} \/ result = "failed" => attested # "current"
  /\ step = "reporting" \/ result = "failed" => lone \/ proof.at # "current"
(* The substrate is edited, but never back to what it was.                 *)
RouteKept ==
  /\ step = "planned" => planned <= route
  /\ step = "served" => planned <= served /\ served <= route
  /\ step \in Resolved \/ exit = "0" => target = served
(* Processes only follow each other, so answers lie between the one that   *)
(* was attested and the one that runs.                                     *)
SeenBetween ==
  /\ newFe <= fe /\ boundBe <= be
  /\ \A p \in seen : newFe <= p[1] /\ p[1] <= fe /\ boundBe <= p[2] /\ p[2] <= be
  /\ step \in Early => seen = {}
  /\ step \in {"stable"} \cup Attesting => seen # {}
  /\ step \in {"confirmed", "writing", "returned"} \/ exit = "0" => seen = {<<newFe, boundBe>>}

Kept == EvidenceTrue /\ HeldTrue /\ LedgerOpen /\ CheckOfShell
Owned == DriverWaited /\ Reported /\ Verified /\ Certified /\ Retracted /\ RouteKept /\ SeenBetween
IInv == TypeOK /\ Kept /\ Owned
-----------------------------------------------------------------------------
(* WHAT IS OBSERVED                                                        *)
(* An object that is taken for present, or for gone, is.                   *)
LEMMA SightIsTrue ==
  ASSUME NEW s \in Sights, s.seen # "unknown" PROVE s.seen = s.is
<1>1. PICK o \in Objects : \E r \in Replies(o) : s = [is |-> o, seen |-> object_state(r)]
  BY Zenon DEF Sights
<1>2. PICK r \in Replies(o) : s = [is |-> o, seen |-> object_state(r)]
  BY <1>1
<1> QED BY <1>2 DEF Replies, Objects, object_state

LEMMA RowsAreRight ==
  ASSUME NEW o \in RowsJudged PROVE o.as \in Judgements /\ (o.as = "passed" => o.right)
<1>1. PICK e \in Values :
        o \in {[right |-> a = e, as |-> IF e.type = "int" THEN Judge(exact(a, e)) ELSE "raises"] : a \in Values}
  BY DEF RowsJudged
<1>2. PICK a \in Values :
        o = [right |-> a = e, as |-> IF e.type = "int" THEN Judge(exact(a, e)) ELSE "raises"]
  BY <1>1
<1>3. exact(a, e) => a = e BY DEF exact, Values
<1> QED BY <1>2, <1>3 DEF Judge, Judgements

LEMMA ExpiryIsRight ==
  ASSUME NEW o \in ExpiryJudged PROVE o.as \in Judgements /\ (o.as = "passed" => o.right)
<1>1. PICK w \in [row: ExpiryRows, before: 1..3, after: 0..3] :
        o = [right |-> ~w.row.dry /\ Ids(w.row) # {} /\ w.after >= 1
                        /\ w.before - w.after = Cardinality(Ids(w.row)),
             as |-> IF procedure(w.row) THEN Judge(Expired(w.row.count, w.before, w.after)) ELSE "raises"]
  BY Zenon DEF ExpiryJudged
<1>2. o.as = "passed" => procedure(w.row) /\ Expired(w.row.count, w.before, w.after)
  BY <1>1 DEF Judge
<1>3. Cardinality({}) = 0 BY FS_EmptySet
<1>4. procedure(w.row) /\ Expired(w.row.count, w.before, w.after) =>
        /\ ~w.row.dry /\ Ids(w.row) # {} /\ w.after >= 1
        /\ w.before - w.after = Cardinality(Ids(w.row))
  BY <1>3 DEF procedure, Expired
<1>5. o.as \in Judgements BY <1>1 DEF Judge, Judgements
<1> QED BY <1>1, <1>2, <1>4, <1>5

LEMMA CleanupIsRight ==
  ASSUME NEW o \in CleanupJudged PROVE o.as \in Judgements /\ (o.as = "passed" => o.right)
<1>1. PICK w \in [n: Counts, blob: Sights, schedule: 0..1] :
        o = [right |-> w.blob.is = "gone" /\ w.schedule = 0,
             as |-> IF w.blob.seen = "unknown" THEN "raises"
                    ELSE Judge(CleanedUp(w.n, w.blob.seen, w.schedule))]
  BY Zenon DEF CleanupJudged
<1> QED BY <1>1, SightIsTrue DEF Judge, Judgements, CleanedUp

LEMMA OrphansAreRight ==
  ASSUME NEW o \in OrphansJudged PROVE o.as \in Judgements /\ (o.as = "passed" => o.right)
<1>1. PICK w \in [n: Counts, orphan: Sights, success: Sights, foreign: Sights] :
        o = [right |-> w.orphan.is = "gone" /\ w.success.is = "present" /\ w.foreign.is = "present",
             as |-> IF "unknown" \in {w.orphan.seen, w.success.seen, w.foreign.seen} THEN "raises"
                    ELSE Judge(SweptClean(w.n, w.orphan.seen, w.success.seen, w.foreign.seen))]
  BY Zenon DEF OrphansJudged
<1>2. w.orphan \in Sights /\ w.success \in Sights /\ w.foreign \in Sights OBVIOUS
<1> QED BY <1>1, <1>2, SightIsTrue DEF Judge, Judgements, SweptClean

LEMMA FixtureIsRight ==
  ASSUME NEW o \in FixtureJudged PROVE o.as \in Judgements /\ (o.as = "passed" => o.right)
<1>1. PICK marker \in [1..3 -> Sights] :
        o = [right |-> \A i \in 1..3 : marker[i].is = "gone",
             as |-> IF \A i \in 1..3 : marker[i].seen = "gone" THEN "passed" ELSE "raises"]
  BY Zenon DEF FixtureJudged
<1>2. \A i \in 1..3 : marker[i].seen = "gone" => marker[i].is = "gone"
  <2> TAKE i \in 1..3
  <2>1. marker[i] \in Sights OBVIOUS
  <2> QED BY <2>1, SightIsTrue
<1> QED BY <1>1, <1>2 DEF Judgements

(* A case that smoke_checks.py records as passed was as it demands: what   *)
(* evaluate and the exact comparisons accept is so, whatever mc replied.   *)
THEOREM PassedIsRight ==
  \A c \in Cases : \A o \in Observations[c] : o.as \in Judgements /\ (o.as = "passed" => o.right)
<1> TAKE c \in Cases
<1> TAKE o \in Observations[c]
<1>1. CASE c = "rows" BY <1>1, RowsAreRight DEF Observations, Cases
<1>2. CASE c = "expiry" BY <1>2, ExpiryIsRight DEF Observations, Cases
<1>3. CASE c = "cleanup" BY <1>3, CleanupIsRight DEF Observations, Cases
<1>4. CASE c = "orphans" BY <1>4, OrphansAreRight DEF Observations, Cases
<1>5. CASE c = "fixture_cleanup" BY <1>5, FixtureIsRight DEF Observations, Cases
<1> QED BY <1>1, <1>2, <1>3, <1>4, <1>5 DEF Cases

-----------------------------------------------------------------------------
(* THE STEPS                                                               *)
LEMMA NIsPositive == N \in Nat /\ N >= 1
BY SmokeAssumption DEF N

LEMMA NoLedgerIsLedger == NoLedger \in LedgerRecord
BY SmokeAssumption DEF NoLedger, LedgerRecord

(* The one record that is updated at a place that varies.                  *)
LEMMA RecordedIs ==
  ASSUME TypeOK, case \in 1..N, NEW outcome \in Outcomes
  PROVE  /\ Recorded(outcome) \in LedgerRecord
         /\ Recorded(outcome).status = IF outcome = "passed" THEN ledger.status ELSE outcome
         /\ \A i \in 1..N : Recorded(outcome).rows[i] = IF i = case THEN outcome ELSE ledger.rows[i]
<1>1. ledger \in LedgerRecord BY DEF TypeOK
<1>3. ledger.rows \in [1..N -> Outcomes \cup {"none"}] BY <1>1 DEF LedgerRecord
<1>4. [ledger.rows EXCEPT ![case] = outcome] \in [1..N -> Outcomes \cup {"none"}] BY <1>3
<1>5. \A i \in 1..N : [ledger.rows EXCEPT ![case] = outcome][i] = IF i = case THEN outcome ELSE ledger.rows[i]
  BY <1>3
<1>6. ledger.status \in Outcomes \cup {"none", "checking"} /\ ledger.target \in 0..MaxRoute
  BY <1>1 DEF LedgerRecord
<1> QED BY <1>4, <1>5, <1>6 DEF LedgerRecord, Recorded

LEMMA StatusIs ==
  ASSUME NEW l \in LedgerRecord, NEW s \in Outcomes \cup {"none", "checking"}
  PROVE  /\ [l EXCEPT !.status = s] \in LedgerRecord
         /\ [l EXCEPT !.status = s].status = s
         /\ [l EXCEPT !.status = s].rows = l.rows
         /\ [l EXCEPT !.status = s].target = l.target
BY DEF LedgerRecord

LEMMA InitLedgerIs == ASSUME TypeOK, InitLedger PROVE ledger' \in LedgerRecord
BY NoLedgerIsLedger DEF TypeOK, InitLedger, LedgerRecord

LEMMA FinishIs ==
  ASSUME TypeOK, Finish PROVE held' \in LedgerRecord /\ (held' = held \/ held'.rows = ledger.rows)
<1>1. CASE held' = [ledger EXCEPT !.status = "passed"]
  BY <1>1, StatusIs DEF TypeOK, Outcomes
<1>2. CASE held' = held BY <1>2 DEF TypeOK
<1> QED BY <1>1, <1>2 DEF Finish

LEMMA AbortIs == ASSUME TypeOK, Abort PROVE ledger' \in LedgerRecord /\ ledger'.rows = ledger.rows
<1>1. CASE ledger' = [ledger EXCEPT !.status = "failed"]
  BY <1>1, StatusIs DEF TypeOK, Outcomes
<1>2. CASE ledger' = ledger BY <1>2 DEF TypeOK
<1> QED BY <1>1, <1>2 DEF Abort

LEMMA CaseIsCase == ASSUME NEW i \in 1..N PROVE Required[i] \in Cases
BY SmokeAssumption DEF N

(* Every step keeps the types.                                             *)
LEMMA TypeKept == IInv /\ [Next]_vars => TypeOK'
<1> SUFFICES ASSUME IInv, [Next]_vars PROVE TypeOK'
  OBVIOUS
<1> USE NIsPositive, NoLedgerIsLedger, SmokeAssumption DEF IInv, TypeOK, Steps, Body, Reporting, Handler
<1>1. CASE PlanRoute
  BY <1>1 DEF PlanRoute, vars, owner, checks, smoke, processes, Goes
<1>2. CASE StartSubstrate
  BY <1>2 DEF StartSubstrate, vars, owner, checks, smoke, processes, Goes
<1>3. CASE ResolveRoute
  BY <1>3 DEF ResolveRoute, vars, owner, checks, smoke, processes, Goes
<1>4. CASE StartBackend
  BY <1>4 DEF StartBackend, vars, owner, checks, smoke, processes, Goes, SameFe
<1>5. CASE BindBackend
  BY <1>5 DEF BindBackend, vars, owner, checks, smoke, processes, Goes
<1>6. CASE ConfirmFe
  BY <1>6 DEF ConfirmFe, vars, owner, checks, smoke, processes, Goes, SameFe
<1>7. CASE Answer
  BY <1>7 DEF Answer, vars, owner, checks, smoke, processes, Goes
<1>8. CASE ConfirmBoth
  BY <1>8 DEF ConfirmBoth, vars, owner, checks, smoke, processes, Goes, SameFe, SameBe
<1>9. CASE Attest
  BY <1>9 DEF Attest, vars, owner, checks, smoke, processes, Goes
<1>10. CASE StartDriver
  BY <1>10 DEF StartDriver, vars, owner, checks, smoke, processes, Goes
<1>11. CASE DriverReturns
  BY <1>11 DEF DriverReturns, vars, owner, checks, smoke, processes, Goes
<1>12. CASE DriverReturnsFailed
  BY <1>12 DEF DriverReturnsFailed, vars, owner, checks, smoke, processes, Goes
<1>13. CASE Verify
  BY <1>13 DEF Verify, vars, owner, checks, smoke, processes, Goes
<1>14. CASE ConfirmAfter
  BY <1>14 DEF ConfirmAfter, vars, owner, checks, smoke, processes, Goes, SameFe, SameBe
<1>15. CASE VerifyAgain
  BY <1>15 DEF VerifyAgain, vars, owner, checks, smoke, processes, Goes
<1>16. CASE WriteResult
  BY <1>16 DEF WriteResult, vars, owner, checks, smoke, processes, Goes
<1>17. CASE Return
  BY <1>17 DEF Return, vars, owner, checks, smoke, processes, Goes
<1>18. CASE Fail
  BY <1>18 DEF Fail, vars, owner, checks, smoke, processes
<1>19. CASE Stopped
  BY <1>19 DEF Stopped, vars, owner, checks, smoke, processes, Goes
<1>20. CASE KillGroup
  BY <1>20 DEF KillGroup, vars, owner, checks, smoke, processes, Goes
<1>21. CASE FailClosed
  BY <1>21 DEF FailClosed, vars, owner, checks, smoke, processes, Goes
<1>22. CASE RetractAttested
  BY <1>22 DEF RetractAttested, vars, owner, checks, smoke, processes, Goes, History
<1>23. CASE RetractProof
  BY <1>23 DEF RetractProof, vars, owner, checks, smoke, processes, Goes, History
<1>24. CASE WriteFailure
  BY <1>24 DEF WriteFailure, vars, owner, checks, smoke, processes, Goes
<1>25. CASE InitLedger
  <2>1. ledger' \in LedgerRecord BY <1>25, InitLedgerIs
  <2>2. check' \in {"ok", "bad"} BY <1>25 DEF InitLedger, Checked
  <2>3. UNCHANGED <<step, signals, owner, driver, case, lone, processes, right, proof, held, seen>>
    BY <1>25 DEF InitLedger, Checked
  <2> QED BY <2>1, <2>2, <2>3 DEF owner, processes
<1>26. CASE Observe
  <2>1. PICK o \in Observations[Required[case]] :
          /\ right' = IF o.right THEN right \cup {case} ELSE right
          /\ IF o.as # "raises" /\ ledger.status = "checking" /\ ledger.rows[case] = "none"
             THEN (\E outcome \in OutcomesOf(o) : held' = Recorded(outcome)) /\ Checked("record")
             ELSE UNCHANGED held /\ Checked("bad")
    BY <1>26, Zenon DEF Observe
  <2>2. o.as \in Judgements BY <1>26, CaseIsCase, PassedIsRight DEF Observe
  <2>3. right' \in SUBSET (1..N) BY <1>26, <2>1 DEF Observe
  <2>4. o.as # "raises" => OutcomesOf(o) \subseteq Outcomes
    BY <2>2 DEF Judgements, OutcomesOf, Outcomes
  <2>5. held' \in LedgerRecord BY <1>26, <2>1, <2>4, RecordedIs DEF Observe
  <2>6. check' \in {"record", "bad"} /\ UNCHANGED <<step, signals, owner, driver, case, lone, processes>>
    BY <2>1 DEF Checked
  <2>7. seen' \subseteq (1..MaxProcess) \X (1..MaxProcess) BY <1>26 DEF Observe
  <2> QED BY <1>26, <2>3, <2>5, <2>6, <2>7 DEF Observe, owner, processes
<1>27. CASE WriteRecord
  BY <1>27 DEF WriteRecord, vars, owner, checks, smoke, processes, Checked
<1>28. CASE Finish
  <2>1. held' \in LedgerRecord BY <1>28, FinishIs
  <2> QED BY <1>28, <2>1 DEF Finish, vars, owner, checks, smoke, processes, Idle, Checked
<1>29. CASE WriteFinished
  BY <1>29 DEF WriteFinished, vars, owner, checks, smoke, processes, Checked
<1>30. CASE WriteProof
  BY <1>30 DEF WriteProof, vars, owner, checks, smoke, processes, Checked
<1>31. CASE NextCase
  BY <1>31 DEF NextCase, vars, owner, checks, smoke, processes
<1>32. CASE DriverEnds
  BY <1>32 DEF DriverEnds, vars, owner, checks, smoke, processes
<1>33. CASE DriverFails
  BY <1>33 DEF DriverFails, vars, owner, checks, smoke, processes
<1>34. CASE Abort
  <2>1. ledger' \in LedgerRecord BY <1>34, AbortIs
  <2> QED BY <1>34, <2>1 DEF Abort, vars, owner, checks, smoke, processes
<1>35. CASE Interrupt
  BY <1>35 DEF Interrupt, vars, owner, checks, smoke, processes, EndsGroup
<1>36. CASE Kill
  BY <1>36 DEF Kill, vars, owner, checks, smoke, processes
<1>37. CASE LoneShell
  BY <1>37 DEF LoneShell, vars, owner, checks, smoke, processes
<1>38. CASE Around
  BY <1>38 DEF Around, vars, owner, checks, smoke, processes, FeRestarts, BeRestarts, RouteEdited
<1>39. CASE UNCHANGED vars
  BY <1>39 DEF vars, owner, checks, smoke, processes
<1> QED
  BY <1>1, <1>2, <1>3, <1>4, <1>5, <1>6, <1>7, <1>8, <1>9, <1>10, <1>11, <1>12, <1>13, <1>14, <1>15, <1>16, <1>17, <1>18, <1>19, <1>20,
     <1>21, <1>22, <1>23, <1>24, <1>25, <1>26, <1>27, <1>28, <1>29, <1>30, <1>31, <1>32, <1>33, <1>34, <1>35, <1>36, <1>37, <1>38, <1>39
  DEF Next, OwnerStep, DriverStep

(* What check processes write is kept true.                                *)
LEMMA EvidenceKept == IInv /\ [Next]_vars => Kept'
<1> SUFFICES ASSUME IInv, [Next]_vars PROVE Kept'
  OBVIOUS
<1> USE NIsPositive DEF IInv, TypeOK, Kept, EvidenceTrue, HeldTrue, LedgerOpen, CheckOfShell, Owned, DriverWaited
<1>1. CASE PlanRoute
  BY <1>1 DEF PlanRoute, vars, owner, checks, smoke, processes, Goes
<1>2. CASE StartSubstrate
  BY <1>2 DEF StartSubstrate, vars, owner, checks, smoke, processes, Goes
<1>3. CASE ResolveRoute
  BY <1>3 DEF ResolveRoute, vars, owner, checks, smoke, processes, Goes
<1>4. CASE StartBackend
  BY <1>4 DEF StartBackend, vars, owner, checks, smoke, processes, Goes, SameFe
<1>5. CASE BindBackend
  BY <1>5 DEF BindBackend, vars, owner, checks, smoke, processes, Goes
<1>6. CASE ConfirmFe
  BY <1>6 DEF ConfirmFe, vars, owner, checks, smoke, processes, Goes, SameFe
<1>7. CASE Answer
  BY <1>7 DEF Answer, vars, owner, checks, smoke, processes, Goes
<1>8. CASE ConfirmBoth
  BY <1>8 DEF ConfirmBoth, vars, owner, checks, smoke, processes, Goes, SameFe, SameBe
<1>9. CASE Attest
  BY <1>9 DEF Attest, vars, owner, checks, smoke, processes, Goes
<1>10. CASE StartDriver
  BY <1>10 DEF StartDriver, vars, owner, checks, smoke, processes, Goes
<1>11. CASE DriverReturns
  BY <1>11 DEF DriverReturns, vars, owner, checks, smoke, processes, Goes
<1>12. CASE DriverReturnsFailed
  BY <1>12 DEF DriverReturnsFailed, vars, owner, checks, smoke, processes, Goes
<1>13. CASE Verify
  BY <1>13 DEF Verify, vars, owner, checks, smoke, processes, Goes
<1>14. CASE ConfirmAfter
  BY <1>14 DEF ConfirmAfter, vars, owner, checks, smoke, processes, Goes, SameFe, SameBe
<1>15. CASE VerifyAgain
  BY <1>15 DEF VerifyAgain, vars, owner, checks, smoke, processes, Goes
<1>16. CASE WriteResult
  BY <1>16 DEF WriteResult, vars, owner, checks, smoke, processes, Goes
<1>17. CASE Return
  BY <1>17 DEF Return, vars, owner, checks, smoke, processes, Goes
<1>18. CASE Fail
  BY <1>18 DEF Fail, vars, owner, checks, smoke, processes
<1>19. CASE Stopped
  BY <1>19 DEF Stopped, vars, owner, checks, smoke, processes, Goes
<1>20. CASE KillGroup
  BY <1>20 DEF KillGroup, vars, owner, checks, smoke, processes, Goes
<1>21. CASE FailClosed
  BY <1>21 DEF FailClosed, vars, owner, checks, smoke, processes, Goes
<1>22. CASE RetractAttested
  BY <1>22 DEF RetractAttested, vars, owner, checks, smoke, processes, Goes, History
<1>23. CASE RetractProof
  BY <1>23 DEF RetractProof, vars, owner, checks, smoke, processes, Goes, History
<1>24. CASE WriteFailure
  BY <1>24 DEF WriteFailure, vars, owner, checks, smoke, processes, Goes
<1>25. CASE InitLedger
  <2>1. \A i \in 1..N : NoLedger.rows[i] = "none" BY DEF NoLedger
  <2>2. ledger' = ledger \/ ledger'.rows = NoLedger.rows BY <1>25 DEF InitLedger
  <2>3. \A i \in 1..N : ledger'.rows[i] = "passed" => i \in right BY <2>1, <2>2
  <2>4. check' \in {"ok", "bad"} BY <1>25 DEF InitLedger, Checked
  <2>5. UNCHANGED <<driver, lone, right, held>> BY <1>25 DEF InitLedger, Checked
  <2>6. driver = "running" BY <1>25 DEF InitLedger, Idle
  <2> QED BY <2>3, <2>4, <2>5, <2>6
<1>26. CASE Observe
  <2>1. PICK o \in Observations[Required[case]] :
          /\ right' = IF o.right THEN right \cup {case} ELSE right
          /\ IF o.as # "raises" /\ ledger.status = "checking" /\ ledger.rows[case] = "none"
             THEN (\E outcome \in OutcomesOf(o) : held' = Recorded(outcome)) /\ Checked("record")
             ELSE UNCHANGED held /\ Checked("bad")
    BY <1>26, Zenon DEF Observe
  <2>2. o.as \in Judgements /\ (o.as = "passed" => o.right) BY <1>26, CaseIsCase, PassedIsRight DEF Observe
  <2>3. right \subseteq right' /\ case \in 1..N BY <1>26, <2>1 DEF Observe
  <2>4. UNCHANGED <<ledger, driver, lone>> /\ driver = "running" BY <1>26, <2>1 DEF Observe, Checked, Idle
  <2>5. CASE held' = held /\ check' = "bad" BY <2>3, <2>4, <2>5
  <2>6. CASE o.as # "raises" /\ ledger.status = "checking" /\ check' = "record"
             /\ \E outcome \in OutcomesOf(o) : held' = Recorded(outcome)
    <3>1. PICK outcome \in OutcomesOf(o) : held' = Recorded(outcome) BY <2>6
    <3>2. outcome \in Outcomes /\ (outcome = "passed" => o.as = "passed")
      BY <2>2, <2>6, <3>1 DEF Judgements, OutcomesOf, Outcomes
    <3>3. \A i \in 1..N : held'.rows[i] = IF i = case THEN outcome ELSE ledger.rows[i]
      BY <2>3, <3>1, <3>2, RecordedIs
    <3>4. \A i \in 1..N : held'.rows[i] = "passed" => i \in right'
      BY <2>1, <2>2, <2>3, <3>2, <3>3
    <3> QED BY <2>3, <2>4, <2>6, <3>4
  <2> QED BY <2>1, <2>5, <2>6 DEF Checked
<1>27. CASE WriteRecord
  BY <1>27 DEF WriteRecord, vars, owner, checks, smoke, processes, Checked
<1>28. CASE Finish
  <2>1. held'.rows = ledger.rows \/ held' = held BY <1>28, FinishIs
  <2> QED BY <1>28, <2>1 DEF Finish, Idle, Checked
<1>29. CASE WriteFinished
  BY <1>29 DEF WriteFinished, vars, owner, checks, smoke, processes, Checked
<1>30. CASE WriteProof
  BY <1>30 DEF WriteProof, vars, owner, checks, smoke, processes, Checked
<1>31. CASE NextCase
  BY <1>31 DEF NextCase, vars, owner, checks, smoke, processes
<1>32. CASE DriverEnds
  BY <1>32 DEF DriverEnds, vars, owner, checks, smoke, processes
<1>33. CASE DriverFails
  BY <1>33 DEF DriverFails, vars, owner, checks, smoke, processes
<1>34. CASE Abort
  <2>1. ledger'.rows = ledger.rows BY <1>34, AbortIs
  <2> QED BY <1>34, <2>1 DEF Abort
<1>35. CASE Interrupt
  BY <1>35 DEF Interrupt, vars, owner, checks, smoke, processes, EndsGroup
<1>36. CASE Kill
  BY <1>36 DEF Kill, vars, owner, checks, smoke, processes
<1>37. CASE LoneShell
  BY <1>37 DEF LoneShell, vars, owner, checks, smoke, processes
<1>38. CASE Around
  BY <1>38 DEF Around, vars, owner, checks, smoke, processes, FeRestarts, BeRestarts, RouteEdited
<1>39. CASE UNCHANGED vars
  BY <1>39 DEF vars, owner, checks, smoke, processes
<1> QED
  BY <1>1, <1>2, <1>3, <1>4, <1>5, <1>6, <1>7, <1>8, <1>9, <1>10, <1>11, <1>12, <1>13, <1>14, <1>15, <1>16, <1>17, <1>18, <1>19, <1>20,
     <1>21, <1>22, <1>23, <1>24, <1>25, <1>26, <1>27, <1>28, <1>29, <1>30, <1>31, <1>32, <1>33, <1>34, <1>35, <1>36, <1>37, <1>38, <1>39
  DEF Next, OwnerStep, DriverStep

(* The owner reports what it verified.                                     *)
LEMMA OwnerKept == IInv /\ [Next]_vars => Owned'
<1> SUFFICES ASSUME IInv, [Next]_vars PROVE Owned'
  OBVIOUS
<1> USE NIsPositive DEF IInv, TypeOK, Kept, CheckOfShell, Owned, DriverWaited, Reported, Verified, Certified, Retracted, RouteKept, SeenBetween, verify_completed, validate_ledger, Early, Succeeding, Attesting, Resolved, Body, Reporting, Handler
<1>1. CASE PlanRoute
  BY <1>1 DEF PlanRoute, vars, owner, checks, smoke, processes, Goes
<1>2. CASE StartSubstrate
  BY <1>2 DEF StartSubstrate, vars, owner, checks, smoke, processes, Goes
<1>3. CASE ResolveRoute
  BY <1>3 DEF ResolveRoute, vars, owner, checks, smoke, processes, Goes
<1>4. CASE StartBackend
  BY <1>4 DEF StartBackend, vars, owner, checks, smoke, processes, Goes, SameFe
<1>5. CASE BindBackend
  BY <1>5 DEF BindBackend, vars, owner, checks, smoke, processes, Goes
<1>6. CASE ConfirmFe
  BY <1>6 DEF ConfirmFe, vars, owner, checks, smoke, processes, Goes, SameFe
<1>7. CASE Answer
  BY <1>7 DEF Answer, vars, owner, checks, smoke, processes, Goes
<1>8. CASE ConfirmBoth
  BY <1>8 DEF ConfirmBoth, vars, owner, checks, smoke, processes, Goes, SameFe, SameBe
<1>9. CASE Attest
  BY <1>9 DEF Attest, vars, owner, checks, smoke, processes, Goes
<1>10. CASE StartDriver
  BY <1>10 DEF StartDriver, vars, owner, checks, smoke, processes, Goes
<1>11. CASE DriverReturns
  BY <1>11 DEF DriverReturns, vars, owner, checks, smoke, processes, Goes
<1>12. CASE DriverReturnsFailed
  BY <1>12 DEF DriverReturnsFailed, vars, owner, checks, smoke, processes, Goes
<1>13. CASE Verify
  BY <1>13 DEF Verify, vars, owner, checks, smoke, processes, Goes
<1>14. CASE ConfirmAfter
  BY <1>14 DEF ConfirmAfter, vars, owner, checks, smoke, processes, Goes, SameFe, SameBe
<1>15. CASE VerifyAgain
  BY <1>15 DEF VerifyAgain, vars, owner, checks, smoke, processes, Goes
<1>16. CASE WriteResult
  BY <1>16 DEF WriteResult, vars, owner, checks, smoke, processes, Goes
<1>17. CASE Return
  BY <1>17 DEF Return, vars, owner, checks, smoke, processes, Goes
<1>18. CASE Fail
  BY <1>18 DEF Fail, vars, owner, checks, smoke, processes
<1>19. CASE Stopped
  BY <1>19 DEF Stopped, vars, owner, checks, smoke, processes, Goes
<1>20. CASE KillGroup
  BY <1>20 DEF KillGroup, vars, owner, checks, smoke, processes, Goes
<1>21. CASE FailClosed
  BY <1>21 DEF FailClosed, vars, owner, checks, smoke, processes, Goes
<1>22. CASE RetractAttested
  BY <1>22 DEF RetractAttested, vars, owner, checks, smoke, processes, Goes, History
<1>23. CASE RetractProof
  BY <1>23 DEF RetractProof, vars, owner, checks, smoke, processes, Goes, History
<1>24. CASE WriteFailure
  BY <1>24 DEF WriteFailure, vars, owner, checks, smoke, processes, Goes
<1>25. CASE InitLedger
  BY <1>25 DEF InitLedger, vars, owner, checks, smoke, processes, Idle, Checked, NoLedger
<1>26. CASE Observe
  BY <1>26 DEF Observe, vars, owner, checks, smoke, processes, Idle, Checked
<1>27. CASE WriteRecord
  BY <1>27 DEF WriteRecord, vars, owner, checks, smoke, processes, Checked
<1>28. CASE Finish
  BY <1>28 DEF Finish, vars, owner, checks, smoke, processes, Idle, Checked
<1>29. CASE WriteFinished
  BY <1>29 DEF WriteFinished, vars, owner, checks, smoke, processes, Checked
<1>30. CASE WriteProof
  BY <1>30 DEF WriteProof, vars, owner, checks, smoke, processes, Checked
<1>31. CASE NextCase
  BY <1>31 DEF NextCase, vars, owner, checks, smoke, processes
<1>32. CASE DriverEnds
  BY <1>32 DEF DriverEnds, vars, owner, checks, smoke, processes
<1>33. CASE DriverFails
  BY <1>33 DEF DriverFails, vars, owner, checks, smoke, processes
<1>34. CASE Abort
  BY <1>34 DEF Abort, vars, owner, checks, smoke, processes
<1>35. CASE Interrupt
  BY <1>35 DEF Interrupt, vars, owner, checks, smoke, processes, EndsGroup
<1>36. CASE Kill
  BY <1>36 DEF Kill, vars, owner, checks, smoke, processes
<1>37. CASE LoneShell
  BY <1>37 DEF LoneShell, vars, owner, checks, smoke, processes
<1>38. CASE Around
  BY <1>38 DEF Around, vars, owner, checks, smoke, processes, FeRestarts, BeRestarts, RouteEdited
<1>39. CASE UNCHANGED vars
  BY <1>39 DEF vars, owner, checks, smoke, processes
<1> QED
  BY <1>1, <1>2, <1>3, <1>4, <1>5, <1>6, <1>7, <1>8, <1>9, <1>10, <1>11, <1>12, <1>13, <1>14, <1>15, <1>16, <1>17, <1>18, <1>19, <1>20,
     <1>21, <1>22, <1>23, <1>24, <1>25, <1>26, <1>27, <1>28, <1>29, <1>30, <1>31, <1>32, <1>33, <1>34, <1>35, <1>36, <1>37, <1>38, <1>39
  DEF Next, OwnerStep, DriverStep

-----------------------------------------------------------------------------
(* THE THEOREMS                                                            *)
LEMMA InitIInv == Init => IInv
<1> SUFFICES ASSUME Init PROVE IInv
  OBVIOUS
<1> USE NIsPositive, NoLedgerIsLedger
<1>1. TypeOK
  <2>1. ledger \in LedgerRecord /\ held \in LedgerRecord /\ right \subseteq 1..N BY DEF Init
  <2>2. proof \in [at: {"none", "current", "history"}, of: LedgerRecord] BY DEF Init
  <2>3. MaxProcess \in Nat \ {0} /\ MaxRoute \in Nat \ {0} /\ MaxSignals \in Nat BY SmokeAssumption
  <2>4. step \in Steps BY DEF Init, Steps, Body
  <2>5. case \in 0..N + 1 /\ seen \subseteq (1..MaxProcess) \X (1..MaxProcess) BY DEF Init
  <2>6. /\ signals \in 0..MaxSignals /\ {fe, be} \subseteq 1..MaxProcess
        /\ {newFe, boundBe} \subseteq 0..MaxProcess
        /\ route \in 1..MaxRoute /\ {planned, served, target} \subseteq 0..MaxRoute
    BY <2>3 DEF Init
  <2>7. /\ exit \in {"none", "0", "1"} /\ attested \in {"none", "current", "history"}
        /\ result \in {"none", "passed", "failed"}
        /\ driver \in {"none", "running", "trap", "ok", "failed"}
        /\ check \in {"none", "record", "finish", "prove", "ok", "bad"}
    BY DEF Init
  <2>8. lone \in BOOLEAN BY DEF Init
  <2> QED BY <2>1, <2>2, <2>4, <2>5, <2>6, <2>7, <2>8, Zenon DEF TypeOK
<1>2. \A i \in 1..N : NoLedger.rows[i] = "none" BY DEF NoLedger
<1>3. Kept
  BY <1>2 DEF Init, Kept, EvidenceTrue, HeldTrue, LedgerOpen, CheckOfShell
<1>4. DriverWaited /\ Reported /\ Verified /\ Certified /\ Retracted /\ RouteKept
  BY DEF Init, DriverWaited, Reported, Verified, Certified, Retracted, RouteKept, Early, Succeeding, Attesting, Resolved
<1>5. SeenBetween BY DEF Init, SeenBetween, Early, Attesting, Succeeding
<1> QED BY <1>1, <1>3, <1>4, <1>5 DEF IInv, Owned

LEMMA Invariance == Spec => []IInv
<1>1. IInv /\ [Next]_vars => IInv'
  BY TypeKept, EvidenceKept, OwnerKept DEF IInv
<1> QED BY <1>1, InitIInv, PTL DEF Spec

(* The state of a smoke, its owner's and the files it leaves, has its type *)
(* whatever ends it, and the ledger one row for each required case.        *)
THEOREM SmokeTypes == Spec => []TypeOK
<1>1. IInv => TypeOK BY DEF IInv
<1> QED BY <1>1, Invariance, PTL

(* run() returns only what verify_completed found twice, under a claim or  *)
(* not: exit code 0 means a closed ledger of passed cases, its receipt,    *)
(* and the substrate that deploy started.                                  *)
THEOREM SuccessWhole == Spec => []SuccessIsWhole
<1>1. IInv => SuccessIsWhole
  BY DEF IInv, Kept, Owned, Reported, Verified, Certified, RouteKept, SuccessIsWhole, verify_completed, validate_ledger
<1> QED BY <1>1, Invariance, PTL

(* confirm_services after the driver leaves no restart of the FE or the BE *)
(* unseen: the processes only follow each other, so if those attested      *)
(* still run, nobody else can have answered in between.                    *)
THEOREM OneDeploymentSeen == Spec => []OneDeployment
<1>1. IInv => OneDeployment BY DEF IInv, Owned, SeenBetween, OneDeployment
<1> QED BY <1>1, Invariance, PTL

(* What record writes as passed was so, and no later check, trap or rival  *)
(* write of the ledger makes a passed row of one that was not.             *)
THEOREM EvidenceIsTrue == Spec => []EvidenceTrue
<1>1. IInv => EvidenceTrue BY DEF IInv, Kept
<1> QED BY <1>1, Invariance, PTL

(* The handler of run() leaves nothing current behind a reported failure,  *)
(* since the driver and its check process have ended before it runs.       *)
THEOREM FailureRetracted == Spec => []FailureRetracts
<1>1. IInv => FailureRetracts BY DEF IInv, Owned, Retracted, FailureRetracts
<1> QED BY <1>1, Invariance, PTL

(* record and finish take the ledger for open before they write it, and a  *)
(* shell has one check process at a time: no failure is overwritten.       *)
THEOREM FailureStays == Spec => FailedStays
<1> DEFINE Said(l) == l.status \in {"failed", "expected_failure"}
<1>1. IInv /\ [Next]_vars => (Said(ledger) /\ ~lone => Said(ledger'))
  <2> SUFFICES ASSUME IInv, [Next]_vars, Said(ledger), ~lone PROVE Said(ledger')
    OBVIOUS
  <2>1. ledger \in LedgerRecord BY DEF IInv, TypeOK
  <2>2. CASE InitLedger BY <2>2 DEF InitLedger
  <2>3. CASE WriteRecord \/ WriteFinished
    BY <2>3 DEF WriteRecord, WriteFinished, IInv, Kept, LedgerOpen
  <2>4. CASE Abort
    <3>1. CASE ledger' = [ledger EXCEPT !.status = "failed"]
      <4>1. ledger'.status = "failed" BY <2>1, <3>1, StatusIs DEF Outcomes
      <4> QED BY <4>1
    <3> QED BY <2>4, <3>1 DEF Abort
  <2>5. CASE UNCHANGED ledger BY <2>5
  <2>6. Observe \/ Finish \/ WriteProof \/ NextCase \/ DriverEnds \/ DriverFails => UNCHANGED ledger
    BY DEF Observe, Finish, WriteProof, NextCase, DriverEnds, DriverFails
  <2>7. OwnerStep => UNCHANGED ledger
    BY DEF OwnerStep, PlanRoute, StartSubstrate, ResolveRoute, StartBackend, BindBackend, ConfirmFe,
           Answer, ConfirmBoth, Attest, StartDriver, DriverReturns, DriverReturnsFailed, Verify,
           ConfirmAfter, VerifyAgain, WriteResult, Return, Fail, Stopped, KillGroup, FailClosed,
           RetractAttested, RetractProof, WriteFailure, smoke, checks
  <2>8. Interrupt \/ Kill \/ LoneShell \/ Around \/ UNCHANGED vars => UNCHANGED ledger
    BY DEF Interrupt, Kill, LoneShell, Around, vars, smoke, checks
  <2> QED BY <2>2, <2>3, <2>4, <2>5, <2>6, <2>7, <2>8 DEF Next, DriverStep
<1>2. IInv /\ [Next]_vars =>
        [ledger.status \in {"failed", "expected_failure"} /\ ~lone =>
           ledger'.status \in {"failed", "expected_failure"}]_vars
  BY <1>1
<1> QED BY <1>2, Invariance, PTL DEF Spec, FailedStays
-----------------------------------------------------------------------------
(* HOW AN INTERRUPTED OWNER ENDS                                           *)
(* After a signal it is on its way out, and the driver that it waits for   *)
(* meanwhile has ended or is in its trap, where it may be killed.          *)
Leaving == {"stopping", "failing", "ended", "killed"} \cup Handler
SignalObeyed == signals > 0 => step \in Leaving
DriverTold == step \in {"smoking", "stopping"} => driver # "none"
DriverAnswers == step = "stopping" => driver \in {"trap", "ok", "failed"}

(* The steps that are left to it, at most.                                 *)
Due == CASE step = "stopping" -> 5 [] step = "failing" -> 4 [] step = "retracting" -> 3
         [] step = "retracted" -> 2 [] step = "reporting" -> 1 [] OTHER -> 0

LEMMA SignalStep ==
  ASSUME IInv, SignalObeyed, DriverTold, [Next]_vars
  PROVE  SignalObeyed' /\ DriverTold'
<1> USE DEF IInv, TypeOK, Owned, DriverWaited, SignalObeyed, DriverTold, Leaving, Handler, Body, Reporting, Goes
<1>1. CASE PlanRoute \/ StartSubstrate \/ ResolveRoute \/ StartBackend \/ BindBackend \/ ConfirmFe
  BY <1>1 DEF PlanRoute, StartSubstrate, ResolveRoute, StartBackend, BindBackend, ConfirmFe
<1>2. CASE Answer \/ ConfirmBoth \/ Attest \/ StartDriver \/ DriverReturns \/ DriverReturnsFailed
  BY <1>2 DEF Answer, ConfirmBoth, Attest, StartDriver, DriverReturns, DriverReturnsFailed
<1>3. CASE Verify \/ ConfirmAfter \/ VerifyAgain \/ WriteResult \/ Return \/ Fail
  BY <1>3 DEF Verify, ConfirmAfter, VerifyAgain, WriteResult, Return, Fail
<1>4. CASE Stopped \/ KillGroup \/ FailClosed \/ RetractAttested \/ RetractProof \/ WriteFailure
  BY <1>4 DEF Stopped, KillGroup, FailClosed, RetractAttested, RetractProof, WriteFailure
<1>5. CASE DriverStep
  <2>1. /\ UNCHANGED <<step, signals>>
        /\ driver' = driver \/ (driver = "running" /\ driver' \in {"ok", "trap"})
           \/ (driver = "trap" /\ driver' = "failed")
    BY <1>5 DEF DriverStep, InitLedger, Observe, WriteRecord, Finish, WriteFinished, WriteProof,
                NextCase, DriverEnds, DriverFails, Abort, Checked, Idle
  <2> QED
    BY <2>1
<1>6. CASE Interrupt
  <2>1. CASE step = "smoking"
    <3>1. step' = "stopping" /\ driver # "none" /\ driver' \in {"trap", "failed", driver}
      BY <1>6, <2>1 DEF Interrupt, EndsGroup
    <3> QED
      BY <3>1
  <2>2. CASE step # "smoking"
    BY <1>6, <2>2 DEF Interrupt
  <2> QED
    BY <2>1, <2>2
<1>7. CASE Kill \/ LoneShell
  BY <1>7 DEF Kill, LoneShell
<1>8. CASE Around \/ UNCHANGED vars
  BY <1>8 DEF Around, vars, smoke
<1> QED
  BY <1>1, <1>2, <1>3, <1>4, <1>5, <1>6, <1>7, <1>8 DEF Next, OwnerStep

LEMMA Signalled == Spec => [](IInv /\ SignalObeyed /\ DriverTold)
<1>1. Init => SignalObeyed /\ DriverTold
  BY DEF Init, SignalObeyed, DriverTold
<1>2. IInv /\ SignalObeyed /\ DriverTold /\ [Next]_vars => SignalObeyed' /\ DriverTold'
  BY SignalStep
<1> QED
  BY <1>1, <1>2, Invariance, PTL DEF Spec

(* A signal is never ignored: the owner is on its way out from then on,    *)
(* and never waits for a driver that neither ended nor may be killed.      *)
THEOREM SignalsObeyed == Spec => [](SignalObeyed /\ DriverAnswers)
<1>1. IInv /\ DriverTold => DriverAnswers
  BY DEF IInv, TypeOK, Owned, DriverWaited, DriverTold, DriverAnswers
<1> QED
  BY <1>1, Signalled, PTL

(* Once it has a signal, every step of the owner brings it nearer to its   *)
(* end, and nothing takes it back: at most five are left to it.            *)
SignalledEnds == [][signals > 0 => Due' <= Due /\ (OwnerStep => Due' < Due)]_vars
THEOREM SignalsEnd == Spec => SignalledEnds
<1> USE DEF Due, SignalObeyed, Leaving, Handler, Body, Reporting, Goes
<1>1. ASSUME SignalObeyed, signals > 0, OwnerStep
      PROVE  Due' < Due
  <2>1. /\ step \in {"stopping", "failing", "retracting", "retracted", "reporting"}
        /\ \/ step = "stopping" /\ step' = "failing"
           \/ step = "failing" /\ step' = "retracting"
           \/ step = "retracting" /\ step' = "retracted"
           \/ step = "retracted" /\ step' = "reporting"
           \/ step = "reporting" /\ step' = "ended"
    BY <1>1 DEF OwnerStep, PlanRoute, StartSubstrate, ResolveRoute, StartBackend, BindBackend, ConfirmFe,
                Answer, ConfirmBoth, Attest, StartDriver, DriverReturns, DriverReturnsFailed, Verify,
                ConfirmAfter, VerifyAgain, WriteResult, Return, Fail, Stopped, KillGroup, FailClosed,
                RetractAttested, RetractProof, WriteFailure
  <2> QED
    BY <2>1
<1>2. ASSUME SignalObeyed, signals > 0, DriverStep \/ Interrupt \/ Kill \/ LoneShell \/ Around
      PROVE  Due' <= Due
  <2>1. CASE DriverStep \/ LoneShell \/ Around
    <3>1. step' = step
      BY <2>1 DEF DriverStep, InitLedger, Observe, WriteRecord, Finish, WriteFinished, WriteProof,
                  NextCase, DriverEnds, DriverFails, Abort, Checked, LoneShell, Around
    <3> QED
      BY <3>1
  <2>2. CASE Interrupt \/ Kill
    <3>1. \/ step \in {"stopping", "failing"} /\ step' = "failing"
          \/ step' \in {"ended", "killed"}
      BY <1>2, <2>2 DEF Interrupt, Kill
    <3> QED
      BY <3>1
  <2> QED
    BY <1>2, <2>1, <2>2
<1>3. SignalObeyed /\ [Next]_vars
        => [signals > 0 => Due' <= Due /\ (OwnerStep => Due' < Due)]_vars
  <2> SUFFICES ASSUME SignalObeyed, [Next]_vars, vars' # vars, signals > 0
               PROVE  Due' <= Due /\ (OwnerStep => Due' < Due)
    OBVIOUS
  <2>1. OwnerStep => Due' <= Due /\ Due' < Due
    <3>1. Due \in Nat /\ Due' \in Nat
      OBVIOUS
    <3> HIDE DEF Due
    <3> QED
      BY <1>1, <3>1
  <2> HIDE DEF Due
  <2> QED
    BY <1>2, <2>1 DEF Next
<1> QED
  BY <1>3, Signalled, PTL DEF Spec, SignalledEnds

=============================================================================
