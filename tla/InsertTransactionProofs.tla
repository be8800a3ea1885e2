---------------------- MODULE InsertTransactionProofs ----------------------
(***************************************************************************)
(* That INSERT publishes the files of a statement once, all together, under*)
(* the partition spec they were written by, and tells its client the truth,*)
(* for any number of statements and files: InsertTransaction implements    *)
(* AtomicInsert.                                                           *)
(***************************************************************************)
EXTENDS InsertTransaction, TLAPS

-----------------------------------------------------------------------------
(* THE INDUCTIVE INVARIANT                                                 *)

(* Until commit, commitData holds each reported file once.                 *)
CountsReported ==
  \A s \in Stmts, f \in Files : phase[s] \in {"new", "begun", "bound"} =>
    data[s][f] = IF f \in reported[s] THEN 1 ELSE 0

(* What is asked of the catalog is each file of the statement once.        *)
BatchComplete ==
  \A s \in Stmts, f \in Files : request[s] # "none" =>
    batch[s][f] = IF f \in Output[s] THEN 1 ELSE 0

(* What the catalog has is what was asked.                                 *)
RowsAsked ==
  \A s \in Stmts : \A f \in Output[s] :
    rows[f] = IF request[s] = "applied" THEN 1 ELSE 0

(* A file is written after planning, reported after it is written, and     *)
(* asked for after it is reported.                                         *)
OutputInOrder ==
  \A s \in Stmts :
    /\ reported[s] \subseteq Output[s] \cap store
    /\ request[s] # "none" => reported[s] = Output[s] /\ Output[s] # {}

(* One definition is pinned, bound, written by and stamped.                *)
OneDefinition ==
  \A s \in Stmts :
    /\ target[s] \in {-1, pin[s]}
    /\ phase[s] \in {"new", "begun"} => target[s] = -1
    /\ request[s] # "none" => target[s] = pin[s]
    /\ phase[s] = "bound" => target[s] = pin[s]
    /\ \A f \in Output[s] : target[s] = -1 => f \notin store
    /\ \A f \in Output[s] : f \in store => layout[f] = pin[s]
    /\ \A f \in Output[s] : rows[f] > 0 => stamp[f] = pin[s]

(* The client is told only when the statement is over, and the truth.      *)
Honest ==
  \A s \in Stmts :
    /\ phase[s] \in {"new", "begun", "bound"} => request[s] = "none"
    /\ phase[s] # "over" => told[s] = "open"
    /\ phase[s] = "over" => told[s] # "open"
    /\ told[s] = "failed" => request[s] \in {"none", "refused"}
    /\ told[s] = "ok" => request[s] = "applied" \/ Output[s] = {}

IInv ==
  TypeOK /\ CountsReported /\ BatchComplete /\ RowsAsked /\ OutputInOrder /\ OneDefinition /\ Honest

-----------------------------------------------------------------------------
(* The file of a statement is a file, and no other statement's.            *)
LEMMA OwnFiles ==
  ASSUME NEW s \in Stmts, NEW f \in Output[s]
  PROVE  f \in Files /\ \A t \in Stmts : f \in Output[t] => t = s
  BY OutputAssumption DEF Files

(* Every file is some statement's.                                         *)
LEMMA FilesOwned == ASSUME NEW f \in Files PROVE \E s \in Stmts : f \in Output[s]
  BY DEF Files

(* Initially nothing is written, bound, asked or published.                *)
LEMMA InitEstablishes == Init => IInv
<1> SUFFICES ASSUME Init PROVE IInv
  OBVIOUS
<1>1. TypeOK
  BY VersionAssumption DEF Init, TypeOK, None
<1>2. CountsReported /\ BatchComplete /\ OutputInOrder /\ Honest
  BY DEF Init, CountsReported, BatchComplete, OutputInOrder, Honest, None
<1>3. RowsAsked /\ OneDefinition
  BY OwnFiles DEF Init, RowsAsked, OneDefinition, None
<1> QED
  BY <1>1, <1>2, <1>3 DEF IInv

-----------------------------------------------------------------------------
(* Every step keeps the invariant.                                         *)
LEMMA StepPreserves == IInv /\ [Next]_vars => IInv'
<1> SUFFICES ASSUME IInv, [Next]_vars PROVE IInv'
  OBVIOUS
<1> USE DEF At, Moves, table, output
<1> USE VersionAssumption
<1>1. ASSUME NEW s \in Stmts, Begin(s) PROVE IInv'
  BY <1>1 DEF IInv, Begin, TypeOK, CountsReported, BatchComplete, RowsAsked, OutputInOrder, OneDefinition, Honest
<1>2. ASSUME NEW s \in Stmts, PlanWrite(s) PROVE IInv'
  BY <1>2 DEF IInv, PlanWrite, TypeOK, CountsReported, BatchComplete, RowsAsked, OutputInOrder, OneDefinition, Honest
<1>3. ASSUME NEW s \in Stmts, Commit(s) PROVE IInv'
  <2>1. \A f \in Files : data[s][f] = IF f \in Output[s] THEN 1 ELSE 0
    BY <1>3 DEF IInv, Commit, CountsReported
  <2>2. data[s] = None <=> Output[s] = {}
    <3>1. data[s] = [f \in Files |-> data[s][f]]
      BY DEF IInv, TypeOK
    <3>2. CASE Output[s] = {}
      BY <2>1, <3>1, <3>2 DEF None
    <3>3. CASE Output[s] # {}
      <4>1. PICK f \in Output[s] : TRUE
        BY <3>3
      <4>2. data[s][f] = 1 /\ None[f] = 0
        BY <2>1, <4>1, OwnFiles DEF None
      <4> QED
        BY <3>3, <4>2
    <3> QED
      BY <3>2, <3>3
  <2>3. /\ phase[s] = "bound" /\ reported[s] = Output[s] /\ request[s] = "none" /\ told[s] = "open"
        /\ UNCHANGED <<table, output, pin, target, data>>
    BY <1>3 DEF IInv, Commit, Honest
  <2>4. CASE data[s] = None
    <3>1. /\ phase' = [phase EXCEPT ![s] = "over"] /\ told' = [told EXCEPT ![s] = "ok"]
          /\ UNCHANGED <<request, batch>>
      BY <1>3, <2>4 DEF Commit
    <3> QED
      BY <2>2, <2>3, <2>4, <3>1
         DEF IInv, TypeOK, CountsReported, BatchComplete, RowsAsked, OutputInOrder, OneDefinition, Honest
  <2>5. CASE data[s] # None
    <3>1. /\ phase' = [phase EXCEPT ![s] = "committing"] /\ request' = [request EXCEPT ![s] = "sent"]
          /\ batch' = [batch EXCEPT ![s] = data[s]] /\ UNCHANGED told
      BY <1>3, <2>5 DEF Commit
    <3>2. TypeOK' /\ CountsReported' /\ BatchComplete' /\ Honest'
      BY <2>1, <2>3, <3>1 DEF IInv, TypeOK, CountsReported, BatchComplete, Honest
    <3>3. RowsAsked' /\ OutputInOrder' /\ OneDefinition'
      BY <2>2, <2>3, <2>5, <3>1 DEF IInv, TypeOK, RowsAsked, OutputInOrder, OneDefinition
    <3> QED
      BY <3>2, <3>3 DEF IInv
  <2> QED
    BY <2>4, <2>5
<1>4. ASSUME NEW s \in Stmts, CommitReturns(s) PROVE IInv'
  BY <1>4 DEF IInv, CommitReturns, TypeOK, CountsReported, BatchComplete, RowsAsked, OutputInOrder, OneDefinition, Honest
<1>5. ASSUME NEW s \in Stmts, Throw(s) PROVE IInv'
  BY <1>5 DEF IInv, Throw, TypeOK, CountsReported, BatchComplete, RowsAsked, OutputInOrder, OneDefinition, Honest
<1>6. ASSUME NEW s \in Stmts, Rollback(s) PROVE IInv'
  BY <1>6 DEF IInv, Rollback, Answer, None, TypeOK, CountsReported, BatchComplete, RowsAsked, OutputInOrder, OneDefinition, Honest
<1>7. ASSUME NEW s \in Stmts, NEW f \in Output[s], WriteFile(s, f) PROVE IInv'
  BY <1>7, OwnFiles DEF IInv, WriteFile, TypeOK, CountsReported, BatchComplete, RowsAsked, OutputInOrder, OneDefinition, Honest
<1>8. ASSUME NEW s \in Stmts, NEW f \in Output[s], AddCommitData(s, f) PROVE IInv'
  BY <1>8, OwnFiles DEF IInv, AddCommitData, TypeOK, CountsReported, BatchComplete, RowsAsked, OutputInOrder, OneDefinition, Honest
<1>9. ASSUME NEW s \in Stmts, CatalogApplies(s) PROVE IInv'
  <2>1. \A f \in Files : batch[s][f] = IF f \in Output[s] THEN 1 ELSE 0
    BY <1>9 DEF IInv, CatalogApplies, BatchComplete
  <2>2. TypeOK'
    <3>1. target[s] \in 0..MaxVersion
      BY <1>9 DEF IInv, CatalogApplies, TypeOK, OneDefinition
    <3>2. rows' \in [Files -> Nat] /\ stamp' \in [Files -> 0..MaxVersion]
      BY <1>9, <3>1 DEF IInv, CatalogApplies, TypeOK
    <3> QED
      BY <1>9, <3>2 DEF IInv, CatalogApplies, TypeOK
  <2>3. RowsAsked'
    <3> SUFFICES ASSUME NEW t \in Stmts, NEW f \in Output[t]
                 PROVE  rows'[f] = IF request'[t] = "applied" THEN 1 ELSE 0
      BY DEF RowsAsked
    <3>1. f \in Files /\ (f \in Output[s] => t = s)
      BY OwnFiles
    <3>2. rows'[f] = rows[f] + batch[s][f]
      BY <1>9, <3>1 DEF CatalogApplies
    <3>3. rows[f] = IF request[t] = "applied" THEN 1 ELSE 0
      BY DEF IInv, RowsAsked
    <3>4. request' = [request EXCEPT ![s] = "applied"] /\ request[s] = "sent" /\ s \in DOMAIN request
      BY <1>9 DEF IInv, CatalogApplies, TypeOK
    <3>5. CASE t = s
      BY <2>1, <3>1, <3>2, <3>3, <3>4, <3>5
    <3>6. CASE t # s
      BY <2>1, <3>1, <3>2, <3>3, <3>4, <3>6 DEF IInv, TypeOK
    <3> QED
      BY <3>5, <3>6
  <2>4. OneDefinition'
    <3> SUFFICES ASSUME NEW t \in Stmts, NEW f \in Output[t], rows'[f] > 0
                 PROVE  stamp'[f] = pin[t]
      BY <1>9 DEF IInv, CatalogApplies, OneDefinition
    <3>1. f \in Files /\ (f \in Output[s] => t = s)
      BY OwnFiles
    <3>2. rows'[f] = rows[f] + batch[s][f] /\ stamp'[f] = IF batch[s][f] > 0 THEN target[s] ELSE stamp[f]
      BY <1>9, <3>1 DEF CatalogApplies
    <3>3. target[s] = pin[s] /\ (rows[f] > 0 => stamp[f] = pin[t])
      BY <1>9 DEF IInv, CatalogApplies, OneDefinition
    <3> QED
      BY <2>1, <3>1, <3>2, <3>3 DEF IInv, TypeOK
  <2>5. CountsReported' /\ BatchComplete' /\ OutputInOrder' /\ Honest'
    BY <1>9 DEF IInv, CatalogApplies, TypeOK, CountsReported, BatchComplete, OutputInOrder, Honest
  <2> QED
    BY <2>2, <2>3, <2>4, <2>5 DEF IInv
<1>10. ASSUME NEW s \in Stmts, CatalogRefuses(s) PROVE IInv'
  BY <1>10 DEF IInv, CatalogRefuses, TypeOK, CountsReported, BatchComplete, RowsAsked, OutputInOrder, OneDefinition, Honest
<1>11. CASE ChangeTable
  BY <1>11 DEF IInv, ChangeTable, TypeOK, CountsReported, BatchComplete, RowsAsked, OutputInOrder, OneDefinition, Honest
<1>12. CASE Crash
  BY <1>12 DEF IInv, Crash, Live, None, TypeOK, CountsReported, BatchComplete, RowsAsked, OutputInOrder, OneDefinition, Honest
<1>13. CASE UNCHANGED vars
  BY <1>13 DEF IInv, vars, TypeOK, CountsReported, BatchComplete, RowsAsked, OutputInOrder, OneDefinition, Honest
<1> QED
  BY <1>1, <1>2, <1>3, <1>4, <1>5, <1>6, <1>7, <1>8, <1>9, <1>10, <1>11, <1>12, <1>13 DEF Next, Engine, Others

LEMMA Invariant == Spec => []IInv
  BY InitEstablishes, StepPreserves, PTL DEF Spec

-----------------------------------------------------------------------------
(* The transaction's state is always of its type.                          *)
THEOREM TypeCorrect == Spec => []TypeOK
<1>1. IInv => TypeOK
  BY DEF IInv
<1> QED
  BY <1>1, Invariant, PTL

(* No file is published twice: commit is never retried, and each fragment  *)
(* is handed to the catalog once.                                          *)
THEOREM NeverPublishedTwice == Spec => []PublishedOnce
<1>1. IInv => PublishedOnce
  BY FilesOwned DEF IInv, RowsAsked, PublishedOnce
<1> QED
  BY <1>1, Invariant, PTL

(* What the catalog has is in the store, whatever the commit's caller saw. *)
THEOREM PublishedStaysInStore == Spec => []PublishedKept
<1>1. IInv => PublishedKept
  <2> SUFFICES ASSUME IInv, NEW f \in Files, rows[f] > 0 PROVE f \in store
    BY DEF PublishedKept
  <2>1. PICK s \in Stmts : f \in Output[s]
    BY FilesOwned
  <2>2. request[s] = "applied"
    BY <2>1 DEF IInv, RowsAsked
  <2> QED
    BY <2>1, <2>2 DEF IInv, OutputInOrder
<1> QED
  BY <1>1, Invariant, PTL

(* A published file carries the partition id it was written by, however    *)
(* often the table was repartitioned meanwhile.                            *)
THEOREM StampIsLayout == Spec => []StampMatchesLayout
<1>1. IInv => StampMatchesLayout
  <2> SUFFICES ASSUME IInv, NEW f \in Files, rows[f] > 0 PROVE stamp[f] = layout[f]
    BY DEF StampMatchesLayout
  <2>1. PICK s \in Stmts : f \in Output[s]
    BY FilesOwned
  <2>2. request[s] = "applied"
    BY <2>1 DEF IInv, RowsAsked
  <2>3. f \in store
    BY <2>1, <2>2 DEF IInv, OutputInOrder
  <2> QED
    BY <2>1, <2>3 DEF IInv, OneDefinition
<1> QED
  BY <1>1, Invariant, PTL

-----------------------------------------------------------------------------
(* THE REFINEMENT                                                          *)
visibleBar == [s \in Stmts |-> {f \in Output[s] : rows[f] > 0}]

(* A statement's files are visible when its commit was applied.            *)
LEMMA VisibleWhenApplied ==
  ASSUME IInv, NEW s \in Stmts
  PROVE  visibleBar[s] = IF request[s] = "applied" THEN Output[s] ELSE {}
  BY DEF IInv, RowsAsked, visibleBar

(* Every step is a step of AtomicInsert or leaves its state alone.         *)
LEMMA StepRefines == IInv /\ IInv' /\ [Next]_vars => [Promise!Next]_(Promise!vars)
<1> SUFFICES ASSUME IInv, IInv', [Next]_vars PROVE Promise!Next \/ UNCHANGED Promise!vars
  OBVIOUS
<1> USE DEF At, Moves, table, output
<1>0. rows' = rows => visibleBar' = visibleBar
  BY DEF visibleBar
<1>1. ASSUME UNCHANGED <<rows, told>> PROVE UNCHANGED Promise!vars
  BY <1>1 DEF Promise!vars
<1>2. ASSUME NEW s \in Stmts, Begin(s) \/ PlanWrite(s) \/ Throw(s) PROVE UNCHANGED Promise!vars
  BY <1>1, <1>2 DEF Begin, PlanWrite, Throw
<1>3. ASSUME NEW s \in Stmts, NEW f \in Output[s], WriteFile(s, f) \/ AddCommitData(s, f)
      PROVE  UNCHANGED Promise!vars
  BY <1>1, <1>3 DEF WriteFile, AddCommitData
<1>4. ASSUME NEW s \in Stmts, Commit(s) \/ CommitReturns(s), told' # told PROVE Promise!Succeed(s)
  <2>1. told[s] = "open" /\ told' = [told EXCEPT ![s] = "ok"] /\ rows' = rows
    BY <1>4 DEF IInv, Honest, Commit, CommitReturns
  <2>2. told'[s] = "ok"
    BY <2>1 DEF IInv, TypeOK
  <2>3. request'[s] = "applied" \/ Output[s] = {}
    BY <2>2 DEF IInv, Honest
  <2>4. visibleBar'[s] = Output[s]
    BY <2>3 DEF IInv, RowsAsked, visibleBar
  <2>5. visibleBar[s] = Output[s]
    BY <1>0, <2>1, <2>4
  <2> QED
    BY <1>0, <2>1, <2>5 DEF Promise!Succeed, Promise!Tell, visibleBar
<1>5. ASSUME NEW s \in Stmts, Commit(s) \/ CommitReturns(s), told' = told PROVE UNCHANGED Promise!vars
  BY <1>1, <1>5 DEF Commit, CommitReturns
<1>6. ASSUME NEW s \in Stmts, Rollback(s) PROVE Promise!Refuse(s) \/ Promise!LeaveInDoubt
  <2>1. told[s] = "open" /\ rows' = rows
    BY <1>6 DEF IInv, Honest, Rollback
  <2>2. CASE request[s] \in {"none", "refused"}
    <3>1. told' = [told EXCEPT ![s] = "failed"]
      BY <1>6, <2>2 DEF Rollback, Answer
    <3>2. visibleBar[s] = {}
      BY <2>2, VisibleWhenApplied
    <3> QED
      BY <1>0, <2>1, <3>1, <3>2 DEF Promise!Refuse, Promise!Tell, visibleBar
  <2>3. CASE request[s] \notin {"none", "refused"}
    <3>1. told' = [told EXCEPT ![s] = "doubt"]
      BY <1>6, <2>3 DEF Rollback, Answer
    <3>2. told' = [t \in Stmts |-> IF t \in {s} THEN "doubt" ELSE told[t]]
      BY <3>1 DEF IInv, TypeOK
    <3>3. {s} \in SUBSET {t \in Stmts : told[t] = "open"}
      BY <2>1
    <3> QED
      BY <1>0, <2>1, <3>2, <3>3 DEF Promise!LeaveInDoubt, visibleBar
  <2> QED
    BY <2>2, <2>3
<1>7. ASSUME NEW s \in Stmts, CatalogApplies(s) PROVE Promise!Publish(s)
  <2>1. request[s] = "sent" /\ request' = [request EXCEPT ![s] = "applied"] /\ told' = told
    BY <1>7 DEF CatalogApplies
  <2>2. told[s] \in {"open", "doubt"}
    BY <2>1 DEF IInv, TypeOK, Honest, OutputInOrder
  <2>3. visibleBar[s] = {}
    BY <2>1, VisibleWhenApplied
  <2>4. visibleBar' = [visibleBar EXCEPT ![s] = Output[s]]
    <3> SUFFICES ASSUME NEW t \in Stmts
                 PROVE  visibleBar'[t] = IF t = s THEN Output[s] ELSE visibleBar[t]
      BY DEF visibleBar
    <3>1. visibleBar'[t] = IF request'[t] = "applied" THEN Output[t] ELSE {}
      BY DEF IInv, RowsAsked, visibleBar
    <3>2. visibleBar[t] = IF request[t] = "applied" THEN Output[t] ELSE {}
      BY VisibleWhenApplied
    <3> QED
      BY <2>1, <3>1, <3>2 DEF IInv, TypeOK
  <2> QED
    BY <2>1, <2>2, <2>3, <2>4 DEF Promise!Publish, visibleBar
<1>8. ASSUME NEW s \in Stmts, CatalogRefuses(s) PROVE UNCHANGED Promise!vars
  BY <1>1, <1>8 DEF CatalogRefuses
<1>9. ASSUME ChangeTable \/ UNCHANGED vars PROVE UNCHANGED Promise!vars
  BY <1>1, <1>9 DEF ChangeTable, vars
<1>10. ASSUME Crash PROVE Promise!LeaveInDoubt
  <2> DEFINE S == {s \in Stmts : Live(s)}
  <2>1. S \in SUBSET {s \in Stmts : told[s] = "open"}
    BY DEF IInv, Honest, Live
  <2>2. told' = [s \in Stmts |-> IF s \in S THEN "doubt" ELSE told[s]] /\ rows' = rows
    BY <1>10 DEF Crash
  <2> QED
    BY <1>0, <2>1, <2>2 DEF Promise!LeaveInDoubt, visibleBar
<1> QED
  BY <1>2, <1>3, <1>4, <1>5, <1>6, <1>7, <1>8, <1>9, <1>10
     DEF Next, Engine, Others, Promise!Next

(* An INSERT keeps the promise of AtomicInsert: all its files at once or   *)
(* none, and a client that is told the truth or left in doubt.             *)
THEOREM ImplementsAtomicInsert == Spec => Atomic
<1>1. Init => Promise!Init
  <2> SUFFICES ASSUME Init PROVE Promise!Init
    OBVIOUS
  <2>1. \A s \in Stmts : {f \in Output[s] : rows[f] > 0} = {}
    <3>1. ASSUME NEW s \in Stmts, NEW f \in Output[s] PROVE ~(rows[f] > 0)
      <4>1. rows[f] = 0
        BY OwnFiles DEF Init, None
      <4> QED
        BY <4>1
    <3> QED
      BY <3>1
  <2> QED
    BY <2>1 DEF Init, Promise!Init
<1> QED
  BY <1>1, Invariant, StepRefines, PTL DEF Spec, Atomic, Promise!Spec
=============================================================================
