-------------------------- MODULE InsertTransaction --------------------------
(***************************************************************************)
(* INSERT: DuckLakeConnectorTransaction with the write plan that binds it. *)
(* The engine opens a transaction, planWrite binds the target and the sink *)
(* the backends write by, the backends write files and report a fragment   *)
(* for each, from several threads, and the engine calls commit, which hands*)
(* all fragments to the catalog in one call, or rollback.  The catalog may *)
(* apply a commit whose caller sees only an exception.                     *)
(***************************************************************************)
EXTENDS Integers

CONSTANTS
  Stmts,       \* INSERT statements
  Output,      \* Output[s]: the files the backends write for s
  MaxVersion   \* bound on the changes of the table's definition

Files == UNION {Output[s] : s \in Stmts}

(* The backends name every file anew.                                      *)
ASSUME OutputAssumption ==
  \A s, t \in Stmts : s # t => Output[s] \cap Output[t] = {}
ASSUME VersionAssumption == MaxVersion \in Nat

VARIABLES
  version,  \* the table's definition: schema and partition spec
  store,    \* the files in the object store
  layout,   \* layout[f]: the definition f was written by
  rows,     \* rows[f]: how many data file rows the catalog has for f
  stamp,    \* stamp[f]: the partition id in them
  phase,    \* phase[s]: where the engine is with s
  pin,      \* pin[s]: the definition at the handle's snapshot
  target,   \* target[s]: the definition bound to the transaction; -1 for none
  data,     \* data[s][f]: how often f is in commitData
  reported, \* reported[s]: the files whose addCommitData has returned
  request,  \* request[s]: what became of the commitInsert of s
  batch,    \* batch[s]: the fragments commitInsert was called with
  told      \* told[s]: what the client of s was told

table == <<version, rows, stamp>>
output == <<store, layout, reported>>
vars == <<table, output, phase, pin, target, data, request, batch, told>>

None == [f \in Files |-> 0]

TypeOK ==
  /\ version \in 0..MaxVersion
  /\ store \in SUBSET Files
  /\ layout \in [Files -> 0..MaxVersion]
  /\ rows \in [Files -> Nat]
  /\ stamp \in [Files -> 0..MaxVersion]
  /\ phase \in [Stmts -> {"new", "begun", "bound", "committing", "throwing", "over"}]
  /\ pin \in [Stmts -> 0..MaxVersion]
  /\ target \in [Stmts -> (0..MaxVersion) \cup {-1}]
  /\ data \in [Stmts -> [Files -> Nat]]
  /\ reported \in [Stmts -> SUBSET Files]
  /\ request \in [Stmts -> {"none", "sent", "applied", "refused"}]
  /\ batch \in [Stmts -> [Files -> Nat]]
  /\ told \in [Stmts -> {"open", "ok", "failed", "doubt"}]

Init ==
  /\ version = 0
  /\ store = {} /\ layout = None /\ rows = None /\ stamp = None
  /\ phase = [s \in Stmts |-> "new"]
  /\ pin = [s \in Stmts |-> 0]
  /\ target = [s \in Stmts |-> -1]
  /\ data = [s \in Stmts |-> None]
  /\ reported = [s \in Stmts |-> {}]
  /\ request = [s \in Stmts |-> "none"]
  /\ batch = [s \in Stmts |-> None]
  /\ told = [s \in Stmts |-> "open"]

-----------------------------------------------------------------------------
(* DDL of any engine.                                                      *)
ChangeTable ==
  /\ version < MaxVersion
  /\ version' = version + 1
  /\ UNCHANGED <<rows, stamp, output, phase, pin, target, data, request, batch, told>>

At(s, p) == phase[s] = p
Moves(s, p) == phase' = [phase EXCEPT ![s] = p]

(* beginTransaction, with the table handle the statement resolved.         *)
Begin(s) ==
  /\ At(s, "new") /\ Moves(s, "begun")
  /\ pin' = [pin EXCEPT ![s] = version]
  /\ UNCHANGED <<table, output, target, data, request, batch, told>>

(* A mutant of PlanWrite: the target is bound to the latest definition.    *)
PlanLatest(s) ==
  /\ At(s, "begun") /\ Moves(s, "bound")
  /\ target' = [target EXCEPT ![s] = version]
  /\ UNCHANGED <<table, output, pin, data, request, batch, told>>
PlanWrite(s) ==
  /\ At(s, "begun") /\ Moves(s, "bound")
  /\ target' = [target EXCEPT ![s] = pin[s]]
  /\ UNCHANGED <<table, output, pin, data, request, batch, told>>

(* A backend writes by its sink, which planWrite built at the pin.  It may *)
(* go on after the statement was given up.                                 *)
WriteFile(s, f) ==
  /\ target[s] # -1 /\ f \in Output[s] \ store
  /\ store' = store \cup {f}
  /\ layout' = [layout EXCEPT ![f] = pin[s]]
  /\ UNCHANGED <<table, phase, pin, target, data, reported, request, batch, told>>

(* Of several unsynchronized adds one overwrites what another has added:   *)
(* a mutant of AddCommitData.                                              *)
AddUnlocked(s, f) ==
  /\ f \in (Output[s] \cap store) \ reported[s]
  /\ \E g \in Files : data' = [data EXCEPT ![s][g] = 0, ![s][f] = data[s][f] + 1]
  /\ reported' = [reported EXCEPT ![s] = @ \cup {f}]
  /\ UNCHANGED <<table, store, layout, phase, pin, target, request, batch, told>>
AddCommitData(s, f) ==
  /\ f \in (Output[s] \cap store) \ reported[s]
  /\ data' = [data EXCEPT ![s][f] = @ + 1]
  /\ reported' = [reported EXCEPT ![s] = @ \cup {f}]
  /\ UNCHANGED <<table, store, layout, phase, pin, target, request, batch, told>>

-----------------------------------------------------------------------------
(* The engine calls commit when every backend has reported.  Without any   *)
(* fragment there is nothing to ask of the catalog.                        *)
Commit(s) ==
  /\ At(s, "bound") /\ reported[s] = Output[s]
  /\ IF data[s] = None
     THEN /\ Moves(s, "over") /\ told' = [told EXCEPT ![s] = "ok"]
          /\ UNCHANGED <<request, batch>>
     ELSE /\ Moves(s, "committing") /\ request' = [request EXCEPT ![s] = "sent"]
          /\ batch' = [batch EXCEPT ![s] = data[s]]
          /\ UNCHANGED told
  /\ UNCHANGED <<table, output, pin, target, data>>

(* The catalog adds a row for each fragment, in one transaction.           *)
CatalogApplies(s) ==
  /\ request[s] = "sent"
  /\ rows' = [f \in Files |-> rows[f] + batch[s][f]]
  /\ stamp' = [f \in Files |-> IF batch[s][f] > 0 THEN target[s] ELSE stamp[f]]
  /\ request' = [request EXCEPT ![s] = "applied"]
  /\ UNCHANGED <<version, output, phase, pin, target, data, batch, told>>
CatalogRefuses(s) ==
  /\ request[s] = "sent"
  /\ request' = [request EXCEPT ![s] = "refused"]
  /\ UNCHANGED <<table, output, phase, pin, target, data, batch, told>>

CommitReturns(s) ==
  /\ At(s, "committing") /\ request[s] = "applied"
  /\ Moves(s, "over") /\ told' = [told EXCEPT ![s] = "ok"]
  /\ UNCHANGED <<table, output, pin, target, data, request, batch>>

(* A mutant of Throw: a commit that throws is tried again.                 *)
ThrowRetried(s) ==
  /\ phase[s] \in {"begun", "bound", "committing"}
  /\ Moves(s, IF At(s, "committing") THEN "bound" ELSE "throwing")
  /\ UNCHANGED <<table, output, pin, target, data, request, batch, told>>

(* Planning or a backend fails, or commit throws: before it asks the       *)
(* catalog, because the catalog refused, or because the answer was lost.   *)
Throw(s) ==
  /\ phase[s] \in {"begun", "bound", "committing"}
  /\ Moves(s, "throwing")
  /\ UNCHANGED <<table, output, pin, target, data, request, batch, told>>

(* The catalog's exceptions tell a refusal from an unknown outcome; a      *)
(* mutant, AnswerRaw, does not tell them apart.                            *)
AnswerRaw(s) == told' = [told EXCEPT ![s] = request[s]]
Answer(s) == told' = [told EXCEPT ![s] = IF request[s] \in {"none", "refused"} THEN "failed" ELSE "doubt"]

(* A mutant of Rollback: it deletes the files of its fragments.            *)
RollbackDeleting(s) ==
  /\ At(s, "throwing") /\ Moves(s, "over")
  /\ store' = store \ {f \in Files : data[s][f] > 0}
  /\ data' = [data EXCEPT ![s] = None]
  /\ Answer(s)
  /\ UNCHANGED <<table, layout, reported, pin, target, request, batch>>
Rollback(s) ==
  /\ At(s, "throwing") /\ Moves(s, "over")
  /\ data' = [data EXCEPT ![s] = None]
  /\ Answer(s)
  /\ UNCHANGED <<table, output, pin, target, request, batch>>

(* The front end dies; a commit it sent may still be applied.              *)
Live(s) == phase[s] \notin {"new", "over"}
Crash ==
  /\ phase' = [s \in Stmts |-> IF Live(s) THEN "over" ELSE phase[s]]
  /\ told' = [s \in Stmts |-> IF Live(s) THEN "doubt" ELSE told[s]]
  /\ data' = [s \in Stmts |-> None]
  /\ UNCHANGED <<table, output, pin, target, request, batch>>

-----------------------------------------------------------------------------
Engine(s) ==
  \/ Begin(s) \/ PlanWrite(s) \/ Commit(s) \/ CommitReturns(s) \/ Throw(s) \/ Rollback(s)
Others(s) ==
  \/ \E f \in Output[s] : WriteFile(s, f) \/ AddCommitData(s, f)
  \/ CatalogApplies(s) \/ CatalogRefuses(s)

Next == (\E s \in Stmts : Engine(s) \/ Others(s)) \/ ChangeTable \/ Crash

Spec == Init /\ [][Next]_vars

-----------------------------------------------------------------------------
(* No file is published twice: commit is never retried.                    *)
PublishedOnce == \A f \in Files : rows[f] <= 1

(* A published file is in the store whatever became of its statement:      *)
(* rollback after an unknown outcome must not take the output away.        *)
PublishedKept == \A f \in Files : rows[f] > 0 => f \in store

(* The partition id stamped on a published file is that of the definition  *)
(* by which the backend wrote the file and its partition values.           *)
StampMatchesLayout == \A f \in Files : rows[f] > 0 => stamp[f] = layout[f]

(* The transaction implements AtomicInsert.                                *)
Promise == INSTANCE AtomicInsert WITH
  visible <- [s \in Stmts |-> {f \in Output[s] : rows[f] > 0}]
Atomic == Promise!Spec
=============================================================================
