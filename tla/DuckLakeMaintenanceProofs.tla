--------------------- MODULE DuckLakeMaintenanceProofs ---------------------
(***************************************************************************)
(* That the maintenance procedures delete no file that can still be read,  *)
(* for any number of files, sessions, queries and snapshots.               *)
(*                                                                         *)
(* Two facts about the world are hypotheses of the theorems that need      *)
(* them.  They are what the retention floor is for; DuckLakeMaintenance    *)
(* does not assume them, and the slow-sweep run shows what happens without *)
(* the first.                                                              *)
(***************************************************************************)
EXTENDS DuckLakeMaintenance, TLAPS

(* A managed file is committed, and a sweep gets from its reference read   *)
(* to its cutoff, within the floor.                                        *)
GraceCoversWriters == WriteBound + SweepBound <= MinRetention

(* No two file ids resolve to one object.                                  *)
DistinctObjects == \A i, j \in Ids : Object(i) = Object(j) => i = j

-----------------------------------------------------------------------------
(* THE INDUCTIVE INVARIANT                                                 *)

(* Nothing can bring file i back, and its grace period is over.            *)
Doomed(i) ==
  /\ st[i] \in {"aborted", "scheduled", "purged"}
  /\ st[i] \in {"scheduled", "purged"} => schedAt[i] + MinRetention < now

(* An object exists from the time it is written until it is deleted.       *)
ObjectsKept ==
  \A i \in Ids :
    /\ st[i] = "unwritten" => modified[Object(i)] = 0
    /\ st[i] \in {"written", "live"} => modified[Object(i)] # 0
    /\ st[i] \in {"scheduled", "purged"} /\ now <= schedAt[i] + MinRetention
         => modified[Object(i)] # 0
    /\ modified[Object(i)] <= now

(* A managed file commits within WriteBound.                               *)
CommitsInTime ==
  \A i \in Ids :
    /\ st[i] \in {"live", "scheduled", "purged"} => begin[i] <= head
    /\ Object(i) \in Managed /\ modified[Object(i)] # 0 =>
         /\ st[i] = "written" => now <= modified[Object(i)] + WriteBound
         /\ st[i] \in {"live", "scheduled"}
              => snapTime[begin[i]] <= modified[Object(i)] + WriteBound

(* A sweep that has read the references knows every row that is not        *)
(* younger than its read.                                                  *)
ReferencesCover ==
  \A o \in Ops : phase[o] = "referenced" =>
    /\ readAt[o] <= now
    /\ now <= readAt[o] + SweepBound
    /\ \A i \in Ids : st[i] \in {"live", "scheduled"}
         => UriOf[i] \in known[o] \/ snapTime[begin[i]] >= readAt[o]

(* Whatever a call deletes, has deleted or will drop the row of is doomed. *)
VictimsDoomed ==
  \A o \in Ops :
    /\ \A u \in victims[o] \cup deleted[o], i \in Ids :
         Object(i) = Identity[u] => Doomed(i)
    /\ \A u \in deleted[o], i \in Ids : Object(i) = Identity[u] => modified[Object(i)] = 0
    /\ \A i \in chosen[o] : Doomed(i) /\ st[i] # "aborted"

PurgedDoomed == \A i \in Ids : st[i] = "purged" => Doomed(i)

(* A file of a running query is live or was scheduled after it planned.    *)
ReadersCovered ==
  \A q \in Readers :
    /\ startedAt[q] <= now
    /\ \A i \in reading[q] :
         \/ st[i] = "live"
         \/ st[i] \in {"scheduled", "purged"} /\ startedAt[q] <= schedAt[i]

(* The ids an expiry holds are older than the latest, and by age, than the *)
(* floor.                                                                  *)
ExpiringOld ==
  /\ snaps \subseteq 0..head
  /\ \A o \in Ops : \A s \in expiring[o] :
       /\ s < head
       /\ phase[o] = "expiringAge" => snapTime[s] + MinRetention < now

IInv ==
  /\ TypeOK
  /\ ObjectsKept
  /\ CommitsInTime
  /\ ReferencesCover
  /\ VictimsDoomed
  /\ PurgedDoomed
  /\ ReadersCovered
  /\ ExpiringOld

-----------------------------------------------------------------------------
(* The three ways a call ends without touching the catalog.                *)
Returns(o) == Idle(o) /\ UNCHANGED <<now, catalogVars, modified, readerVars>>

USE UriAssumption, MaintenanceAssumption

(* Objects are identities, so the store is indexed by what Object returns. *)
LEMMA ObjectType == \A i \in Ids : Object(i) \in Objects /\ UriOf[i] \in Uris
  BY DEF Object, Objects

LEMMA InitInv == Init => IInv
  <1> SUFFICES ASSUME Init PROVE IInv
    OBVIOUS
  <1> USE DEF Init
  <1>1. TypeOK
    BY DEF TypeOK, States, Phases
  <1>2. ObjectsKept /\ CommitsInTime /\ PurgedDoomed
    BY ObjectType DEF ObjectsKept, CommitsInTime, PurgedDoomed
  <1>3. ReferencesCover /\ VictimsDoomed /\ ReadersCovered /\ ExpiringOld
    BY DEF ReferencesCover, VictimsDoomed, ReadersCovered, ExpiringOld
  <1>4. QED
    BY <1>1, <1>2, <1>3 DEF IInv

(* Every action keeps the types.                                           *)
LEMMA TypeStep ==
  ASSUME TypeOK, [Next]_vars
  PROVE  TypeOK'
  <1> USE DEF TypeOK, States, Phases, catalogVars, opVars, readerVars
  <1>1. ASSUME Tick PROVE TypeOK'
    BY <1>1 DEF Tick
  <1>2. ASSUME NEW i \in Ids, WriteFile(i) PROVE TypeOK'
    <2>1. modified' \in [Objects -> 0..MaxTime]
      BY <1>2, ObjectType DEF WriteFile
    <2>2. st' \in [Ids -> States]
      BY <1>2 DEF WriteFile
    <2>3. QED
      BY <1>2, <2>1, <2>2 DEF WriteFile
  <1>3. ASSUME NEW i \in Ids, CommitFile(i) PROVE TypeOK'
    BY <1>3, SMTT(40) DEF CommitFile, NewSnapshot
  <1>4. ASSUME NEW i \in Ids, AbortFile(i) PROVE TypeOK'
    BY <1>4 DEF AbortFile
  <1>5. ASSUME NEW S \in SUBSET Ids, EndFiles(S) PROVE TypeOK'
    <2>1. /\ head' \in 0..MaxSnapshot /\ head + 1 \in 0..MaxSnapshot
          /\ snaps' \subseteq 0..MaxSnapshot
          /\ snapTime' \in [0..MaxSnapshot -> 0..MaxTime]
      BY <1>5 DEF EndFiles, NewSnapshot
    <2>2. end' \in [Ids -> 0..MaxSnapshot]
      BY <1>5, <2>1 DEF EndFiles
    <2>3. QED
      BY <1>5, <2>1, <2>2 DEF EndFiles
  <1>6. ASSUME NEW o \in Ops, NEW S \in SUBSET snaps,
               NEW mode \in {"expiringIds", "expiringAge"}, ListExpirable(o, S, mode)
        PROVE TypeOK'
    BY <1>6, SMTT(40) DEF ListExpirable
  <1>7. ASSUME NEW o \in Ops, ListExpirableIds(o) \/ ListExpirableByAge(o) PROVE TypeOK'
    <2>1. CASE ListExpirableIds(o)
      BY <1>6, <2>1 DEF ListExpirableIds, ExpirableIds
    <2>2. CASE ListExpirableByAge(o)
      <3>1. PICK r \in Retentions : ListExpirable(o, ExpirableBefore(now - r), "expiringAge")
        BY <2>2 DEF ListExpirableByAge
      <3>2. ExpirableBefore(now - r) \in SUBSET snaps
        BY DEF ExpirableBefore
      <3>3. QED
        BY <1>6, <3>1, <3>2
    <2>3. QED
      BY <1>7, <2>1, <2>2
  <1>8. ASSUME NEW o \in Ops, ExpireSnapshots(o) PROVE TypeOK'
    BY <1>8 DEF ExpireSnapshots
  <1>9. ASSUME NEW o \in Ops, CleanupPage(o) PROVE TypeOK'
    BY <1>9, SMTT(40) DEF CleanupPage
  <1>10. ASSUME NEW o \in Ops, ResumeCleanup(o) PROVE TypeOK'
    BY <1>10 DEF ResumeCleanup
  <1>11. ASSUME NEW o \in Ops, ListScheduled(o) PROVE TypeOK'
    <2>1. PICK r \in Retentions : \E C \in OneIdPerUri(ScheduledBefore(now - r)) :
            /\ chosen' = [chosen EXCEPT ![o] = C]
            /\ victims' = [victims EXCEPT ![o] = {UriOf[i] : i \in C}]
      BY <1>11 DEF ListScheduled
    <2>2. PICK C \in OneIdPerUri(ScheduledBefore(now - r)) :
            /\ chosen' = [chosen EXCEPT ![o] = C]
            /\ victims' = [victims EXCEPT ![o] = {UriOf[i] : i \in C}]
      BY <2>1
    <2>3. C \in SUBSET Ids /\ {UriOf[i] : i \in C} \in SUBSET Uris
      BY ObjectType, SMTT(30) DEF OneIdPerUri, ScheduledBefore
    <2>4. /\ chosen' \in [Ops -> SUBSET Ids] /\ victims' \in [Ops -> SUBSET Uris]
          /\ phase' \in [Ops -> Phases]
      BY <1>11, <2>2, <2>3 DEF ListScheduled
    <2>5. \A p \in Ops : phase'[p] \notin {"deleting", "sweeping"} =>
             victims'[p] = {} /\ chosen'[p] = {} /\ deleted'[p] = {}
      BY <1>11, <2>2 DEF ListScheduled
    <2>6. QED
      BY <1>11, <2>4, <2>5 DEF ListScheduled
  <1>12. ASSUME NEW o \in Ops, RemoveRows(o) PROVE TypeOK'
    BY <1>12, SMTT(30) DEF RemoveRows, Idle
  <1>13. ASSUME NEW o \in Ops, ReadReferences(o) PROVE TypeOK'
    BY <1>13, SMTT(30) DEF ReadReferences, Referenced
  <1>14. ASSUME NEW o \in Ops, NEW root \in Roots, ListWarehouse(o, root) PROVE TypeOK'
    BY <1>14, SMTT(30) DEF ListWarehouse, Find, Objects
  <1>15. ASSUME NEW o \in Ops, NEW u \in Uris, DeleteObject(o, u) PROVE TypeOK'
    <2> DEFINE more == [deleted EXCEPT ![o] = @ \cup {u}]
    <2>1. /\ more \in [Ops -> SUBSET Uris]
          /\ \A p \in Ops : p # o => more[p] = deleted[p]
      OBVIOUS
    <2> HIDE DEF more
    <2>2. deleted' = deleted \/ deleted' = more
      BY <1>15 DEF DeleteObject, more
    <2>3. /\ deleted' \in [Ops -> SUBSET Uris]
          /\ \A p \in Ops : p # o => deleted'[p] = deleted[p]
      BY <2>1, <2>2
    <2>4. /\ phase[o] \in {"deleting", "sweeping"}
          /\ modified' = [modified EXCEPT ![Identity[u]] = 0]
          /\ victims' = [victims EXCEPT ![o] = @ \ {u}]
          /\ UNCHANGED <<now, catalogVars, phase, expiring, chosen, known, readAt, readerVars>>
      BY <1>15 DEF DeleteObject
    <2>5. QED
      BY <2>3, <2>4, SMTT(30) DEF Objects
  <1>16. ASSUME NEW o \in Ops, NEW u \in Uris, DeleteFails(o, u) PROVE TypeOK'
    BY <1>16 DEF DeleteFails
  <1>17. ASSUME NEW o \in Ops, Returns(o) PROVE TypeOK'
    BY <1>17 DEF Returns, Idle
  <1>18. ASSUME Crash PROVE TypeOK'
    BY <1>18 DEF Crash
  <1>19. ASSUME NEW q \in Readers, PlanRead(q) PROVE TypeOK'
    BY <1>19, SMTT(40) DEF PlanRead
  <1>20. ASSUME NEW q \in Readers, FinishRead(q) PROVE TypeOK'
    BY <1>20, SMTT(40) DEF FinishRead
  <1>21. CASE UNCHANGED vars
    BY <1>21 DEF vars
  <1>22. QED
    BY <1>1, <1>2, <1>3, <1>4, <1>5, <1>7, <1>8, <1>9, <1>10, <1>11, <1>12, <1>13, <1>14, <1>15, <1>16, <1>17, <1>18, <1>19, <1>20, <1>21
    DEF Next, Statement, Expiry, Cleanup, Sweep, Deletion, ExpiryDone, SweepDone, Throw, Returns

-----------------------------------------------------------------------------
(* THE INVARIANT IS INDUCTIVE                                              *)

Quiet == UNCHANGED <<now, catalogVars, modified>>

(* The steps that touch the clock, the catalog or the store; every other   *)
(* step is quiet.                                                          *)
LEMMA CatalogStep ==
  ASSUME [Next]_vars
  PROVE  \/ Tick
         \/ \E i \in Ids : WriteFile(i) \/ CommitFile(i) \/ AbortFile(i)
         \/ \E S \in SUBSET Ids : EndFiles(S)
         \/ \E o \in Ops : ExpireSnapshots(o) \/ CleanupPage(o) \/ RemoveRows(o)
         \/ \E o \in Ops, u \in Uris : DeleteObject(o, u)
         \/ Quiet
  <1>1. ASSUME NEW o \in Ops,
               ListExpirableIds(o) \/ ListExpirableByAge(o) \/ ResumeCleanup(o) \/ ListScheduled(o)
        PROVE Quiet
    BY <1>1 DEF ListExpirableIds, ListExpirableByAge, ListExpirable, ResumeCleanup, ListScheduled, Quiet, catalogVars
  <1>2. ASSUME NEW o \in Ops, ReadReferences(o) \/ \E root \in Roots : ListWarehouse(o, root)
        PROVE Quiet
    BY <1>2 DEF ReadReferences, ListWarehouse, Quiet, catalogVars
  <1>3. ASSUME NEW o \in Ops, ExpiryDone(o) \/ SweepDone(o) \/ Throw(o)
        PROVE Quiet
    BY <1>3 DEF ExpiryDone, SweepDone, Throw, Quiet, catalogVars
  <1>4. ASSUME NEW o \in Ops, NEW u \in Uris, DeleteFails(o, u) PROVE Quiet
    BY <1>4 DEF DeleteFails, Quiet, catalogVars
  <1>5. ASSUME NEW q \in Readers, PlanRead(q) \/ FinishRead(q) PROVE Quiet
    BY <1>5 DEF PlanRead, FinishRead, Quiet, catalogVars
  <1>6. Crash \/ UNCHANGED vars => Quiet
    BY DEF Crash, vars, Quiet, catalogVars
  <1>7. ASSUME NEW o \in Ops, Expiry(o) \/ Cleanup(o) \/ Sweep(o) \/ Throw(o)
        PROVE  ExpireSnapshots(o) \/ CleanupPage(o) \/ RemoveRows(o) \/ Quiet
    <2>1. CASE Expiry(o)
      BY <1>1, <1>3, <2>1, Zenon DEF Expiry
    <2>2. CASE Cleanup(o)
      BY <1>1, <2>2, Zenon DEF Cleanup
    <2>3. CASE Sweep(o)
      BY <1>2, <1>3, <2>3, Zenon DEF Sweep
    <2>4. CASE Throw(o)
      BY <1>3, <2>4, Zenon
    <2>5. QED
      BY <1>7, <2>1, <2>2, <2>3, <2>4
  <1>8. ASSUME NEW o \in Ops, Deletion(o) PROVE (\E u \in Uris : DeleteObject(o, u)) \/ Quiet
    BY <1>4, <1>8 DEF Deletion
  <1>9. QED
    BY <1>5, <1>6, <1>7, <1>8 DEF Next, Statement

(* A doomed file stays doomed: time moves on and no step revives it.       *)
LEMMA DoomedStable ==
  ASSUME TypeOK, [Next]_vars, NEW i \in Ids, Doomed(i)
  PROVE  Doomed(i)'
  <1> USE DEF Doomed, TypeOK, States
  <1>1. CASE Tick
    BY <1>1 DEF Tick, catalogVars
  <1>2. ASSUME NEW j \in Ids, WriteFile(j) \/ CommitFile(j) \/ AbortFile(j) PROVE Doomed(i)'
    BY <1>2 DEF WriteFile, CommitFile, AbortFile, NewSnapshot
  <1>3. ASSUME NEW S \in SUBSET Ids, EndFiles(S) PROVE Doomed(i)'
    BY <1>3 DEF EndFiles, NewSnapshot
  <1>4. ASSUME NEW o \in Ops, ExpireSnapshots(o) PROVE Doomed(i)'
    BY <1>4 DEF ExpireSnapshots
  <1>5. ASSUME NEW o \in Ops, CleanupPage(o) PROVE Doomed(i)'
    BY <1>5, SMTT(30) DEF CleanupPage, Dead
  <1>6. ASSUME NEW o \in Ops, RemoveRows(o) PROVE Doomed(i)'
    BY <1>6 DEF RemoveRows
  <1>7. ASSUME NEW o \in Ops, NEW u \in Uris, DeleteObject(o, u) PROVE Doomed(i)'
    BY <1>7 DEF DeleteObject, catalogVars
  <1>8. CASE Quiet
    BY <1>8 DEF Quiet, catalogVars
  <1>9. QED
    BY <1>1, <1>2, <1>3, <1>4, <1>5, <1>6, <1>7, <1>8, CatalogStep

(* The objects of live and graced files survive every step.                *)
LEMMA ObjectsStep ==
  ASSUME IInv, [Next]_vars, DistinctObjects
  PROVE  ObjectsKept'
  <1> USE DEF IInv, ObjectsKept, TypeOK, States
  <1>1. CASE Tick
    BY <1>1, ObjectType DEF Tick, catalogVars
  <1>2. ASSUME NEW j \in Ids, WriteFile(j) PROVE ObjectsKept'
    BY <1>2, ObjectType DEF WriteFile, DistinctObjects
  <1>3. ASSUME NEW j \in Ids, CommitFile(j) \/ AbortFile(j) PROVE ObjectsKept'
    BY <1>3, ObjectType, SMTT(30) DEF CommitFile, AbortFile
  <1>4. CASE (\E S \in SUBSET Ids : EndFiles(S)) \/ (\E o \in Ops : ExpireSnapshots(o))
    <2>1. UNCHANGED <<now, st, schedAt, modified>>
      BY <1>4 DEF EndFiles, ExpireSnapshots
    <2>2. QED
      BY <2>1, ObjectType
  <1>5. ASSUME NEW o \in Ops, CleanupPage(o) PROVE ObjectsKept'
    BY <1>5, ObjectType, SMTT(30) DEF CleanupPage, Dead
  <1>6. ASSUME NEW o \in Ops, RemoveRows(o) PROVE ObjectsKept'
    BY <1>6, ObjectType DEF RemoveRows
  <1>7. ASSUME NEW o \in Ops, NEW u \in Uris, DeleteObject(o, u) PROVE ObjectsKept'
    BY <1>7, ObjectType DEF DeleteObject, catalogVars, VictimsDoomed, Doomed, Objects
  <1>8. CASE Quiet
    BY <1>8, ObjectType DEF Quiet, catalogVars
  <1>9. QED
    BY <1>1, <1>2, <1>3, <1>4, <1>5, <1>6, <1>7, <1>8, CatalogStep

(* Deadlines of written files hold, and commits keep theirs.               *)
LEMMA CommitsStep ==
  ASSUME IInv, [Next]_vars, DistinctObjects
  PROVE  CommitsInTime'
  <1> USE DEF IInv, CommitsInTime, TypeOK, States
  <1>1. CASE Tick
    BY <1>1, ObjectType DEF Tick, catalogVars
  <1>2. ASSUME NEW j \in Ids, WriteFile(j) PROVE CommitsInTime'
    BY <1>2, ObjectType DEF WriteFile, DistinctObjects, ObjectsKept
  <1>3. ASSUME NEW j \in Ids, CommitFile(j) PROVE CommitsInTime'
    <2>1. \A i \in Ids : begin[i] <= head => snapTime'[begin[i]] = snapTime[begin[i]]
      BY <1>3 DEF CommitFile, NewSnapshot
    <2>2. snapTime'[begin'[j]] = now /\ begin'[j] = head' /\ head' = head + 1
      BY <1>3 DEF CommitFile, NewSnapshot
    <2>3. st[j] = "written" /\ now' = now /\ modified' = modified
      BY <1>3 DEF CommitFile
    <2>4. st' = [st EXCEPT ![j] = "live"] /\ begin' = [begin EXCEPT ![j] = head + 1]
      BY <1>3 DEF CommitFile
    <2>5. SUFFICES ASSUME NEW i \in Ids PROVE CommitsInTime!(i)'
      BY DEF CommitsInTime
    <2>6. CASE i = j
      BY <2>2, <2>3, <2>4, <2>6, ObjectType
    <2>7. CASE i # j
      <3>1. st'[i] = st[i] /\ begin'[i] = begin[i]
        BY <2>4, <2>7
      <3>2. QED
        BY <2>1, <2>2, <2>3, <3>1, ObjectType, SMTT(30)
    <2>8. QED
      BY <2>6, <2>7
  <1>4. ASSUME NEW j \in Ids, AbortFile(j) PROVE CommitsInTime'
    BY <1>4, ObjectType DEF AbortFile
  <1>5. ASSUME NEW S \in SUBSET Ids, EndFiles(S) PROVE CommitsInTime'
    <2>1. \A i \in Ids : begin[i] <= head => snapTime'[begin[i]] = snapTime[begin[i]]
      BY <1>5 DEF EndFiles, NewSnapshot
    <2>2. head' = head + 1
      BY <1>5 DEF EndFiles, NewSnapshot
    <2>3. UNCHANGED <<now, st, begin, modified>>
      BY <1>5 DEF EndFiles
    <2>4. QED
      BY <2>1, <2>2, <2>3, ObjectType
  <1>6. ASSUME NEW o \in Ops, ExpireSnapshots(o) PROVE CommitsInTime'
    BY <1>6, ObjectType DEF ExpireSnapshots
  <1>7. ASSUME NEW o \in Ops, CleanupPage(o) PROVE CommitsInTime'
    BY <1>7, ObjectType, SMTT(30) DEF CleanupPage, Dead
  <1>8. ASSUME NEW o \in Ops, RemoveRows(o) PROVE CommitsInTime'
    BY <1>8, ObjectType DEF RemoveRows
  <1>9. ASSUME NEW o \in Ops, NEW u \in Uris, DeleteObject(o, u) PROVE CommitsInTime'
    BY <1>9, ObjectType DEF DeleteObject, catalogVars, Objects
  <1>10. CASE Quiet
    BY <1>10, ObjectType DEF Quiet, catalogVars
  <1>11. QED
    BY <1>1, <1>2, <1>3, <1>4, <1>5, <1>6, <1>7, <1>8, <1>9, <1>10, CatalogStep

(* A row is removed only for a file that was chosen, hence doomed.         *)
LEMMA PurgedStep ==
  ASSUME IInv, [Next]_vars
  PROVE  PurgedDoomed'
  <1> SUFFICES ASSUME NEW i \in Ids, st'[i] = "purged" PROVE Doomed(i)'
    BY DEF PurgedDoomed
  <1> USE DEF IInv, TypeOK, States
  <1>1. CASE Doomed(i)
    BY <1>1, DoomedStable
  <1>2. CASE ~Doomed(i)
    <2>1. st[i] # "purged"
      BY <1>2 DEF PurgedDoomed
    <2>2. PICK o \in Ops : RemoveRows(o)
      BY <2>1, CatalogStep, SMTT(30) DEF Tick, WriteFile, CommitFile, AbortFile, NewSnapshot, EndFiles,
         ExpireSnapshots, CleanupPage, DeleteObject, Quiet, catalogVars
    <2>3. i \in chosen[o]
      BY <2>1, <2>2 DEF RemoveRows, DeletedIds
    <2>4. QED
      BY <1>2, <2>3 DEF VictimsDoomed
  <1>3. QED
    BY <1>1, <1>2

(* How one step moves a file that had no row, or had one: a row appears by *)
(* a commit, in a snapshot no older than the clock.                        *)
LEMMA RowStep ==
  ASSUME TypeOK, CommitsInTime, [Next]_vars, NEW i \in Ids, st'[i] \in {"live", "scheduled"}
  PROVE  \/ st[i] \in {"live", "scheduled"} /\ snapTime'[begin'[i]] = snapTime[begin[i]]
         \/ snapTime'[begin'[i]] = now
  <1> USE DEF TypeOK, States, CommitsInTime
  <1>1. CASE Tick
    BY <1>1 DEF Tick, catalogVars
  <1>2. ASSUME NEW j \in Ids, CommitFile(j)
        PROVE  \/ st[i] \in {"live", "scheduled"} /\ snapTime'[begin'[i]] = snapTime[begin[i]]
               \/ snapTime'[begin'[i]] = now
    BY <1>2, SMTT(30) DEF CommitFile, NewSnapshot
  <1>3. CASE \E j \in Ids : WriteFile(j) \/ AbortFile(j)
    BY <1>3, SMTT(30) DEF WriteFile, AbortFile
  <1>4. CASE \E S \in SUBSET Ids : EndFiles(S)
    BY <1>4 DEF EndFiles, NewSnapshot
  <1>5. CASE \E o \in Ops : ExpireSnapshots(o) \/ CleanupPage(o) \/ RemoveRows(o)
    BY <1>5 DEF ExpireSnapshots, CleanupPage, Dead, RemoveRows
  <1>6. CASE (\E o \in Ops, u \in Uris : DeleteObject(o, u)) \/ Quiet
    BY <1>6 DEF DeleteObject, Quiet, catalogVars
  <1>7. QED
    BY <1>1, <1>2, <1>3, <1>4, <1>5, <1>6, CatalogStep

(* How one step of the system can change what session o holds: it reads    *)
(* the references, it takes a list of victims, it deletes one, or its      *)
(* lists do not grow.                                                      *)
SessionHolds(o) ==
  /\ phase'[o] = "referenced" =>
       phase[o] = "referenced" /\ known'[o] = known[o] /\ readAt'[o] = readAt[o]
  /\ victims'[o] \subseteq victims[o]
  /\ deleted'[o] \subseteq deleted[o]
  /\ chosen'[o] \subseteq chosen[o]

LEMMA SessionStep ==
  ASSUME TypeOK, [Next]_vars, NEW o \in Ops
  PROVE  \/ ReadReferences(o)
         \/ ListScheduled(o)
         \/ \E root \in Roots : ListWarehouse(o, root)
         \/ \E u \in Uris : DeleteObject(o, u)
         \/ SessionHolds(o)
  <1> USE DEF SessionHolds, TypeOK, opVars
  <1>1. CASE Tick \/ Statement
    BY <1>1 DEF Tick, Statement, WriteFile, CommitFile, AbortFile, EndFiles
  <1>2. ASSUME NEW p \in Ops, ListExpirableIds(p) \/ ListExpirableByAge(p) PROVE SessionHolds(o)
    BY <1>2 DEF ListExpirableIds, ListExpirableByAge, ListExpirable
  <1>3. ASSUME NEW p \in Ops, ExpireSnapshots(p) \/ CleanupPage(p) \/ ResumeCleanup(p)
        PROVE SessionHolds(o)
    BY <1>3 DEF ExpireSnapshots, CleanupPage, ResumeCleanup
  <1>4. ASSUME NEW p \in Ops, Idle(p) PROVE SessionHolds(o)
    BY <1>4 DEF Idle
  <1>5. ASSUME NEW p \in Ops, p # o, ListScheduled(p) \/ ReadReferences(p) PROVE SessionHolds(o)
    BY <1>5 DEF ListScheduled, ReadReferences
  <1>6. ASSUME NEW p \in Ops, NEW root \in Roots, p # o, ListWarehouse(p, root)
        PROVE SessionHolds(o)
    BY <1>6 DEF ListWarehouse
  <1>7. ASSUME NEW p \in Ops, NEW u \in Uris, p # o, DeleteObject(p, u) PROVE SessionHolds(o)
    BY <1>7 DEF DeleteObject
  <1>8. ASSUME NEW p \in Ops, NEW u \in Uris, DeleteFails(p, u) PROVE SessionHolds(o)
    BY <1>8 DEF DeleteFails
  <1>9. CASE Crash
    BY <1>9 DEF Crash
  <1>10. ASSUME NEW q \in Readers, PlanRead(q) \/ FinishRead(q) PROVE SessionHolds(o)
    BY <1>10 DEF PlanRead, FinishRead
  <1>11. CASE UNCHANGED vars
    BY <1>11 DEF vars
  <1>12. ASSUME NEW p \in Ops, ExpiryDone(p) \/ RemoveRows(p) \/ SweepDone(p) \/ Throw(p)
         PROVE SessionHolds(o)
    <2>1. Idle(p)
      BY <1>12 DEF ExpiryDone, RemoveRows, SweepDone, Throw
    <2>2. QED
      BY <1>4, <2>1
  <1> HIDE DEF SessionHolds
  <1>13. QED
    BY <1>1, <1>2, <1>3, <1>5, <1>6, <1>7, <1>8, <1>9, <1>10, <1>11, <1>12
    DEF Next, Expiry, Cleanup, Sweep, Deletion

LEMMA ClockStep == ASSUME TypeOK, [Next]_vars
                   PROVE  now <= now' /\ (now' # now => Tick)
  BY CatalogStep DEF Tick, WriteFile, CommitFile, AbortFile, EndFiles, ExpireSnapshots,
     CleanupPage, RemoveRows, DeleteObject, Quiet, TypeOK

(* What a sweep knows keeps covering the rows: a row that appears after    *)
(* the read is younger than it, and the clock waits for the sweep.         *)
LEMMA ReferencesStep ==
  ASSUME IInv, [Next]_vars
  PROVE  ReferencesCover'
  <1> SUFFICES ASSUME NEW o \in Ops, phase'[o] = "referenced"
               PROVE  /\ readAt'[o] <= now'
                      /\ now' <= readAt'[o] + SweepBound
                      /\ \A i \in Ids : st'[i] \in {"live", "scheduled"}
                           => UriOf[i] \in known'[o] \/ snapTime'[begin'[i]] >= readAt'[o]
    BY DEF ReferencesCover
  <1> USE DEF IInv
  <1>1. CASE ReadReferences(o)
    BY <1>1 DEF ReadReferences, Referenced, catalogVars, TypeOK
  <1>2. CASE SessionHolds(o)
    <2>1. /\ phase[o] = "referenced" /\ known'[o] = known[o] /\ readAt'[o] = readAt[o]
          /\ readAt[o] <= now /\ now <= readAt[o] + SweepBound
      BY <1>2 DEF SessionHolds, ReferencesCover
    <2>2. readAt'[o] <= now'
      <3>1. now <= now'
        BY ClockStep
      <3>2. readAt[o] \in Int /\ now \in Int /\ now' \in Int
        BY TypeStep DEF TypeOK
      <3>3. QED
        BY <2>1, <3>1, <3>2
    <2>3. now' <= readAt'[o] + SweepBound
      BY <2>1, ClockStep, SMTT(30) DEF Tick, TypeOK
    <2>4. ASSUME NEW i \in Ids, st'[i] \in {"live", "scheduled"}
          PROVE  UriOf[i] \in known'[o] \/ snapTime'[begin'[i]] >= readAt'[o]
      BY <2>1, <2>4, RowStep DEF ReferencesCover, TypeOK
    <2>5. QED
      BY <2>2, <2>3, <2>4
  <1>3. CASE ListScheduled(o) \/ (\E root \in Roots : ListWarehouse(o, root))
              \/ (\E u \in Uris : DeleteObject(o, u))
    BY <1>3 DEF ListScheduled, ListWarehouse, DeleteObject, TypeOK, Phases
  <1>4. QED
    BY <1>1, <1>2, <1>3, SessionStep

(* What listFilesScheduledForDeletion returns is doomed, whichever row     *)
(* idByUri keeps for a URI.                                                *)
LEMMA ScheduledDoomed ==
  ASSUME IInv, DistinctObjects, NEW o \in Ops, ListScheduled(o)
  PROVE  /\ \A u \in victims'[o], i \in Ids : Object(i) = Identity[u] => Doomed(i)
         /\ \A i \in chosen'[o] : i \in Ids /\ Doomed(i) /\ st[i] = "scheduled"
         /\ deleted'[o] = {}
  <1> USE DEF IInv, TypeOK
  <1>1. PICK r \in Retentions :
          /\ AllowedRetention(r)
          /\ \E C \in OneIdPerUri(ScheduledBefore(now - r)) :
               /\ chosen' = [chosen EXCEPT ![o] = C]
               /\ victims' = [victims EXCEPT ![o] = {UriOf[i] : i \in C}]
    BY DEF ListScheduled
  <1>2. PICK C \in SUBSET ScheduledBefore(now - r) :
          chosen'[o] = C /\ victims'[o] = {UriOf[i] : i \in C}
    BY <1>1 DEF OneIdPerUri
  <1>3. \A i \in C : i \in Ids /\ Doomed(i) /\ st[i] = "scheduled"
    BY <1>1, <1>2, SMTT(30) DEF ScheduledBefore, Doomed, AllowedRetention
  <1>4. ASSUME NEW u \in victims'[o], NEW i \in Ids, Object(i) = Identity[u] PROVE Doomed(i)
    BY <1>2, <1>3, <1>4 DEF Object, DistinctObjects
  <1>5. deleted'[o] = {}
    BY DEF ListScheduled, Phases
  <1>6. QED
    BY <1>2, <1>3, <1>4, <1>5

(* An object that Find selects belongs to no file that is written, live or *)
(* waiting in the schedule.  A row the sweep does not know is younger than *)
(* its reference read, so its object is younger than the cutoff.           *)
LEMMA OrphansDoomed ==
  ASSUME IInv, GraceCoversWriters, NEW o \in Ops, NEW root \in Roots, ListWarehouse(o, root)
  PROVE  /\ \A u \in victims'[o], i \in Ids : Object(i) = Identity[u] => Doomed(i)
         /\ chosen'[o] = {}
         /\ deleted'[o] = {}
  <1> USE DEF IInv, TypeOK
  <1>1. PICK r \in Retentions :
          /\ r >= MinRetention
          /\ victims'[o] = Find({u \in root : modified[u] # 0}, known[o], modified, now - r)
    BY DEF ListWarehouse, AllowedRetention
  <1>2. /\ readAt[o] <= now /\ now <= readAt[o] + SweepBound
        /\ \A i \in Ids : st[i] \in {"live", "scheduled"}
             => UriOf[i] \in known[o] \/ snapTime[begin[i]] >= readAt[o]
    BY DEF ListWarehouse, ReferencesCover
  <1>3. ASSUME NEW u \in victims'[o], NEW i \in Ids, Object(i) = Identity[u]
        PROVE  Doomed(i)
    <2>1. /\ u \in Objects /\ u \in Managed /\ modified[u] # 0 /\ modified[u] + r < now
          /\ \A k \in known[o] : Identity[u] # Identity[k]
      <3>1. /\ u \in root /\ u \in Managed /\ modified[u] # 0 /\ modified[u] < now - r
            /\ \A k \in known[o] : Identity[u] # Identity[k]
        BY <1>1, Zenon DEF Find
      <3>2. u \in Objects
        BY <3>1
      <3>3. modified[u] \in Int /\ now \in Int /\ r \in Int
        <4>1. modified[u] \in 0..MaxTime
          BY <3>2, Zenon
        <4>2. QED
          BY <4>1
      <3>4. QED
        BY <3>1, <3>2, <3>3
    <2>2. Object(i) = u
      BY <1>3, <2>1 DEF Objects
    <2>3. UriOf[i] \notin known[o]
      BY <1>3, <2>1 DEF Object
    <2>4. st[i] # "written"
      BY <1>1, <2>1, <2>2 DEF CommitsInTime, GraceCoversWriters
    <2>5. st[i] \notin {"live", "scheduled"}
      BY <1>1, <1>2, <2>1, <2>2, <2>3, SMTT(30) DEF CommitsInTime, GraceCoversWriters
    <2>6. st[i] # "unwritten"
      BY <2>1, <2>2 DEF ObjectsKept
    <2>7. QED
      BY <2>4, <2>5, <2>6 DEF States, Doomed, PurgedDoomed
  <1>4. chosen'[o] = {} /\ deleted'[o] = {}
    BY DEF ListWarehouse
  <1>5. QED
    BY <1>3, <1>4

(* Every way a list grows puts only doomed files in it, and doomed files   *)
(* stay doomed; an object once deleted stays deleted, because only an      *)
(* unwritten file creates one.                                             *)
LEMMA VictimsStep ==
  ASSUME IInv, [Next]_vars, DistinctObjects, GraceCoversWriters
  PROVE  VictimsDoomed'
  <1> SUFFICES ASSUME NEW o \in Ops
               PROVE  /\ \A u \in victims'[o] \cup deleted'[o], i \in Ids :
                           Object(i) = Identity[u] => Doomed(i)'
                      /\ \A u \in deleted'[o], i \in Ids :
                           Object(i) = Identity[u] => modified'[Object(i)] = 0
                      /\ \A i \in chosen'[o] : Doomed(i)' /\ st'[i] # "aborted"
    BY DEF VictimsDoomed, Object
  <1> USE DEF IInv
  <1>1. \A i \in Ids : Doomed(i) => Doomed(i)'
    BY DoomedStable
  <1>2. \A i \in Ids : Doomed(i) /\ modified[Object(i)] = 0 => modified'[Object(i)] = 0
    <2> SUFFICES ASSUME NEW i \in Ids, Doomed(i), modified[Object(i)] = 0
                 PROVE  modified'[Object(i)] = 0
      OBVIOUS
    <2> USE DEF TypeOK
    <2>1. ASSUME NEW j \in Ids, WriteFile(j) PROVE modified'[Object(i)] = 0
      <3>1. i # j
        BY <2>1 DEF WriteFile, Doomed
      <3>2. QED
        BY <2>1, <3>1, ObjectType DEF WriteFile, DistinctObjects
    <2>2. ASSUME NEW p \in Ops, NEW u \in Uris, DeleteObject(p, u) PROVE modified'[Object(i)] = 0
      BY <2>2, ObjectType DEF DeleteObject
    <2>3. CASE modified' = modified
      BY <2>3
    <2>4. QED
      BY <2>1, <2>2, <2>3, CatalogStep DEF Tick, CommitFile, AbortFile, EndFiles,
         ExpireSnapshots, CleanupPage, RemoveRows, Quiet
  <1>3. \A i \in chosen[o] : i \in Ids /\ st[i] \in {"scheduled", "purged"} /\ st'[i] # "aborted"
    <2>1. \A i \in chosen[o] : i \in Ids /\ st[i] \in {"scheduled", "purged"}
      BY DEF VictimsDoomed, Doomed, TypeOK
    <2>2. ASSUME NEW i \in Ids, st[i] \in {"scheduled", "purged"} PROVE st'[i] # "aborted"
      <3>1. CASE Tick \/ Quiet \/ (\E p \in Ops, u \in Uris : DeleteObject(p, u))
        BY <2>2, <3>1 DEF Tick, Quiet, DeleteObject, catalogVars
      <3>2. CASE \E p \in Ops : ExpireSnapshots(p) \/ CleanupPage(p) \/ RemoveRows(p)
        BY <2>2, <3>2 DEF ExpireSnapshots, CleanupPage, RemoveRows, catalogVars, TypeOK
      <3>3. CASE \E j \in Ids : WriteFile(j) \/ CommitFile(j) \/ AbortFile(j)
        BY <2>2, <3>3 DEF WriteFile, CommitFile, AbortFile, catalogVars, TypeOK
      <3>4. CASE \E S \in SUBSET Ids : EndFiles(S)
        BY <2>2, <3>4 DEF EndFiles, catalogVars
      <3>5. QED
        BY <3>1, <3>2, <3>3, <3>4, CatalogStep
    <2>3. QED
      BY <2>1, <2>2
  <1>4. CASE SessionHolds(o)
    BY <1>1, <1>2, <1>3, <1>4 DEF SessionHolds, VictimsDoomed, TypeOK
  <1>5. CASE ListScheduled(o)
    <2>1. UNCHANGED st
      BY <1>5 DEF ListScheduled, catalogVars
    <2>2. QED
      BY <1>1, <1>5, <2>1, ScheduledDoomed
  <1>6. ASSUME NEW root \in Roots, ListWarehouse(o, root)
        PROVE  /\ \A u \in victims'[o], i \in Ids : Object(i) = Identity[u] => Doomed(i)'
               /\ chosen'[o] = {}
               /\ deleted'[o] = {}
    BY <1>1, <1>6, OrphansDoomed
  <1>7. ASSUME NEW u \in Uris, DeleteObject(o, u)
        PROVE  /\ victims'[o] \cup deleted'[o] \subseteq victims[o] \cup deleted[o]
               /\ deleted'[o] \subseteq deleted[o] \cup {u}
               /\ chosen'[o] = chosen[o]
               /\ modified'[Identity[u]] = 0
    BY <1>7 DEF DeleteObject, TypeOK, Objects
  <1>8. ASSUME NEW u \in Uris, DeleteObject(o, u)
        PROVE  \A v \in deleted'[o], i \in Ids : Object(i) = Identity[v] => modified'[Object(i)] = 0
    <2> SUFFICES ASSUME NEW v \in deleted'[o], NEW i \in Ids, Object(i) = Identity[v]
                 PROVE  modified'[Object(i)] = 0
      OBVIOUS
    <2>1. CASE v = u
      BY <1>7, <1>8, <2>1
    <2>2. CASE v \in deleted[o]
      BY <1>2, <2>2 DEF VictimsDoomed
    <2>3. QED
      BY <1>7, <1>8, <2>1, <2>2
  <1>9. CASE ReadReferences(o)
    <2>1. victims'[o] = {} /\ deleted'[o] = {} /\ chosen'[o] = {}
      BY <1>9 DEF ReadReferences, TypeOK
    <2>2. QED
      BY <2>1
  <1>10. ASSUME NEW u \in Uris, DeleteObject(o, u)
         PROVE  \A v \in victims'[o] \cup deleted'[o], i \in Ids :
                  Object(i) = Identity[v] => Doomed(i)'
    BY <1>1, <1>7, <1>10 DEF VictimsDoomed
  <1>11. ASSUME NEW u \in Uris, DeleteObject(o, u)
         PROVE  \A i \in chosen'[o] : Doomed(i)' /\ st'[i] # "aborted"
    BY <1>1, <1>3, <1>7, <1>11 DEF VictimsDoomed
  <1>12. QED
    BY <1>4, <1>5, <1>6, <1>8, <1>9, <1>10, <1>11, SessionStep

(* Only planning and finishing touch what a query holds.                   *)
LEMMA ReaderStep ==
  ASSUME [Next]_vars
  PROVE  (\E q \in Readers : PlanRead(q) \/ FinishRead(q)) \/ UNCHANGED readerVars
  <1>1. CASE Tick \/ Statement \/ Crash
    BY <1>1 DEF Tick, Statement, WriteFile, CommitFile, AbortFile, EndFiles, Crash
  <1>2. ASSUME NEW o \in Ops, Expiry(o) PROVE UNCHANGED readerVars
    BY <1>2 DEF Expiry, ListExpirableIds, ListExpirableByAge, ListExpirable, ExpireSnapshots,
       CleanupPage, ExpiryDone, ResumeCleanup
  <1>3. ASSUME NEW o \in Ops, Cleanup(o) \/ Sweep(o) PROVE UNCHANGED readerVars
    BY <1>3 DEF Cleanup, Sweep, ListScheduled, RemoveRows, ReadReferences, ListWarehouse, SweepDone
  <1>4. ASSUME NEW o \in Ops, Deletion(o) \/ Throw(o) PROVE UNCHANGED readerVars
    BY <1>4 DEF Deletion, DeleteObject, DeleteFails, Throw
  <1>5. CASE UNCHANGED vars
    BY <1>5 DEF vars
  <1>6. QED
    BY <1>1, <1>2, <1>3, <1>4, <1>5 DEF Next

(* A file leaves "live" only for the schedule, at the present time.        *)
LEMMA ReadersStep ==
  ASSUME IInv, [Next]_vars
  PROVE  ReadersCovered'
  <1> USE DEF IInv, ReadersCovered, TypeOK
  <1>1. CASE Tick
    BY <1>1 DEF Tick, catalogVars, readerVars
  <1>2. ASSUME NEW j \in Ids, WriteFile(j) \/ CommitFile(j) \/ AbortFile(j) PROVE ReadersCovered'
    BY <1>2, SMTT(30) DEF WriteFile, CommitFile, AbortFile, readerVars
  <1>3. ASSUME NEW S \in SUBSET Ids, EndFiles(S) PROVE ReadersCovered'
    BY <1>3 DEF EndFiles, readerVars
  <1>4. ASSUME NEW o \in Ops, CleanupPage(o) PROVE ReadersCovered'
    BY <1>4 DEF CleanupPage, Dead, readerVars
  <1>5. ASSUME NEW o \in Ops, RemoveRows(o) PROVE ReadersCovered'
    BY <1>5 DEF RemoveRows, readerVars
  <1>6. ASSUME NEW q \in Readers, PlanRead(q) PROVE ReadersCovered'
    BY <1>6 DEF PlanRead, Visible, catalogVars
  <1>7. ASSUME NEW q \in Readers, FinishRead(q) PROVE ReadersCovered'
    BY <1>7 DEF FinishRead, catalogVars
  <1>8. ASSUME UNCHANGED <<now, st, schedAt, readerVars>> PROVE ReadersCovered'
    BY <1>8 DEF readerVars
  <1>9. CASE UNCHANGED readerVars
    <2>1. CASE Quiet \/ (\E o \in Ops : ExpireSnapshots(o)) \/ (\E o \in Ops, u \in Uris : DeleteObject(o, u))
      <3>1. UNCHANGED <<now, st, schedAt>>
        BY <2>1 DEF Quiet, ExpireSnapshots, DeleteObject, catalogVars
      <3>2. QED
        BY <1>8, <1>9, <3>1
    <2>2. QED
      BY <1>1, <1>2, <1>3, <1>4, <1>5, <2>1, CatalogStep
  <1>10. QED
    BY <1>6, <1>7, <1>9, ReaderStep

(* An expiry's ids come from its own listing.                              *)
LEMMA ExpiringKept ==
  ASSUME TypeOK, [Next]_vars, NEW o \in Ops
  PROVE  \/ ListExpirableIds(o)
         \/ ListExpirableByAge(o)
         \/ /\ expiring'[o] \subseteq expiring[o]
            /\ phase'[o] = "expiringAge" => phase[o] = "expiringAge"
  <1> DEFINE Kept == /\ expiring'[o] \subseteq expiring[o]
                     /\ phase'[o] = "expiringAge" => phase[o] = "expiringAge"
  <1> USE DEF TypeOK
  <1>1. ASSUME Tick \/ Statement PROVE Kept
    BY <1>1 DEF Tick, Statement, WriteFile, CommitFile, AbortFile, EndFiles, opVars
  <1>2. ASSUME NEW p \in Ops, ExpireSnapshots(p) \/ CleanupPage(p) \/ ResumeCleanup(p)
        PROVE Kept
    BY <1>2 DEF ExpireSnapshots, CleanupPage, ResumeCleanup, opVars
  <1>3. ASSUME NEW p \in Ops, Idle(p) PROVE Kept
    BY <1>3 DEF Idle
  <1>4. ASSUME NEW p \in Ops, p # o, ListExpirableIds(p) \/ ListExpirableByAge(p) PROVE Kept
    BY <1>4 DEF ListExpirableIds, ListExpirableByAge, ListExpirable
  <1>5. ASSUME NEW p \in Ops, ListScheduled(p) \/ ReadReferences(p) PROVE Kept
    BY <1>5 DEF ListScheduled, ReadReferences
  <1>6. ASSUME NEW p \in Ops, NEW root \in Roots, ListWarehouse(p, root) PROVE Kept
    BY <1>6 DEF ListWarehouse
  <1>7. ASSUME NEW p \in Ops, NEW u \in Uris, DeleteObject(p, u) \/ DeleteFails(p, u) PROVE Kept
    BY <1>7 DEF DeleteObject, DeleteFails
  <1>8. ASSUME Crash PROVE Kept
    BY <1>8 DEF Crash
  <1>9. ASSUME NEW q \in Readers, PlanRead(q) \/ FinishRead(q) PROVE Kept
    BY <1>9 DEF PlanRead, FinishRead, opVars
  <1>10. ASSUME UNCHANGED vars PROVE Kept
    BY <1>10 DEF vars, opVars
  <1>11. ASSUME NEW p \in Ops, ExpiryDone(p) \/ RemoveRows(p) \/ SweepDone(p) \/ Throw(p)
         PROVE Kept
    BY <1>3, <1>11 DEF ExpiryDone, RemoveRows, SweepDone, Throw
  <1> HIDE DEF Kept
  <1>12. Kept \/ ListExpirableIds(o) \/ ListExpirableByAge(o)
    <2>1. ASSUME NEW p \in Ops, Expiry(p) PROVE Kept \/ ListExpirableIds(o) \/ ListExpirableByAge(o)
      BY <1>2, <1>4, <1>11, <2>1 DEF Expiry
    <2>2. ASSUME NEW p \in Ops, Cleanup(p) \/ Sweep(p) PROVE Kept
      BY <1>5, <1>6, <1>11, <2>2, Zenon DEF Cleanup, Sweep
    <2>3. ASSUME NEW p \in Ops, Deletion(p) PROVE Kept
      BY <1>7, <2>3, Zenon DEF Deletion
    <2>4. QED
      <3>1. CASE \E p \in Ops : Expiry(p) \/ Cleanup(p) \/ Sweep(p) \/ Deletion(p) \/ Throw(p)
        BY <1>11, <2>1, <2>2, <2>3, <3>1, Zenon
      <3>2. QED
        BY <1>1, <1>8, <1>9, <1>10, <3>1 DEF Next
  <1>13. QED
    BY <1>12 DEF Kept

(* The latest only advances and a retained snapshot keeps its time, so the *)
(* ids an expiry holds stay old while it waits.                            *)
LEMMA ExpiringStep ==
  ASSUME TypeOK, ExpiringOld, [Next]_vars
  PROVE  ExpiringOld'
  <1> USE DEF TypeOK
  <1>1. /\ snaps' \subseteq 0..head'
        /\ head <= head'
        /\ \A s \in 0..head : snapTime'[s] = snapTime[s]
    <2>1. ASSUME NewSnapshot
          PROVE  /\ snaps' \subseteq 0..head' /\ head <= head'
                 /\ \A s \in 0..head : snapTime'[s] = snapTime[s]
      BY <2>1 DEF NewSnapshot, ExpiringOld
    <2>2. ASSUME snaps' \subseteq snaps, UNCHANGED <<head, snapTime>>
          PROVE  /\ snaps' \subseteq 0..head' /\ head <= head'
                 /\ \A s \in 0..head : snapTime'[s] = snapTime[s]
      BY <2>2 DEF ExpiringOld
    <2>3. CASE \E j \in Ids : CommitFile(j)
      BY <2>1, <2>3, Zenon DEF CommitFile
    <2>4. CASE \E S \in SUBSET Ids : EndFiles(S)
      BY <2>1, <2>4, Zenon DEF EndFiles
    <2>5. CASE Quiet \/ Tick
      BY <2>2, <2>5 DEF Quiet, Tick, catalogVars
    <2>6. CASE \E j \in Ids : WriteFile(j) \/ AbortFile(j)
      BY <2>2, <2>6 DEF WriteFile, AbortFile
    <2>7. CASE \E o \in Ops : ExpireSnapshots(o) \/ CleanupPage(o) \/ RemoveRows(o)
      BY <2>2, <2>7 DEF ExpireSnapshots, CleanupPage, RemoveRows
    <2>8. CASE \E o \in Ops, u \in Uris : DeleteObject(o, u)
      BY <2>2, <2>8 DEF DeleteObject, catalogVars
    <2>9. QED
      BY <2>3, <2>4, <2>5, <2>6, <2>7, <2>8, CatalogStep
  <1>2. SUFFICES ASSUME NEW o \in Ops, NEW s \in expiring'[o]
                 PROVE  s < head' /\ (phase'[o] = "expiringAge" => snapTime'[s] + MinRetention < now')
    BY <1>1 DEF ExpiringOld
  <1>3. CASE s \in expiring[o] /\ (phase'[o] = "expiringAge" => phase[o] = "expiringAge")
    <2>1. s \in 0..head /\ s < head
      BY <1>3 DEF ExpiringOld
    <2>2. snapTime'[s] = snapTime[s] /\ snapTime[s] \in Int
      BY <1>1, <2>1
    <2>3. now \in Int /\ now' \in Int /\ head \in Int /\ head' \in Int /\ now <= now'
      <3>1. TypeOK'
        BY TypeStep
      <3>2. now <= now'
        BY ClockStep
      <3>3. QED
        BY <3>1, <3>2
    <2>4. s < head'
      BY <1>1, <2>1, <2>3
    <2>5. phase'[o] = "expiringAge" => snapTime[s] + MinRetention < now
      BY <1>3 DEF ExpiringOld
    <2>6. QED
      BY <2>2, <2>3, <2>4, <2>5
  <1>4. CASE ListExpirableIds(o)
    BY <1>4 DEF ListExpirableIds, ListExpirable, ExpirableIds, ExpiringOld, catalogVars
  <1>5. CASE ListExpirableByAge(o)
    <2>1. PICK r \in Retentions : AllowedRetention(r) /\ ListExpirable(o, ExpirableBefore(now - r), "expiringAge")
      BY <1>5 DEF ListExpirableByAge
    <2>2. s \in snaps /\ s # head /\ snapTime[s] < now - r /\ r >= MinRetention
      BY <2>1 DEF ListExpirable, ExpirableBefore, AllowedRetention
    <2>3. UNCHANGED <<now, head, snapTime>>
      BY <2>1 DEF ListExpirable, catalogVars
    <2>4. s \in 0..head /\ head \in 0..MaxSnapshot
      BY <2>2 DEF ExpiringOld
    <2>5. snapTime[s] \in Int /\ now \in Int /\ r \in Int /\ s \in Int /\ head \in Int
      BY <2>4
    <2>6. QED
      BY <2>2, <2>3, <2>4, <2>5
  <1>6. QED
    BY <1>3, <1>4, <1>5, ExpiringKept

(* The conjuncts together are preserved by every step.                     *)
LEMMA InvStep ==
  ASSUME IInv, [Next]_vars, DistinctObjects, GraceCoversWriters
  PROVE  IInv'
  BY TypeStep, ObjectsStep, CommitsStep, ReferencesStep, VictimsStep, PurgedStep, ReadersStep,
     ExpiringStep DEF IInv

-----------------------------------------------------------------------------
(* THE THEOREMS                                                            *)

(* Every reachable state has the types the catalog, the store and the      *)
(* sessions keep, and no deletion list outlives its procedure call.        *)
THEOREM TypeCorrect == Spec => []TypeOK
  <1>1. Init => TypeOK
    BY InitInv DEF IInv
  <1>2. TypeOK /\ [Next]_vars => TypeOK'
    BY TypeStep
  <1>3. QED
    BY <1>1, <1>2, PTL DEF Spec

(* The inductive invariant, under the two hypotheses about the world.      *)
LEMMA Invariance ==
  ASSUME DistinctObjects, GraceCoversWriters
  PROVE  Spec => []IInv
  <1>1. Init => IInv
    BY InitInv
  <1>2. IInv /\ [Next]_vars => IInv'
    BY InvStep
  <1>3. QED
    BY <1>1, <1>2, PTL DEF Spec

(* No file a statement has committed is ever taken for an orphan.          *)
THEOREM CommittedNeverOrphaned ==
  ASSUME DistinctObjects, GraceCoversWriters
  PROVE  Spec => []InFlightFilesProtected
  <1>1. IInv => InFlightFilesProtected
    BY DEF IInv, ObjectsKept, InFlightFilesProtected
  <1>2. QED
    BY <1>1, Invariance, PTL

(* A live file and one within its grace have their objects.                *)
LEMMA GraceKept == IInv => ReaderGrace
  <1> SUFFICES ASSUME IInv, NEW q \in Readers, NEW i \in reading[q],
                      now <= startedAt[q] + MinRetention
               PROVE  modified[Object(i)] # 0
    BY DEF ReaderGrace
  <1>1. i \in Ids /\ now \in Int /\ startedAt[q] \in Int /\ schedAt[i] \in Int
    BY DEF IInv, TypeOK
  <1>2. CASE st[i] = "live"
    BY <1>1, <1>2 DEF IInv, ObjectsKept
  <1>3. CASE st[i] \in {"scheduled", "purged"} /\ startedAt[q] <= schedAt[i]
    <2>1. now <= schedAt[i] + MinRetention
      BY <1>1, <1>3
    <2>2. QED
      BY <1>1, <1>3, <2>1 DEF IInv, ObjectsKept
  <1>4. QED
    BY <1>2, <1>3 DEF IInv, ReadersCovered

(* A query that planned within the floor finds every file of its plan,     *)
(* even when its snapshot was expired meanwhile.                           *)
THEOREM ReadersKeepTheirFiles ==
  ASSUME DistinctObjects, GraceCoversWriters
  PROVE  Spec => []ReaderGrace
  BY GraceKept, Invariance, PTL

(* An expiry never removes the latest snapshot, nor by age one younger     *)
(* than the floor, whatever commits between its listing and its removal.   *)
THEOREM ExpirySafe == Spec => ExpirySparesYoung
  <1>1. TypeOK /\ ExpiringOld /\ [Next]_vars =>
          [\A o \in Ops : ExpireSnapshots(o) =>
             \A s \in snaps \ snaps' :
               /\ s # head
               /\ phase[o] = "expiringAge" => snapTime[s] + MinRetention < now]_vars
    BY DEF TypeOK, ExpiringOld, ExpireSnapshots
  <1>2. Init => ExpiringOld
    BY InitInv DEF IInv
  <1>3. TypeOK /\ ExpiringOld /\ [Next]_vars => ExpiringOld'
    BY ExpiringStep
  <1>4. QED
    BY <1>1, <1>2, <1>3, TypeCorrect, PTL DEF Spec, ExpirySparesYoung

(* A row that a session chose stays scheduled until it is purged, and its  *)
(* object, once the session deleted it, stays away: only a file that is yet*)
(* to be written brings an object back.  This needs no clock.              *)
ChosenGone ==
  \A o \in Ops : \A i \in chosen[o] :
    /\ st[i] \in {"scheduled", "purged"}
    /\ UriOf[i] \in deleted[o] => modified[Object(i)] = 0

LEMMA ChosenStep ==
  ASSUME TypeOK, ChosenGone, [Next]_vars, DistinctObjects
  PROVE  ChosenGone'
  <1> SUFFICES ASSUME NEW o \in Ops, NEW i \in chosen'[o]
               PROVE  /\ st'[i] \in {"scheduled", "purged"}
                      /\ UriOf[i] \in deleted'[o] => modified'[Object(i)] = 0
    BY DEF ChosenGone, Object
  <1> USE DEF TypeOK
  <1>1. ASSUME NEW j \in Ids, st[j] \in {"scheduled", "purged"}
        PROVE  /\ st'[j] \in {"scheduled", "purged"}
               /\ modified[Object(j)] = 0 => modified'[Object(j)] = 0
    <2>1. st'[j] \in {"scheduled", "purged"}
      BY <1>1, CatalogStep, SMTT(30) DEF Tick, WriteFile, CommitFile, AbortFile, EndFiles,
         ExpireSnapshots, CleanupPage, Dead, RemoveRows, DeleteObject, Quiet, catalogVars
    <2>2. ASSUME NEW k \in Ids, WriteFile(k), modified[Object(j)] = 0 PROVE modified'[Object(j)] = 0
      BY <1>1, <2>2, ObjectType DEF WriteFile, DistinctObjects
    <2>3. ASSUME NEW p \in Ops, NEW u \in Uris, DeleteObject(p, u), modified[Object(j)] = 0
          PROVE  modified'[Object(j)] = 0
      BY <2>3, ObjectType DEF DeleteObject
    <2>4. QED
      BY <2>1, <2>2, <2>3, CatalogStep DEF Tick, CommitFile, AbortFile, EndFiles,
         ExpireSnapshots, CleanupPage, RemoveRows, Quiet
  <1>2. CASE SessionHolds(o)
    BY <1>1, <1>2 DEF SessionHolds, ChosenGone
  <1>3. CASE ListScheduled(o)
    <2>1. deleted'[o] = {} /\ st' = st
      BY <1>3 DEF ListScheduled, catalogVars
    <2>2. i \in Ids /\ st[i] = "scheduled"
      BY <1>3 DEF ListScheduled, OneIdPerUri, ScheduledBefore
    <2>3. QED
      BY <2>1, <2>2
  <1>4. CASE ReadReferences(o)
    BY <1>4 DEF ReadReferences
  <1>5. ASSUME NEW root \in Roots, ListWarehouse(o, root) PROVE FALSE
    BY <1>5 DEF ListWarehouse
  <1>6. ASSUME NEW u \in Uris, DeleteObject(o, u)
        PROVE  /\ st'[i] \in {"scheduled", "purged"}
               /\ UriOf[i] \in deleted'[o] => modified'[Object(i)] = 0
    <2>1. /\ chosen'[o] = chosen[o] /\ deleted'[o] \subseteq deleted[o] \cup {u}
          /\ modified'[Identity[u]] = 0
      BY <1>6 DEF DeleteObject, Objects
    <2>2. i \in Ids /\ st[i] \in {"scheduled", "purged"}
      BY <2>1 DEF ChosenGone
    <2>3. QED
      BY <1>1, <2>1, <2>2 DEF ChosenGone, Object
  <1>7. QED
    BY <1>2, <1>3, <1>4, <1>5, <1>6, SessionStep

(* A schedule row is removed only after its object has been deleted,       *)
(* however long writers and sweeps take.                                   *)
THEOREM RowsOutliveObjects ==
  ASSUME DistinctObjects
  PROVE  Spec => RowOutlivesObject
  <1>1. ASSUME TypeOK, ChosenGone, [Next]_vars, NEW i \in Ids, st[i] = "scheduled", st'[i] # "scheduled"
        PROVE  modified[Object(i)] = 0
    <2> USE DEF TypeOK
    <2>1. PICK o \in Ops : RemoveRows(o)
      BY <1>1, CatalogStep, SMTT(30) DEF Tick, WriteFile, CommitFile, AbortFile, EndFiles,
         ExpireSnapshots, CleanupPage, Dead, DeleteObject, Quiet, catalogVars
    <2>2. i \in chosen[o] /\ UriOf[i] \in deleted[o]
      BY <1>1, <2>1 DEF RemoveRows, DeletedIds
    <2>3. QED
      BY <1>1, <2>2 DEF ChosenGone
  <1>2. TypeOK /\ ChosenGone /\ [Next]_vars =>
          [\A i \in Ids : st[i] = "scheduled" /\ st'[i] # "scheduled"
             => modified[Object(i)] = 0]_vars
    BY <1>1
  <1>3. Init => ChosenGone
    BY DEF Init, ChosenGone
  <1>4. TypeOK /\ ChosenGone /\ [Next]_vars => ChosenGone'
    BY ChosenStep
  <1>5. QED
    BY <1>2, <1>3, <1>4, TypeCorrect, PTL DEF Spec, RowOutlivesObject

-----------------------------------------------------------------------------
(* THE LIFE OF A FILE                                                      *)
Lifecycle == {<<"unwritten", "written">>, <<"written", "live">>, <<"written", "aborted">>,
              <<"live", "scheduled">>, <<"scheduled", "purged">>}

(* The latest snapshot is retained, and no row begins after it.            *)
HeadRetained ==
  /\ head \in snaps
  /\ \A i \in Ids : st[i] = "live" => begin[i] <= head

LEMMA HeadStep ==
  ASSUME TypeOK, ExpiringOld, HeadRetained, [Next]_vars
  PROVE  HeadRetained'
  <1> USE DEF TypeOK, HeadRetained
  <1>1. CASE Tick \/ Quiet
    BY <1>1 DEF Tick, Quiet, catalogVars
  <1>2. ASSUME NEW j \in Ids, WriteFile(j) \/ AbortFile(j) PROVE HeadRetained'
    BY <1>2 DEF WriteFile, AbortFile
  <1>3. ASSUME NEW j \in Ids, CommitFile(j) PROVE HeadRetained'
    BY <1>3 DEF CommitFile, NewSnapshot
  <1>4. ASSUME NEW S \in SUBSET Ids, EndFiles(S) PROVE HeadRetained'
    BY <1>4 DEF EndFiles, NewSnapshot
  <1>5. ASSUME NEW o \in Ops, ExpireSnapshots(o) PROVE HeadRetained'
    BY <1>5 DEF ExpireSnapshots, ExpiringOld
  <1>6. ASSUME NEW o \in Ops, CleanupPage(o) PROVE HeadRetained'
    <2>1. /\ UNCHANGED <<head, snaps, begin>>
          /\ \A j \in Ids : st'[j] = "live" => st[j] = "live"
      BY <1>6, SMTT(30) DEF CleanupPage
    <2>2. QED
      BY <2>1
  <1>7. ASSUME NEW o \in Ops, RemoveRows(o) PROVE HeadRetained'
    BY <1>7 DEF RemoveRows
  <1>8. ASSUME NEW o \in Ops, NEW u \in Uris, DeleteObject(o, u) PROVE HeadRetained'
    BY <1>8 DEF DeleteObject, catalogVars
  <1>9. QED
    BY <1>1, <1>2, <1>3, <1>4, <1>5, <1>6, <1>7, <1>8, CatalogStep

(* What one step does to one file.                                         *)
Ages(i) ==
  /\ st'[i] # st[i] => <<st[i], st'[i]>> \in Lifecycle
  /\ Dead(i) => Dead(i)' \/ st'[i] = "scheduled"
  /\ st[i] = "scheduled" => schedAt'[i] = schedAt[i]
  /\ modified[Object(i)] # 0 => modified'[Object(i)] \in {modified[Object(i)], 0}

LEMMA FileAges ==
  ASSUME TypeOK, HeadRetained, [Next]_vars, NEW i \in Ids
  PROVE  Ages(i)
  <1> USE ObjectType DEF TypeOK, Ages, Dead, Visible, Lifecycle
  <1>1. CASE Tick \/ Quiet
    BY <1>1 DEF Tick, Quiet, catalogVars
  <1>2. ASSUME NEW j \in Ids, WriteFile(j) \/ AbortFile(j) PROVE Ages(i)
    BY <1>2 DEF WriteFile, AbortFile
  <1>3. ASSUME NEW j \in Ids, CommitFile(j) PROVE Ages(i)
    <2>1. /\ st[j] = "written" /\ st'[j] = "live" /\ snaps' = snaps \cup {head + 1} /\ head \in snaps
          /\ UNCHANGED <<end, schedAt, modified>>
      BY <1>3 DEF CommitFile, NewSnapshot, HeadRetained
    <2>2. CASE i = j
      BY <2>1, <2>2
    <2>3. CASE i # j
      <3>1. st'[i] = st[i] /\ begin'[i] = begin[i]
        BY <1>3, <2>3 DEF CommitFile
      <3>2. Dead(i) => Dead(i)'
        BY <2>1, <3>1 DEF HeadRetained
      <3>3. QED
        BY <2>1, <3>1, <3>2
    <2>4. QED
      BY <2>2, <2>3
  <1>4. ASSUME NEW S \in SUBSET Ids, EndFiles(S) PROVE Ages(i)
    BY <1>4 DEF EndFiles, NewSnapshot, HeadRetained
  <1>5. ASSUME NEW o \in Ops, ExpireSnapshots(o) PROVE Ages(i)
    BY <1>5 DEF ExpireSnapshots
  <1>6. ASSUME NEW o \in Ops, CleanupPage(o) PROVE Ages(i)
    BY <1>6, SMTT(30) DEF CleanupPage
  <1>7. ASSUME NEW o \in Ops, RemoveRows(o) PROVE Ages(i)
    BY <1>7 DEF RemoveRows
  <1>8. ASSUME NEW o \in Ops, NEW u \in Uris, DeleteObject(o, u) PROVE Ages(i)
    BY <1>8 DEF DeleteObject, catalogVars, Objects
  <1>9. QED
    BY <1>1, <1>2, <1>3, <1>4, <1>5, <1>6, <1>7, <1>8, CatalogStep

(* A file has one life: no commit, expiry or sweep brings back what no     *)
(* retained snapshot sees, what is scheduled stays so, from the same time, *)
(* until its row is purged, and no object gets younger.  So nothing        *)
(* postpones what the procedures have to do.                               *)
FilesOnlyAge == [][\A i \in Ids : Ages(i)]_vars
THEOREM NothingComesBack == Spec => FilesOnlyAge
  <1>1. Init => HeadRetained
    BY DEF Init, HeadRetained
  <1>2. TypeOK /\ ExpiringOld /\ HeadRetained /\ [Next]_vars => HeadRetained'
    BY HeadStep
  <1>3. Init => ExpiringOld
    BY InitInv DEF IInv
  <1>4. TypeOK /\ ExpiringOld /\ [Next]_vars => ExpiringOld'
    BY ExpiringStep
  <1>5. TypeOK /\ HeadRetained /\ [Next]_vars => [\A i \in Ids : Ages(i)]_vars
    BY FileAges
  <1>6. QED
    BY <1>1, <1>2, <1>3, <1>4, <1>5, TypeCorrect, PTL DEF Spec, FilesOnlyAge

-----------------------------------------------------------------------------
(* THE REFINEMENT                                                          *)
contentBar == [s \in snaps |-> {i \in Ids : Visible(i, s)}]
storedBar  == {i \in Ids : modified[Object(i)] # 0}
freshBar   == {q \in Readers : reading[q] # {} /\ now <= startedAt[q] + MinRetention}

(* No step changes what a snapshot that was there before it sees.          *)
LEMMA ContentStays ==
  ASSUME TypeOK, CommitsInTime, ExpiringOld, [Next]_vars, NEW i \in Ids, NEW s \in snaps
  PROVE  Visible(i, s)' <=> Visible(i, s)
  <1> USE DEF Visible, TypeOK, States
  <1>1. s \in 0..head /\ head \in Nat
    BY DEF ExpiringOld
  <1>2. CASE Tick \/ Quiet
    BY <1>2 DEF Tick, Quiet, catalogVars
  <1>3. ASSUME NEW j \in Ids, WriteFile(j) \/ AbortFile(j) PROVE Visible(i, s)' <=> Visible(i, s)
    BY <1>3 DEF WriteFile, AbortFile
  <1>4. ASSUME NEW j \in Ids, CommitFile(j) PROVE Visible(i, s)' <=> Visible(i, s)
    BY <1>1, <1>4 DEF CommitFile
  <1>5. ASSUME NEW S \in SUBSET Ids, EndFiles(S) PROVE Visible(i, s)' <=> Visible(i, s)
    BY <1>1, <1>5 DEF EndFiles
  <1>6. ASSUME NEW o \in Ops, ExpireSnapshots(o) PROVE Visible(i, s)' <=> Visible(i, s)
    BY <1>6 DEF ExpireSnapshots
  <1>7. ASSUME NEW o \in Ops, CleanupPage(o) PROVE Visible(i, s)' <=> Visible(i, s)
    BY <1>7, SMTT(30) DEF CleanupPage, Dead
  <1>8. ASSUME NEW o \in Ops, RemoveRows(o) PROVE Visible(i, s)' <=> Visible(i, s)
    BY <1>8 DEF RemoveRows
  <1>9. ASSUME NEW o \in Ops, NEW u \in Uris, DeleteObject(o, u) PROVE Visible(i, s)' <=> Visible(i, s)
    BY <1>9 DEF DeleteObject, catalogVars
  <1> QED
    BY <1>2, <1>3, <1>4, <1>5, <1>6, <1>7, <1>8, <1>9, CatalogStep

LEMMA ContentSame ==
  ASSUME TypeOK, CommitsInTime, ExpiringOld, [Next]_vars, snaps' = snaps
  PROVE  contentBar' = contentBar
  BY ContentStays DEF contentBar

(* A commit appends a snapshot of files that are in the store.             *)
LEMMA CommitRefines ==
  ASSUME IInv, IInv', [Next]_vars, NewSnapshot, UNCHANGED <<now, modified, readerVars>>
  PROVE  Retained!Commit
  <1> DEFINE F == {i \in Ids : Visible(i, head)}'
  <1>1. head' = head + 1 /\ snaps' = snaps \cup {head + 1} /\ head \in Nat /\ snaps \subseteq 0..head
    BY DEF IInv, TypeOK, ExpiringOld, NewSnapshot
  <1>2. storedBar' = storedBar /\ freshBar' = freshBar /\ reading' = reading
    BY DEF storedBar, freshBar, readerVars
  <1>3. F \in SUBSET storedBar
    <2>1. F \subseteq storedBar'
      BY DEF storedBar, Visible, IInv, ObjectsKept
    <2>2. QED
      BY <1>2, <2>1
  <1>4. \A s \in snaps : s # head + 1 /\ {i \in Ids : Visible(i, s)'} = {i \in Ids : Visible(i, s)}
    BY <1>1, ContentStays DEF IInv
  <1>5. \A s \in {head + 1} : {i \in Ids : Visible(i, s)'} = F
    BY <1>1 DEF Visible
  <1> HIDE DEF F
  <1>6. contentBar' = [s \in snaps \cup {head + 1} |-> IF s = head + 1 THEN F ELSE contentBar[s]]
    <2>1. contentBar' = [s \in snaps \cup {head + 1} |-> {i \in Ids : Visible(i, s)'}]
      BY <1>1 DEF contentBar, Visible
    <2>2. \A s \in snaps \cup {head + 1} :
            {i \in Ids : Visible(i, s)'} = IF s = head + 1 THEN F ELSE contentBar[s]
      BY <1>4, <1>5 DEF contentBar
    <2>3. QED
      BY <2>1, <2>2
  <1>7. DOMAIN contentBar = snaps
    BY DEF contentBar
  <1>8. QED
    BY <1>1, <1>2, <1>3, <1>6, <1>7 DEF Retained!Commit, contentBar, storedBar, freshBar

(* What a deletion takes from the store is in no retained snapshot and in  *)
(* no plan within its grace.                                               *)
LEMMA DeleteRefines ==
  ASSUME IInv, IInv', ReaderGrace', [Next]_vars, NEW o \in Ops, NEW u \in Uris, DeleteObject(o, u)
  PROVE  Retained!Reclaim
  <1> DEFINE F == storedBar \ storedBar'
  <1>1. UNCHANGED <<now, catalogVars, readerVars>>
    BY DEF DeleteObject
  <1>2. contentBar' = contentBar /\ freshBar' = freshBar /\ reading' = reading /\ head' = head
    BY <1>1, ContentSame DEF IInv, catalogVars, freshBar, readerVars
  <1>3. storedBar' \subseteq storedBar
    <2>1. \A i \in Ids : modified'[Object(i)] # 0 => modified[Object(i)] # 0
      BY ObjectType DEF DeleteObject, IInv, TypeOK
    <2>2. QED
      BY <2>1 DEF storedBar
  <1>4. \A i \in F : i \in Ids /\ modified'[Object(i)] = 0
    BY DEF storedBar
  <1>5. ASSUME NEW i \in F, NEW s \in snaps, i \in contentBar[s] PROVE FALSE
    <2>1. st[i] = "live"
      BY <1>5 DEF contentBar, Visible
    <2>2. st'[i] = "live"
      BY <1>1, <2>1 DEF catalogVars
    <2>3. QED
      BY <1>4, <2>2 DEF IInv, ObjectsKept
  <1>6. ASSUME NEW i \in F, NEW q \in freshBar, i \in reading[q] PROVE FALSE
    <2>1. q \in Readers /\ now' <= startedAt'[q] + MinRetention /\ i \in reading'[q]
      BY <1>1, <1>6 DEF freshBar, readerVars
    <2>2. QED
      BY <1>4, <2>1 DEF ReaderGrace
  <1>7. DOMAIN contentBar = snaps
    BY DEF contentBar
  <1>8. F \in SUBSET storedBar /\ storedBar' = storedBar \ F
    BY <1>3
  <1> HIDE DEF F
  <1>9. F \cap ((UNION {contentBar[s] : s \in DOMAIN contentBar}) \cup (UNION {reading[q] : q \in freshBar})) = {}
    BY <1>5, <1>6, <1>7
  <1>10. QED
    BY <1>2, <1>8, <1>9 DEF Retained!Reclaim, Retained!Needed, contentBar, storedBar, freshBar

(* What a query does.                                                      *)
LEMMA ReaderRefines ==
  ASSUME IInv, NEW q \in Readers, PlanRead(q) \/ FinishRead(q)
  PROVE  Retained!Plan(q) \/ Retained!Finish(q) \/ UNCHANGED Retained!vars
  <1>1. UNCHANGED <<now, catalogVars, modified>>
    BY DEF PlanRead, FinishRead
  <1>2. head' = head /\ contentBar' = contentBar /\ storedBar' = storedBar
    BY <1>1 DEF catalogVars, contentBar, storedBar, Visible
  <1>3. now \in Nat /\ now <= now + MinRetention
    BY DEF IInv, TypeOK
  <1>4. CASE FinishRead(q)
    <2>1. reading' = [reading EXCEPT ![q] = {}]
      BY <1>4 DEF FinishRead
    <2>2. freshBar' = freshBar \ {q}
      BY <1>1, <1>4 DEF FinishRead, freshBar, IInv, TypeOK
    <2>3. QED
      BY <1>2, <2>1, <2>2 DEF Retained!Finish, contentBar, storedBar, freshBar
  <1>5. CASE PlanRead(q)
    <2>1. PICK s \in snaps : reading' = [reading EXCEPT ![q] = contentBar[s]]
      BY <1>5 DEF PlanRead, contentBar
    <2>2. reading[q] = {} /\ startedAt' = [startedAt EXCEPT ![q] = now]
      BY <1>5 DEF PlanRead
    <2>3. CASE contentBar[s] = {}
      <3>1. reading' = reading
        BY <2>1, <2>2, <2>3 DEF IInv, TypeOK
      <3>2. freshBar' = freshBar
        BY <1>1, <2>2, <3>1 DEF freshBar, IInv, TypeOK
      <3>3. QED
        BY <1>2, <3>1, <3>2 DEF Retained!vars, contentBar, storedBar, freshBar
    <2>4. CASE contentBar[s] # {}
      <3>1. freshBar' = freshBar \cup {q}
        BY <1>1, <1>3, <2>1, <2>2, <2>4 DEF freshBar, IInv, TypeOK
      <3>2. DOMAIN contentBar = snaps
        BY DEF contentBar
      <3>3. QED
        BY <1>2, <2>1, <2>2, <3>1, <3>2 DEF Retained!Plan, contentBar, storedBar, freshBar
    <2>5. QED
      BY <2>3, <2>4
  <1>6. QED
    BY <1>4, <1>5

(* Every step is a step of RetainedData or leaves its state alone.         *)
LEMMA StepRefines == IInv /\ IInv' /\ ReaderGrace' /\ [Next]_vars => [Retained!Next]_(Retained!vars)
  <1> SUFFICES ASSUME IInv, IInv', ReaderGrace', [Next]_vars PROVE Retained!Next \/ UNCHANGED Retained!vars
    OBVIOUS
  <1>1. ASSUME UNCHANGED <<now, head, snaps, modified, readerVars>> PROVE UNCHANGED Retained!vars
    <2>1. contentBar' = contentBar
      BY <1>1, ContentSame DEF IInv
    <2>2. storedBar' = storedBar /\ freshBar' = freshBar
      BY <1>1 DEF storedBar, freshBar, readerVars
    <2>3. QED
      BY <1>1, <2>1, <2>2 DEF Retained!vars, readerVars, contentBar, storedBar, freshBar
  <1>2. CASE Tick
    <2>1. UNCHANGED <<catalogVars, modified, readerVars>> /\ now' = now + 1
      BY <1>2 DEF Tick
    <2>2. contentBar' = contentBar /\ storedBar' = storedBar /\ head' = head /\ reading' = reading
      BY <2>1, ContentSame DEF IInv, catalogVars, storedBar, readerVars
    <2>3. freshBar' \subseteq freshBar
      <3>1. now \in Nat /\ MinRetention \in Nat /\ startedAt \in [Readers -> Nat]
        BY MaintenanceAssumption DEF IInv, TypeOK
      <3>2. reading' = reading /\ startedAt' = startedAt /\ now' = now + 1
        BY <2>1 DEF readerVars
      <3>3. ASSUME NEW q \in Readers, now + 1 <= startedAt[q] + MinRetention
            PROVE  now <= startedAt[q] + MinRetention
        BY <3>1, <3>3
      <3>4. QED
        BY <3>2, <3>3 DEF freshBar
    <2>4. Retained!Age
      BY <2>2, <2>3 DEF Retained!Age, contentBar, storedBar, freshBar
    <2>5. QED
      BY <2>4 DEF Retained!Next
  <1>3. ASSUME NEW i \in Ids, WriteFile(i) PROVE Retained!Next
    <2>1. UNCHANGED <<now, head, snaps, readerVars>>
      BY <1>3 DEF WriteFile
    <2>2. contentBar' = contentBar /\ freshBar' = freshBar /\ reading' = reading
      BY <2>1, ContentSame DEF IInv, freshBar, readerVars
    <2>3. \A j \in Ids : modified[Object(j)] # 0 => modified'[Object(j)] # 0
      BY <1>3, ObjectType DEF WriteFile, IInv, TypeOK
    <2>4. storedBar' = storedBar \cup storedBar' /\ storedBar' \in SUBSET Ids
      BY <2>3 DEF storedBar
    <2>5. Retained!Write
      BY <2>1, <2>2, <2>4 DEF Retained!Write, contentBar, storedBar, freshBar
    <2>6. QED
      BY <2>5 DEF Retained!Next
  <1>4. ASSUME NEW i \in Ids, CommitFile(i) PROVE Retained!Next
    <2>1. NewSnapshot /\ UNCHANGED <<now, modified, readerVars>>
      BY <1>4 DEF CommitFile
    <2>2. QED
      BY <2>1, CommitRefines DEF Retained!Next
  <1>5. ASSUME NEW S \in SUBSET Ids, EndFiles(S) PROVE Retained!Next
    <2>1. NewSnapshot /\ UNCHANGED <<now, modified, readerVars>>
      BY <1>5 DEF EndFiles
    <2>2. QED
      BY <2>1, CommitRefines DEF Retained!Next
  <1>6. ASSUME NEW i \in Ids, AbortFile(i) PROVE UNCHANGED Retained!vars
    BY <1>1, <1>6 DEF AbortFile
  <1>7. ASSUME NEW o \in Ops, ExpireSnapshots(o) PROVE Retained!Next
    <2> DEFINE S == expiring[o] \cap snaps
    <2>1. snaps' = snaps \ S /\ UNCHANGED <<now, head, st, begin, end, modified, readerVars>>
      BY <1>7 DEF ExpireSnapshots
    <2>2. head \notin S /\ S \subseteq snaps
      BY DEF IInv, TypeOK, ExpiringOld
    <2> HIDE DEF S
    <2>3. contentBar' = [s \in snaps \ S |-> contentBar[s]]
      BY <2>1 DEF contentBar, Visible
    <2>4. storedBar' = storedBar /\ freshBar' = freshBar /\ reading' = reading
      BY <2>1 DEF storedBar, freshBar, readerVars
    <2>5. DOMAIN contentBar = snaps
      BY DEF contentBar
    <2>6. Retained!Expire
      BY <2>1, <2>2, <2>3, <2>4, <2>5 DEF Retained!Expire, contentBar, storedBar, freshBar
    <2>7. QED
      BY <2>6 DEF Retained!Next
  <1>8. ASSUME NEW o \in Ops, CleanupPage(o) \/ RemoveRows(o) PROVE UNCHANGED Retained!vars
    BY <1>1, <1>8 DEF CleanupPage, RemoveRows
  <1>9. ASSUME NEW o \in Ops, NEW u \in Uris, DeleteObject(o, u) PROVE Retained!Next
    BY <1>9, DeleteRefines DEF Retained!Next
  <1>10. CASE Quiet
    <2>1. CASE UNCHANGED readerVars
      BY <1>1, <1>10, <2>1 DEF Quiet, catalogVars
    <2>2. CASE \E q \in Readers : PlanRead(q) \/ FinishRead(q)
      BY <2>2, ReaderRefines DEF Retained!Next
    <2>3. QED
      BY <2>1, <2>2, ReaderStep
  <1> QED
    BY <1>2, <1>3, <1>4, <1>5, <1>6, <1>7, <1>8, <1>9, <1>10, CatalogStep

(* The procedures as a whole: retained snapshots are never changed, and    *)
(* only what no snapshot and no plan within the floor has can be deleted.  *)
THEOREM ImplementsRetainedData ==
  ASSUME DistinctObjects, GraceCoversWriters
  PROVE  Spec => RetentionKept
  <1>1. Init => Retained!Init
    <2> SUFFICES ASSUME Init PROVE Retained!Init
      OBVIOUS
    <2>1. contentBar = [s \in {0} |-> {}]
      BY DEF Init, contentBar, Visible
    <2>2. storedBar = {} /\ freshBar = {}
      BY ObjectType DEF Init, storedBar, freshBar
    <2>3. QED
      BY <2>1, <2>2 DEF Init, Retained!Init, contentBar, storedBar, freshBar
  <1>2. QED
    BY <1>1, Invariance, GraceKept, StepRefines, PTL DEF Spec, RetentionKept, Retained!Spec
=============================================================================
