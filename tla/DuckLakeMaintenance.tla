------------------------- MODULE DuckLakeMaintenance -------------------------
(***************************************************************************)
(* The life of a warehouse file under the maintenance procedures of the    *)
(* connector (DuckLakeProcedureOps): expire_snapshots, cleanup_old_files   *)
(* and remove_orphan_files, run by several sessions at once against one    *)
(* catalog and one object store, while statements write and commit files   *)
(* and queries read them.                                                  *)
(*                                                                         *)
(* Every procedure is a sequence of separate calls: a catalog read, then a *)
(* listing, then one delete per object, then a catalog write.  The front   *)
(* end may crash, a call may fail, and other sessions may run in between.  *)
(* Nothing is locked across the calls, so what keeps the data is the order *)
(* of the calls and the retention floor.                                   *)
(*                                                                         *)
(* The DuckLake catalog library and the object store are external: their   *)
(* actions are modelled from the calls and tests of this repository.       *)
(***************************************************************************)
EXTENDS Integers, FiniteSets, OrphanFiles

CONSTANTS
  Ids,            \* catalog file ids (data files and delete files)
  UriOf,          \* UriOf[i]: the URI the stored path of file i resolves to
  Deletable,      \* the URIs parseS3Uri and the key check accept
  Ops,            \* sessions that run a procedure
  Readers,        \* queries that hold a planned file list
  Roots,          \* what a scope may list: sets of objects (table, schema, catalog)
  Retentions,     \* retention_threshold values a session passes
  MinRetention,   \* maintenance.min_retention, the floor
  PageSize,       \* files one cleanup page of expire_snapshots moves
  WriteBound,     \* most time from writing a managed file to its commit
  SweepBound,     \* most time from reading the references to the cutoff
  MaxSnapshot,    \* bound on the number of snapshots
  MaxTime         \* bound on the clock

ASSUME MaintenanceAssumption ==
  /\ UriOf \in [Ids -> Uris]
  /\ Deletable \subseteq Uris
  /\ Roots \subseteq SUBSET Objects
  /\ Retentions \subseteq Nat
  /\ MinRetention \in Nat /\ PageSize \in Nat
  /\ WriteBound \in Nat /\ SweepBound \in Nat
  /\ MaxSnapshot \in Nat /\ MaxTime \in Nat \ {0}

VARIABLES
  now,        \* the clock; 0 as a time means "never"
  \* The catalog.
  head,       \* the latest snapshot id
  snaps,      \* retained snapshots
  snapTime,   \* snapTime[s]: when snapshot s was committed
  st,         \* st[i]: what the catalog holds for file id i
  begin,      \* begin_snapshot of file i
  end,        \* end_snapshot of file i, 0 for NULL
  schedAt,    \* schedule_start of file i
  \* The object store.
  modified,   \* modified[u]: last-modified time of object u, 0 when it is absent
  \* The procedures, one per session.
  phase,      \* how far the session's procedure is
  expiring,   \* the snapshot ids listExpirableSnapshots returned
  chosen,     \* the file ids idByUri maps to
  victims,    \* URIs still to be deleted
  deleted,    \* URIs deleted by this call
  known,      \* knownPaths, the referenced URIs remove_orphan_files read
  readAt,     \* when it read them
  \* The queries.
  reading,    \* reading[q]: the file ids a query's plan names
  startedAt   \* when it planned

catalogVars == <<head, snaps, snapTime, st, begin, end, schedAt>>
opVars      == <<phase, expiring, chosen, victims, deleted, known, readAt>>
readerVars  == <<reading, startedAt>>
vars        == <<now, catalogVars, modified, opVars, readerVars>>

-----------------------------------------------------------------------------
(* A file id has no row ("unwritten" before its object exists, "written"   *)
(* after, "aborted" when its statement gave up), a row in the data-file    *)
(* tables ("live"), a row in ducklake_files_scheduled_for_deletion         *)
(* ("scheduled"), or had one ("purged").                                   *)
States == {"unwritten", "written", "aborted", "live", "scheduled", "purged"}
Phases == {"idle", "expiringIds", "expiringAge", "paging", "deleting", "referenced", "sweeping"}

Object(i) == Identity[UriOf[i]]

TypeOK ==
  /\ now \in 1..MaxTime
  /\ head \in 0..MaxSnapshot
  /\ snaps \subseteq 0..MaxSnapshot
  /\ snapTime \in [0..MaxSnapshot -> 0..MaxTime]
  /\ st \in [Ids -> States]
  /\ begin \in [Ids -> 0..MaxSnapshot]
  /\ end \in [Ids -> 0..MaxSnapshot]
  /\ schedAt \in [Ids -> 0..MaxTime]
  /\ modified \in [Objects -> 0..MaxTime]
  /\ phase \in [Ops -> Phases]
  /\ expiring \in [Ops -> SUBSET (0..MaxSnapshot)]
  /\ chosen \in [Ops -> SUBSET Ids]
  /\ victims \in [Ops -> SUBSET Uris]
  /\ deleted \in [Ops -> SUBSET Uris]
  /\ known \in [Ops -> SUBSET Uris]
  /\ readAt \in [Ops -> 0..MaxTime]
  /\ reading \in [Readers -> SUBSET Ids]
  /\ startedAt \in [Readers -> 0..MaxTime]
  \* Only a call that deletes objects has a list of them.
  /\ \A o \in Ops : phase[o] \notin {"deleting", "sweeping"} =>
                     victims[o] = {} /\ chosen[o] = {} /\ deleted[o] = {}

Init ==
  /\ now = 1
  /\ head = 0
  /\ snaps = {0}
  /\ snapTime = [s \in 0..MaxSnapshot |-> IF s = 0 THEN 1 ELSE 0]
  /\ st = [i \in Ids |-> "unwritten"]
  /\ begin = [i \in Ids |-> 0]
  /\ end = [i \in Ids |-> 0]
  /\ schedAt = [i \in Ids |-> 0]
  /\ modified = [u \in Objects |-> 0]
  /\ phase = [o \in Ops |-> "idle"]
  /\ expiring = [o \in Ops |-> {}]
  /\ chosen = [o \in Ops |-> {}]
  /\ victims = [o \in Ops |-> {}]
  /\ deleted = [o \in Ops |-> {}]
  /\ known = [o \in Ops |-> {}]
  /\ readAt = [o \in Ops |-> 0]
  /\ reading = [q \in Readers |-> {}]
  /\ startedAt = [q \in Readers |-> 0]

(* A file is visible at snapshot s when begin_snapshot <= s < end_snapshot. *)
Visible(i, s) ==
  /\ st[i] = "live"
  /\ begin[i] <= s
  /\ end[i] = 0 \/ s < end[i]

(* A mutant of Dead: the older retained snapshots are forgotten.           *)
DeadAtHead(i) == st[i] = "live" /\ ~Visible(i, head)

(* A row no retained snapshot sees; only such rows may be scheduled.       *)
Dead(i) == st[i] = "live" /\ \A s \in snaps : ~Visible(i, s)

-----------------------------------------------------------------------------
(* The clock.  It does not pass a deadline: a statement that wrote a       *)
(* managed file commits or gives up within WriteBound, and a session that  *)
(* read the references computes its cutoff within SweepBound.              *)
Tick ==
  /\ now < MaxTime
  /\ \A i \in Ids : st[i] = "written" /\ Object(i) \in Managed
                      => now < modified[Object(i)] + WriteBound
  /\ \A o \in Ops : phase[o] = "referenced" => now < readAt[o] + SweepBound
  /\ now' = now + 1
  /\ UNCHANGED <<catalogVars, modified, opVars, readerVars>>

(* A backend (or another engine) writes a new file under a fresh name, or  *)
(* add_files names an object that another file id already refers to.       *)
WriteFile(i) ==
  /\ st[i] = "unwritten"
  /\ st' = [st EXCEPT ![i] = "written"]
  /\ modified' = IF modified[Object(i)] = 0
                 THEN [modified EXCEPT ![Object(i)] = now]
                 ELSE modified
  /\ UNCHANGED <<now, head, snaps, snapTime, begin, end, schedAt, opVars, readerVars>>

NewSnapshot ==
  /\ head < MaxSnapshot
  /\ head' = head + 1
  /\ snaps' = snaps \cup {head + 1}
  /\ snapTime' = [snapTime EXCEPT ![head + 1] = now]

(* commitInsert: the file becomes visible in a new snapshot.               *)
CommitFile(i) ==
  /\ st[i] = "written"
  /\ NewSnapshot
  /\ st' = [st EXCEPT ![i] = "live"]
  /\ begin' = [begin EXCEPT ![i] = head + 1]
  /\ UNCHANGED <<now, end, schedAt, modified, opVars, readerVars>>

(* The statement fails.  Its file stays: rollback drops only memory.       *)
AbortFile(i) ==
  /\ st[i] = "written"
  /\ st' = [st EXCEPT ![i] = "aborted"]
  /\ UNCHANGED <<now, head, snaps, snapTime, begin, end, schedAt, modified, opVars, readerVars>>

(* A commit that ends files: DROP TABLE, DELETE or a rewrite elsewhere.    *)
EndFiles(S) ==
  /\ S # {}
  /\ \A i \in S : Visible(i, head)
  /\ NewSnapshot
  /\ end' = [i \in Ids |-> IF i \in S THEN head + 1 ELSE end[i]]
  /\ UNCHANGED <<now, st, begin, schedAt, modified, opVars, readerVars>>

-----------------------------------------------------------------------------
(* A mutant of Idle: the deletion lists survive the call.                  *)
IdleForgets(o) ==
  /\ phase' = [phase EXCEPT ![o] = "idle"]
  /\ expiring' = [expiring EXCEPT ![o] = {}]
  /\ known' = [known EXCEPT ![o] = {}]
  /\ readAt' = [readAt EXCEPT ![o] = 0]
  /\ UNCHANGED <<chosen, victims, deleted>>

(* A procedure of this session has returned, thrown or been lost.          *)
Idle(o) ==
  /\ phase' = [phase EXCEPT ![o] = "idle"]
  /\ expiring' = [expiring EXCEPT ![o] = {}]
  /\ chosen' = [chosen EXCEPT ![o] = {}]
  /\ victims' = [victims EXCEPT ![o] = {}]
  /\ deleted' = [deleted EXCEPT ![o] = {}]
  /\ known' = [known EXCEPT ![o] = {}]
  /\ readAt' = [readAt EXCEPT ![o] = 0]

(* A mutant of AllowedRetention: the floor is not enforced.                *)
AnyRetention(r) == r \in Retentions

(* retention_threshold below the floor is refused before anything is read. *)
AllowedRetention(r) == r \in Retentions /\ r >= MinRetention

(* listExpirableSnapshots: never the latest; by id, or older than a cutoff. *)
ExpirableIds(ids) == (ids \cap snaps) \ {head}
ExpirableBefore(cutoff) == {s \in snaps \ {head} : snapTime[s] < cutoff}

(* A dry run and an empty list return here, so neither changes any state.  *)
ListExpirable(o, S, mode) ==
  /\ phase[o] = "idle"
  /\ S # {}
  /\ phase' = [phase EXCEPT ![o] = mode]
  /\ expiring' = [expiring EXCEPT ![o] = S]
  /\ UNCHANGED <<now, catalogVars, modified, chosen, victims, deleted, known, readAt, readerVars>>

ListExpirableIds(o) ==
  \E ids \in SUBSET snaps : ListExpirable(o, ExpirableIds(ids), "expiringIds")

ListExpirableByAge(o) ==
  \E r \in Retentions : AllowedRetention(r)
                          /\ ListExpirable(o, ExpirableBefore(now - r), "expiringAge")

(* expireSnapshots, phase one: the snapshot rows go, in one transaction.   *)
ExpireSnapshots(o) ==
  /\ phase[o] \in {"expiringIds", "expiringAge"}
  /\ snaps' = snaps \ expiring[o]
  /\ phase' = [phase EXCEPT ![o] = "paging"]
  /\ expiring' = [expiring EXCEPT ![o] = {}]
  /\ UNCHANGED <<now, head, snapTime, st, begin, end, schedAt, modified,
                 chosen, victims, deleted, known, readAt, readerVars>>

(* Phase two, a page: dead rows move to the schedule, in one transaction.  *)
CleanupPage(o) ==
  /\ phase[o] = "paging"
  /\ \E page \in SUBSET {i \in Ids : Dead(i)} :
       /\ page # {}
       /\ Cardinality(page) <= PageSize
       /\ st' = [i \in Ids |-> IF i \in page THEN "scheduled" ELSE st[i]]
       /\ schedAt' = [i \in Ids |-> IF i \in page THEN now ELSE schedAt[i]]
  /\ UNCHANGED <<now, head, snaps, snapTime, begin, end, modified, opVars, readerVars>>

(* A mutant of ExpiryDone: the loop may stop with dead rows left.          *)
ExpiryStops(o) ==
  /\ phase[o] = "paging"
  /\ Idle(o)
  /\ UNCHANGED <<now, catalogVars, modified, readerVars>>

ExpiryDone(o) ==
  /\ phase[o] = "paging"
  /\ \A i \in Ids : ~Dead(i)
  /\ Idle(o)
  /\ UNCHANGED <<now, catalogVars, modified, readerVars>>

(* cleanUpExpiredObjects, what the operator is told to run after a failed  *)
(* page: expire_snapshots finds no id to expire and returns early.         *)
ResumeCleanup(o) ==
  /\ phase[o] = "idle"
  /\ \E i \in Ids : Dead(i)
  /\ phase' = [phase EXCEPT ![o] = "paging"]
  /\ UNCHANGED <<now, catalogVars, modified, expiring, chosen, victims, deleted, known,
                 readAt, readerVars>>

-----------------------------------------------------------------------------
(* listFilesScheduledForDeletion(cutoff).                                  *)
ScheduledBefore(cutoff) == {i \in Ids : st[i] = "scheduled" /\ schedAt[i] < cutoff}

(* idByUri keeps one file id for each URI: the last row the list had.      *)
OneIdPerUri(S) ==
  {C \in SUBSET S : /\ {UriOf[i] : i \in C} = {UriOf[i] : i \in S}
                    /\ \A i, j \in C : UriOf[i] = UriOf[j] => i = j}

ListScheduled(o) ==
  /\ phase[o] = "idle"
  /\ \E r \in Retentions :
       LET scheduled == ScheduledBefore(now - r)
       IN  /\ AllowedRetention(r)
           /\ scheduled # {}
           /\ \E C \in OneIdPerUri(scheduled) :
                /\ chosen' = [chosen EXCEPT ![o] = C]
                /\ victims' = [victims EXCEPT ![o] = {UriOf[i] : i \in C}]
  /\ phase' = [phase EXCEPT ![o] = "deleting"]
  /\ UNCHANGED <<now, catalogVars, modified, expiring, deleted, known, readAt, readerVars>>

(* removeObject on one URI.  Deleting an absent object succeeds.  A reply  *)
(* that is lost makes a failure of a delete that S3 has done.              *)
DeleteObject(o, u) ==
  /\ phase[o] \in {"deleting", "sweeping"}
  /\ u \in victims[o] \cap Deletable
  /\ modified' = [modified EXCEPT ![Identity[u]] = 0]
  /\ victims' = [victims EXCEPT ![o] = @ \ {u}]
  /\ deleted' \in {deleted, [deleted EXCEPT ![o] = @ \cup {u}]}
  /\ UNCHANGED <<now, catalogVars, phase, expiring, chosen, known, readAt, readerVars>>

(* A refused key or an S3 error is a failure of that object alone.         *)
DeleteFails(o, u) ==
  /\ phase[o] \in {"deleting", "sweeping"}
  /\ u \in victims[o]
  /\ victims' = [victims EXCEPT ![o] = @ \ {u}]
  /\ UNCHANGED <<now, catalogVars, modified, phase, expiring, chosen, deleted, known,
                 readAt, readerVars>>

(* Mutants of DeletedIds: every chosen row goes, deleted or not; a row     *)
(* that shares its object with another row stays.                          *)
ChosenIds(o) == chosen[o]
UnsharedIds(o) ==
  {i \in chosen[o] : UriOf[i] \in deleted[o] /\ \A j \in Ids : UriOf[j] = UriOf[i] => j = i}

(* deletedIds: the file ids of the objects this call deleted.              *)
DeletedIds(o) == {i \in chosen[o] : UriOf[i] \in deleted[o]}

(* removeScheduledFileRows(deletedIds), and the procedure returns.         *)
RemoveRows(o) ==
  /\ phase[o] = "deleting"
  /\ victims[o] = {}
  /\ st' = [i \in Ids |-> IF st[i] = "scheduled" /\ i \in DeletedIds(o) THEN "purged" ELSE st[i]]
  /\ Idle(o)
  /\ UNCHANGED <<now, head, snaps, snapTime, begin, end, schedAt, modified, readerVars>>

-----------------------------------------------------------------------------
(* A mutant of Referenced: the scheduled rows are left out.                *)
ReferencedLive == {UriOf[i] : i \in {j \in Ids : st[j] = "live"}}

(* listAllReferencedFiles: every row of the data-file tables, of dropped   *)
(* tables too, and every scheduled row.                                    *)
Referenced == {UriOf[i] : i \in {j \in Ids : st[j] \in {"live", "scheduled"}}}

ReadReferences(o) ==
  /\ phase[o] = "idle"
  /\ phase' = [phase EXCEPT ![o] = "referenced"]
  /\ known' = [known EXCEPT ![o] = Referenced]
  /\ readAt' = [readAt EXCEPT ![o] = now]
  /\ UNCHANGED <<now, catalogVars, modified, expiring, chosen, victims, deleted, readerVars>>

(* The cutoff is computed after the references were read and the listing   *)
(* made after that.  An object created in between is younger than the      *)
(* cutoff, so the two steps are one here.                                  *)
ListWarehouse(o, root) ==
  /\ phase[o] = "referenced"
  /\ \E r \in Retentions :
       /\ AllowedRetention(r)
       /\ victims' = [victims EXCEPT ![o] =
            Find({u \in root : modified[u] # 0}, known[o], modified, now - r)]
  /\ phase' = [phase EXCEPT ![o] = "sweeping"]
  /\ known' = [known EXCEPT ![o] = {}]
  /\ readAt' = [readAt EXCEPT ![o] = 0]
  /\ UNCHANGED <<now, catalogVars, modified, expiring, chosen, deleted, readerVars>>

SweepDone(o) ==
  /\ phase[o] = "sweeping"
  /\ victims[o] = {}
  /\ Idle(o)
  /\ UNCHANGED <<now, catalogVars, modified, readerVars>>

-----------------------------------------------------------------------------
(* A call throws: the expiry lost a commit conflict, a cleanup page failed *)
(* (pages before it stay), a listing broke off (it is never used), or the  *)
(* rows could not be removed after their objects were deleted.             *)
Throw(o) ==
  /\ \/ phase[o] \in {"expiringIds", "expiringAge", "paging", "referenced"}
     \/ phase[o] = "deleting" /\ victims[o] = {} /\ DeletedIds(o) # {}
  /\ Idle(o)
  /\ UNCHANGED <<now, catalogVars, modified, readerVars>>

(* The front end dies: every session's procedure stops where it is.        *)
Crash ==
  /\ \E o \in Ops : phase[o] # "idle"
  /\ phase' = [o \in Ops |-> "idle"]
  /\ expiring' = [o \in Ops |-> {}]
  /\ chosen' = [o \in Ops |-> {}]
  /\ victims' = [o \in Ops |-> {}]
  /\ deleted' = [o \in Ops |-> {}]
  /\ known' = [o \in Ops |-> {}]
  /\ readAt' = [o \in Ops |-> 0]
  /\ UNCHANGED <<now, catalogVars, modified, readerVars>>

(* A query pins a retained snapshot and plans its files; it opens them     *)
(* later, and nothing in the catalog knows that it runs.                   *)
PlanRead(q) ==
  /\ reading[q] = {}
  /\ \E s \in snaps : reading' = [reading EXCEPT ![q] = {i \in Ids : Visible(i, s)}]
  /\ startedAt' = [startedAt EXCEPT ![q] = now]
  /\ UNCHANGED <<now, catalogVars, modified, opVars>>

FinishRead(q) ==
  /\ reading[q] # {}
  /\ reading' = [reading EXCEPT ![q] = {}]
  /\ startedAt' = [startedAt EXCEPT ![q] = 0]
  /\ UNCHANGED <<now, catalogVars, modified, opVars>>

Statement ==
  \/ \E i \in Ids : WriteFile(i) \/ CommitFile(i) \/ AbortFile(i)
  \/ \E S \in SUBSET Ids : EndFiles(S)

Expiry(o) ==
  \/ ListExpirableIds(o)
  \/ ListExpirableByAge(o)
  \/ ExpireSnapshots(o)
  \/ CleanupPage(o)
  \/ ExpiryDone(o)
  \/ ResumeCleanup(o)

Cleanup(o) == ListScheduled(o) \/ RemoveRows(o)

Sweep(o) ==
  \/ ReadReferences(o)
  \/ \E root \in Roots : ListWarehouse(o, root)
  \/ SweepDone(o)

Deletion(o) == \E u \in Uris : DeleteObject(o, u) \/ DeleteFails(o, u)

Next ==
  \/ Tick
  \/ Statement
  \/ \E o \in Ops : Expiry(o) \/ Cleanup(o) \/ Sweep(o) \/ Deletion(o) \/ Throw(o)
  \/ Crash
  \/ \E q \in Readers : PlanRead(q) \/ FinishRead(q)

Spec == Init /\ [][Next]_vars

(* Next without its faults: no call throws, the front end lives and an S3  *)
(* delete that the key check lets through succeeds.                        *)
Healthy ==
  \/ Tick
  \/ Statement
  \/ \E o \in Ops : Expiry(o) \/ Cleanup(o) \/ Sweep(o)
  \/ \E o \in Ops, u \in Uris :
       \/ DeleteObject(o, u) /\ u \in deleted'[o]
       \/ u \notin Deletable /\ DeleteFails(o, u)
  \/ \E q \in Readers : PlanRead(q) \/ FinishRead(q)

(* What the liveness properties assume of the world: the clock goes on, a  *)
(* statement ends, a procedure that was started goes on to its end, and    *)
(* operators keep starting each of them.  The last is strong fairness: a   *)
(* session is free for one procedure only while it runs no other.          *)
Fairness ==
  /\ SF_vars(Tick)
  /\ \A i \in Ids : WF_vars(AbortFile(i))
  /\ \A o \in Ops :
       /\ WF_vars(ExpireSnapshots(o) \/ CleanupPage(o) \/ ExpiryDone(o))
       /\ WF_vars(Deletion(o) \/ RemoveRows(o) \/ SweepDone(o))
       /\ WF_vars(\E root \in Roots : ListWarehouse(o, root))
       /\ SF_vars(ResumeCleanup(o))
       /\ SF_vars(ListScheduled(o))
       /\ SF_vars(ReadReferences(o))

-----------------------------------------------------------------------------
(* PROPERTIES                                                              *)

(* TypeOK, above: the type invariant, and that a session keeps no deletion *)
(* list from one procedure call to the next.                               *)

(* The floor is a grace period for running queries (the comment on         *)
(* minRetentionMillis): a query that planned less than MinRetention ago    *)
(* still finds every file of its plan, though its snapshot may be expired. *)
ReaderGrace ==
  \A q \in Readers : \A i \in reading[q] :
    now <= startedAt[q] + MinRetention => modified[Object(i)] # 0

(* A committed file is in the store until an expiry schedules it: no stale *)
(* list of a cleanup names it, no sweep takes it for an orphan.  The floor *)
(* protects its writer, if the file was committed within MinRetention.  The*)
(* code computes the cutoff only after it has read the references, so this *)
(* fails when that read takes long; see the slow-sweep run.                *)
InFlightFilesProtected ==
  \A i \in Ids : st[i] = "live" => modified[Object(i)] # 0

(* A schedule row is dropped only when its object is gone, so no crash or  *)
(* failed delete between the two leaves an object nothing remembers.       *)
RowOutlivesObject ==
  [][\A i \in Ids : st[i] = "scheduled" /\ st'[i] # "scheduled"
       => modified[Object(i)] = 0]_vars

(* An expiry by age removes no snapshot younger than the floor and none    *)
(* removes the latest, though other sessions commit and expire between the *)
(* listing and the removal.                                                *)
ExpirySparesYoung ==
  [][\A o \in Ops : ExpireSnapshots(o) =>
       \A s \in snaps \ snaps' :
         /\ s # head
         /\ phase[o] = "expiringAge" => snapTime[s] + MinRetention < now]_vars

(* cleanup_old_files is resumable: whatever fails on the way, a deletable  *)
(* scheduled object and its row are gone in the end (if the clock of the   *)
(* model reaches the end of its grace period).                             *)
QueueDrains ==
  \A i \in Ids :
    st[i] = "scheduled" /\ UriOf[i] \in Deletable /\ schedAt[i] + MinRetention < MaxTime
      ~> st[i] = "purged"

(* Every page failure is recoverable: a file no retained snapshot sees is  *)
(* scheduled in the end, by the resume API if not by the expiry itself.    *)
DeadFilesScheduled ==
  \A i \in Ids : Dead(i) ~> st[i] \in {"scheduled", "purged"}

(* A managed file whose statement failed is reclaimed by a sweep that      *)
(* lists it, once the model's clock has passed its grace period, unless a  *)
(* row of another file id refers to the same object.                       *)
AbortedReclaimed ==
  \A i \in Ids :
    /\ st[i] = "aborted"
    /\ Object(i) \in Managed \cap Deletable
    /\ \E root \in Roots : Object(i) \in root
    /\ modified[Object(i)] + MinRetention < MaxTime
    ~> \/ modified[Object(i)] = 0
       \/ \E j \in Ids \ {i} : Object(j) = Object(i) /\ st[j] \in {"live", "scheduled"}

(* The procedures implement RetainedData: no retained snapshot is changed  *)
(* by an expiry, a cleanup page or a deletion, and what leaves the store is*)
(* in no retained snapshot and in no plan that is younger than the floor.  *)
Retained == INSTANCE RetainedData WITH
  Files   <- Ids,
  Queries <- Readers,
  content <- [s \in snaps |-> {i \in Ids : Visible(i, s)}],
  stored  <- {i \in Ids : modified[Object(i)] # 0},
  plan    <- reading,
  fresh   <- {q \in Readers : reading[q] # {} /\ now <= startedAt[q] + MinRetention}
RetentionKept == Retained!Spec
=============================================================================
