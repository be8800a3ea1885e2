---------------------------- MODULE ScanPlanning ----------------------------
(***************************************************************************)
(* How a query of the connector is planned: getTableHandle pins the latest *)
(* snapshot, time travel may move the pin, applyFilter selects file ids,   *)
(* planScan turns the files of the pin into ranges, and                    *)
(* getScanNodeProperties declares the columns the path carries.  Each call *)
(* reads the catalog in a session of its own, and applyFilter in one per   *)
(* predicate, while other engines commit, flush and compact.               *)
(*                                                                         *)
(* The pin fixes which rows a query sees.  It does not fix which files     *)
(* hold them: flush and compaction move rows of old snapshots to new files *)
(* and drop the old ones.  What planScan cannot serve exactly it refuses.  *)
(***************************************************************************)
EXTENDS PredicatePruning, FiniteSets, FiniteSetsExt

CONSTANTS
  Rows,          \* the rows that are ever inserted
  FilterA,       \* the first conjunct of the filter
  FilterB,       \* the second one
  Files,         \* data file ids
  Queries,
  Filtered,      \* whether queries carry the filter: a set of booleans
  Layouts,       \* the layouts new files have
  Limits,        \* LIMIT values, 0 for none
  InlinedReads,  \* values of experimental.inlined.reads: a set of booleans
  Racing,        \* whether a rewrite may run between two reads of one query
  MaxSnapshot    \* bound on the number of snapshots

(* Where a file has the table's partition columns: in its path (add_files  *)
(* of a hive tree), in its body and written under a partition spec, or in  *)
(* its body with no partition id, as before the table was partitioned.     *)
AnyLayout == {"hive", "native", "plain"}

ASSUME ScanAssumption ==
  /\ Rows \subseteq Records /\ IsFiniteSet(Files)
  /\ Conjunct(FilterA) /\ Conjunct(FilterB)
  /\ Filtered \subseteq BOOLEAN /\ Layouts \subseteq AnyLayout
  /\ Limits \subseteq Nat
  /\ InlinedReads \subseteq BOOLEAN /\ Racing \in BOOLEAN
  /\ MaxSnapshot \in Nat

VARIABLES
  head,     \* the latest snapshot
  born,     \* born[r]: the snapshot that inserted row r, 0 before
  gone,     \* gone[r]: the snapshot that deleted it, 0 before
  file,     \* file[f]: the data file f as it was written, with its delete file
  files,    \* the data files that still have a catalog row
  inlined,  \* rows in the inlined-data table
  tombs,    \* rows of data files that inlined deletes name
  query     \* query[q]: what a query has so far

catalog == <<head, born, gone, file, files, inlined, tombs>>
vars    == <<catalog, query>>

-----------------------------------------------------------------------------
Snapshots == 0..MaxSnapshot
All == Files    \* prunedFileIds = null

FileRecord ==
  [rows: SUBSET Rows, begin: Snapshots, end: Snapshots, partialMax: Snapshots,
   deletes: SUBSET Rows, deletesFrom: Snapshots, layout: AnyLayout]

NoFile == [rows |-> {}, begin |-> 0, end |-> 0, partialMax |-> 0,
           deletes |-> {}, deletesFrom |-> 0, layout |-> "native"]

(* step: how far planning is; pruned: prunedFileIds; plan: what planScan   *)
(* returned, with the rows each range yields; keys: path_partition_keys.   *)
QueryRecord ==
  [step: {"idle", "handle", "statsA", "filtered", "planned", "refused"},
   pin: Snapshots, filtered: BOOLEAN, inlinedReads: BOOLEAN, pruned: SUBSET Files,
   ranges: SUBSET (Files \cup {"inlined"}), reads: SUBSET (Rows \X (Files \cup {"inlined"})),
   count: Int, limit: Limits \cup {0}, keys: {"unread", "none", "declared"}]

IdleQuery == [step |-> "idle", pin |-> 0, filtered |-> FALSE, inlinedReads |-> FALSE,
              pruned |-> All, ranges |-> {}, reads |-> {}, count |-> -1, limit |-> 0, keys |-> "unread"]

TypeOK ==
  /\ head \in Snapshots
  /\ born \in [Rows -> Snapshots] /\ gone \in [Rows -> Snapshots]
  /\ file \in [Files -> FileRecord]
  /\ files \subseteq Files
  /\ inlined \subseteq Rows /\ tombs \subseteq Rows
  /\ query \in [Queries -> QueryRecord]

Init ==
  /\ head = 0
  /\ born = [r \in Rows |-> 0] /\ gone = [r \in Rows |-> 0]
  /\ file = [f \in Files |-> NoFile]
  /\ files = {} /\ inlined = {} /\ tombs = {}
  /\ query = [q \in Queries |-> IdleQuery]

(* What a snapshot means: the rows inserted by then and not yet deleted.   *)
VisibleAt(r, s) == born[r] \in 1..s /\ (gone[r] = 0 \/ s < gone[r])
RowsAt(s) == {r \in Rows : VisibleAt(r, s)}

(* getDataFiles(table, s), and what it joins to each file.                 *)
DataFiles(s) == {f \in files : file[f].begin <= s /\ (file[f].end = 0 \/ s < file[f].end)}
HasDeleteFile(f, s) == file[f].deletesFrom \in 1..s
(* The sum of the record_count of files.                                   *)
RecordCount(F) == Cardinality({x \in F \X Rows : x[2] \in file[x[1]].rows})

(* getInlinedDataInfos(...).hasLiveRows and hasInlinedDeletes.             *)
InlinedAt(s) == {r \in inlined : VisibleAt(r, s)}
TombsAt(s) == {r \in tombs : gone[r] <= s}

-----------------------------------------------------------------------------
(* COMMITS OF OTHER STATEMENTS AND ENGINES                                 *)
Commit == head < MaxSnapshot /\ head' = head + 1

Unborn == {r \in Rows : born[r] = 0}
Born(R) == born' = [r \in Rows |-> IF r \in R THEN head + 1 ELSE born[r]]
Gone(R) == gone' = [r \in Rows |-> IF r \in R THEN head + 1 ELSE gone[r]]

Fresh(f) == f \notin files /\ file[f] = NoFile

InsertFile(R, f, layout) ==
  /\ R # {} /\ Fresh(f)
  /\ Commit /\ Born(R)
  /\ file' = [file EXCEPT ![f] = [NoFile EXCEPT !.rows = R, !.begin = head + 1,
                                               !.layout = layout]]
  /\ files' = files \cup {f}
  /\ UNCHANGED <<gone, inlined, tombs, query>>

InsertInlined(R) ==
  /\ R # {}
  /\ Commit /\ Born(R)
  /\ inlined' = inlined \cup R
  /\ UNCHANGED <<gone, file, files, tombs, query>>

(* A delete of rows in files writes new delete files that repeat the old   *)
(* positions; one of inlined rows ends them in the catalog.                *)
WithDeletes(f, D, s) ==
  LET hit == file[f].rows \cap D
  IN  IF hit = {} THEN file[f]
      ELSE [file[f] EXCEPT !.deletes = @ \cup hit,
                           !.deletesFrom = IF @ = 0 THEN s ELSE @]

DeleteRows(D) ==
  /\ D # {} /\ D \subseteq RowsAt(head)
  /\ Commit /\ Gone(D)
  /\ file' = [f \in Files |-> IF f \in DataFiles(head) THEN WithDeletes(f, D \ inlined, head + 1)
                                                       ELSE file[f]]
  /\ UNCHANGED <<born, files, inlined, tombs, query>>

(* A small delete of file rows is itself inlined.                          *)
DeleteInlined(r) ==
  /\ r \in RowsAt(head) \ inlined
  /\ Commit /\ Gone({r})
  /\ tombs' = tombs \cup {r}
  /\ UNCHANGED <<born, file, files, inlined, query>>

(* Planning is over when the ranges and the scan properties are there.     *)
Planned(q) == query[q].step = "planned" /\ query[q].keys # "unread"

(* PHYSICAL REWRITES: a new snapshot, the same rows in every snapshot.     *)
HasRead(q) == query[q].step \notin {"idle", "handle"} \/ query[q].keys # "unread"
MayRewrite == Racing \/ \A q \in Queries : HasRead(q) => query[q].step = "refused" \/ Planned(q)

(* The newest of the snapshots that a file has rows of, or NULL for one.   *)
PartialMax(snapshots) == IF Cardinality(snapshots) = 1 THEN 0 ELSE Max(snapshots)

(* flush_inlined_data: the inlined rows go to a file that is visible from  *)
(* the first of them on, and the inlined deletes to delete files that are  *)
(* active from the first of them on.                                       *)
Flush(f) ==
  /\ MayRewrite
  /\ inlined \cup tombs # {} /\ Fresh(f)
  /\ Commit
  /\ LET dead == {r \in inlined \cup tombs : gone[r] # 0}
         From(R) == IF R = {} THEN 0 ELSE Min({gone[r] : r \in R})
         flushed == [NoFile EXCEPT !.rows = inlined, !.begin = Min({born[r] : r \in inlined}),
                                   !.partialMax = PartialMax({born[r] : r \in inlined}),
                                   !.deletes = dead \cap inlined,
                                   !.deletesFrom = From(dead \cap inlined)]
         deleted == [g \in Files |->
                       LET hit == file[g].rows \cap tombs
                       IN  IF g \notin files \/ hit = {} THEN file[g]
                           ELSE [file[g] EXCEPT
                                   !.deletes = @ \cup hit,
                                   !.deletesFrom = IF @ = 0 THEN From(hit) ELSE Min({@, From(hit)})]]
     IN  /\ file' = IF inlined = {} THEN deleted ELSE [deleted EXCEPT ![f] = flushed]
         /\ files' = IF inlined = {} THEN files ELSE files \cup {f}
  /\ inlined' = {} /\ tombs' = {}
  /\ UNCHANGED <<born, gone, query>>

(* An engine that rewrites files writes every column to their bodies.      *)
Rewritten(g) == IF file[g].layout = "hive" THEN "native" ELSE file[g].layout

(* The snapshots that the rows of a file are tagged with, as a merge does. *)
Tags(g) == {file[g].begin} \cup IF file[g].partialMax = 0 THEN {} ELSE {file[g].partialMax}

(* merge_adjacent_files: one file takes the place of several, backdated to *)
(* the first of them, and their rows leave the catalog at once.            *)
Compact(F, f) ==
  /\ MayRewrite
  /\ Cardinality(F) > 1 /\ Fresh(f)
  /\ Cardinality({file[g].layout : g \in F}) = 1
  /\ \A g \in F : file[g].deletesFrom = 0 /\ file[g].end = 0 /\ file[g].rows \cap tombs = {}
  /\ Commit
  /\ LET rows == UNION {file[g].rows : g \in F}
     IN  file' = [file EXCEPT ![f] = [NoFile EXCEPT !.rows = rows,
                                                    !.begin = Min({file[g].begin : g \in F}),
                                                    !.partialMax = PartialMax(UNION {Tags(g) : g \in F}),
                                                    !.layout = Rewritten(CHOOSE g \in F : TRUE)]]
  /\ files' = (files \ F) \cup {f}
  /\ UNCHANGED <<born, gone, inlined, tombs, query>>

(* rewrite_data_files: the rows that are left move, history stays.         *)
Rewrite(g, f) ==
  /\ MayRewrite
  /\ g \in DataFiles(head) /\ HasDeleteFile(g, head) /\ Fresh(f)
  /\ file[g].rows \cap tombs = {}
  /\ file[g].rows \ file[g].deletes # {}
  /\ Commit
  /\ file' = [file EXCEPT ![g].end = head + 1,
                          ![f] = [NoFile EXCEPT !.rows = file[g].rows \ file[g].deletes,
                                                !.begin = head + 1,
                                                !.layout = Rewritten(g)]]
  /\ files' = files \cup {f}
  /\ UNCHANGED <<born, gone, inlined, tombs, query>>

-----------------------------------------------------------------------------
(* THE CONNECTOR                                                           *)
Goes(q, changes) == query' = [query EXCEPT ![q] = changes] /\ UNCHANGED catalog

(* getTableHandle and beginQuerySnapshot: the pin is the latest snapshot.  *)
GetTableHandle(q, filtered, inlinedReads) ==
  /\ query[q].step = "idle"
  /\ Goes(q, [query[q] EXCEPT !.step = "handle", !.pin = head,
                              !.filtered = filtered, !.inlinedReads = inlinedReads])

(* A mutant of ApplySnapshot: the negative id of an invalid pin is applied. *)
ApplyInvalid(q, s) ==
  /\ query[q].step = "handle" /\ query[q].keys = "unread"
  /\ s \in 0..head /\ s # query[q].pin
  /\ \E pin \in {s, -1} : Goes(q, [query[q] EXCEPT !.pin = pin])

(* resolveTimeTravel finds any snapshot up to the latest; applySnapshot    *)
(* moves the pin to it.                                                    *)
ApplySnapshot(q, s) ==
  /\ query[q].step = "handle" /\ query[q].keys = "unread"
  /\ s \in 0..head /\ s # query[q].pin
  /\ Goes(q, [query[q] EXCEPT !.pin = s])

(* The statistics of a file are those of the rows it was written with.     *)
AsWritten(f) == [rows |-> file[f].rows, known |-> Columns, active |-> FALSE, bucket |-> Null]

(* A mutant of Overlapping: the statistics must lie inside the range.      *)
Inside(s, e) ==
  {f \in DataFiles(s) : \A p \in Ranges(e) : \A v \in Stored(AsWritten(f), p.col) :
     (p.lo = Null \/ Leq(p.lo, v)) /\ (p.hi = Null \/ Leq(v, p.hi))}

(* findDataFileIdsInRange: the files of the pin whose statistics overlap.  *)
Overlapping(s, e) ==
  {f \in DataFiles(s) : \A p \in Ranges(e) : MeetsRange(AsWritten(f), p)}

(* applyFilter: one catalog call for each range predicate or bucket spec,  *)
(* the answers intersected.  Nothing pushable leaves every file.           *)
PruneFirst(q) ==
  /\ query[q].step = "handle" /\ query[q].filtered
  /\ Goes(q, [query[q] EXCEPT !.step = "statsA", !.pruned = Overlapping(query[q].pin, FilterA)])

PruneNext(q) ==
  /\ query[q].step = "statsA"
  /\ Goes(q, [query[q] EXCEPT !.step = "filtered",
                              !.pruned = @ \cap Overlapping(query[q].pin, FilterB)])

NothingPushable(q) ==
  /\ query[q].step = "handle" /\ query[q].filtered
  /\ Goes(q, [query[q] EXCEPT !.step = "filtered"])

(* Mutants of the refusals: the advisory bound of a file is trusted for    *)
(* its delete file; the pin is not looked at; the bound is compared with   *)
(* the latest snapshot.                                                    *)
HistoricalByBound(s) ==
  s # head /\ \E f \in DataFiles(s) : HasDeleteFile(f, s) /\ file[f].partialMax > s
AnyDeletes(s) == \E f \in DataFiles(s) : HasDeleteFile(f, s)
PartialBeyondHead(s) == \E f \in DataFiles(s) : file[f].partialMax > head

(* The refusals of planScan, in one read session.                          *)
InlinedDeletes(s) == TombsAt(s) # {}
HistoricalDeletes(s) == s # head /\ \E f \in DataFiles(s) : HasDeleteFile(f, s)
UnfilterablePartial(s) == \E f \in DataFiles(s) : file[f].partialMax > s
UnservedInlined(q) == ~query[q].inlinedReads /\ InlinedAt(query[q].pin) # {}

(* A mutant of CountServable: the inlined rows are forgotten.              *)
FilesCountServable(q) ==
  LET s == query[q].pin
  IN  /\ ~query[q].filtered /\ query[q].pruned = All
      /\ s = head
      /\ \A f \in DataFiles(s) : ~HasDeleteFile(f, s) /\ file[f].partialMax <= s
      /\ TombsAt(s) = {}

(* isCountServableFromMetadata: record counts are exact row counts.        *)
CountServable(q) ==
  LET s == query[q].pin
  IN  /\ ~query[q].filtered /\ query[q].pruned = All
      /\ s = head
      /\ \A f \in DataFiles(s) : ~HasDeleteFile(f, s) /\ file[f].partialMax <= s
      /\ TombsAt(s) = {} /\ InlinedAt(s) = {}

(* The prefixes of the files that first reach the limit; any order of the  *)
(* files may be the catalog's.                                             *)
Prefixes(F, limit) ==
  IF RecordCount(F) < limit THEN {F}
  ELSE {S \in SUBSET F : RecordCount(S) >= limit /\ \E f \in S : RecordCount(S \ {f}) < limit}

Ready(q) ==
  \/ query[q].step = "filtered"
  \/ query[q].step = "handle" /\ ~query[q].filtered

RefuseScan(q) ==
  /\ Ready(q)
  /\ LET s == query[q].pin
     IN  InlinedDeletes(s) \/ HistoricalDeletes(s) \/ UnfilterablePartial(s) \/ UnservedInlined(q)
  /\ Goes(q, [query[q] EXCEPT !.step = "refused"])

PlanCount(q) ==
  LET s == query[q].pin
  IN  /\ Ready(q)
      /\ ~InlinedDeletes(s) /\ ~HistoricalDeletes(s) /\ ~UnfilterablePartial(s)
      /\ CountServable(q)
      /\ \E first \in IF DataFiles(s) = {} THEN {{}} ELSE {{f} : f \in DataFiles(s)} :
           Goes(q, [query[q] EXCEPT !.step = "planned", !.ranges = first,
                                    !.count = RecordCount(DataFiles(s))])

(* What the backend reads from a range: the file without the positions of  *)
(* its delete file, whichever snapshots they are of.                       *)
RowsOf(f, s) == file[f].rows \ IF HasDeleteFile(f, s) THEN file[f].deletes ELSE {}

PlanScan(q, limit) ==
  LET s == query[q].pin
      pruned == DataFiles(s) \cap query[q].pruned
  IN  /\ Ready(q)
      /\ ~InlinedDeletes(s) /\ ~HistoricalDeletes(s) /\ ~UnfilterablePartial(s)
      /\ ~UnservedInlined(q)
      /\ \E scanned \in IF limit > 0 /\ CountServable(q) THEN Prefixes(pruned, limit) ELSE {pruned} :
           Goes(q, [query[q] EXCEPT
             !.step = "planned",
             !.limit = limit,
             !.ranges = scanned \cup IF InlinedAt(s) = {} THEN {} ELSE {"inlined"},
             !.reads = (UNION {RowsOf(f, s) \X {f} : f \in scanned}) \cup (InlinedAt(s) \X {"inlined"})])

(* A mutant of ReadProperties: mixed layouts are served.                   *)
ReadAnyProperties(q) ==
  /\ Ready(q) \/ query[q].step = "planned"
  /\ query[q].keys = "unread"
  /\ LET hive == "hive" \in {file[f].layout : f \in DataFiles(query[q].pin)}
     IN  Goes(q, [query[q] EXCEPT !.keys = IF hive THEN "declared" ELSE "none"])

(* getScanNodeProperties, in a session of its own: path_partition_keys is  *)
(* declared for the whole scan, so a table that mixes path columns with    *)
(* natively partitioned files is refused.                                  *)
ReadProperties(q) ==
  /\ Ready(q) \/ query[q].step = "planned"
  /\ query[q].keys = "unread"
  /\ LET layouts == {file[f].layout : f \in DataFiles(query[q].pin)}
     IN  IF {"hive", "native"} \subseteq layouts
         THEN Goes(q, [query[q] EXCEPT !.step = "refused"])
         ELSE Goes(q, [query[q] EXCEPT !.keys = IF "hive" \in layouts THEN "declared" ELSE "none"])

Engines ==
  \/ \E R \in SUBSET Unborn : InsertInlined(R)
  \/ \E R \in SUBSET Unborn, f \in Files, layout \in Layouts : InsertFile(R, f, layout)
  \/ \E D \in SUBSET Rows : DeleteRows(D)
  \/ \E r \in Rows : DeleteInlined(r)
  \/ \E f \in Files : Flush(f)
  \/ \E F \in SUBSET files, f \in Files : Compact(F, f)
  \/ \E g, f \in Files : Rewrite(g, f)

Planning(q) ==
  \/ \E filtered \in Filtered, served \in InlinedReads : GetTableHandle(q, filtered, served)
  \/ \E s \in Snapshots : ApplySnapshot(q, s)
  \/ PruneFirst(q)
  \/ PruneNext(q)
  \/ NothingPushable(q)
  \/ RefuseScan(q)
  \/ PlanCount(q)
  \/ \E limit \in Limits : PlanScan(q, limit)
  \/ ReadProperties(q)

Next == Engines \/ \E q \in Queries : Planning(q)

Spec == Init /\ [][Next]_vars

-----------------------------------------------------------------------------
(* PROPERTIES                                                              *)

Matching == {r \in Rows : Matches(FilterA, r) /\ Matches(FilterB, r)}
Answer(q) == IF query[q].filtered THEN RowsAt(query[q].pin) \cap Matching ELSE RowsAt(query[q].pin)
(* The backend applies the whole filter again to what the ranges yield.    *)
Read(q) == {read \in query[q].reads : query[q].filtered => read[1] \in Matching}

(* No plan yields a row the pinned snapshot does not have, nor one twice,  *)
(* whatever was committed, flushed or compacted while it was being made:   *)
(* the refusals catch every file and delete file that spans snapshots.     *)
NoWrongRows ==
  \A q \in Queries : query[q].step = "planned" =>
    /\ {read[1] : read \in Read(q)} \subseteq Answer(q)
    /\ \A x, y \in Read(q) : x[1] = y[1] => x = y

(* While a query has its pruned ids and no file list yet, they name every  *)
(* file of its pin that holds a row for which the filter is true, whatever *)
(* other engines wrote, deleted or merged since.  The instance's filter is *)
(* two conjuncts; KeepsMatches says the same of one file at a time for all *)
(* Filters, and stands here because it takes a step for TLC to judge it.   *)
PruningKeepsMatches ==
  \A q \in Queries : query[q].step \in {"statsA", "filtered"} =>
    /\ KeepsMatches
    /\ \A f \in DataFiles(query[q].pin) : file[f].rows \cap Matching # {} => f \in query[q].pruned

(* A plan that was not raced by a rewrite yields every row of the answer,  *)
(* or as many as the limit asks for: pruning loses nothing.                *)
NoMissingRows ==
  \A q \in Queries : query[q].step = "planned" /\ query[q].count = -1 =>
    LET found == {read[1] : read \in Read(q)}
    IN  \/ Answer(q) \subseteq found
        \/ query[q].limit > 0 /\ Cardinality(found) >= query[q].limit

(* A count served from record counts is the number of rows of the pin.     *)
CountExact ==
  \A q \in Queries : query[q].step = "planned" /\ query[q].count # -1 =>
    query[q].count = Cardinality(RowsAt(query[q].pin))

(* A column declared in path_partition_keys is left out of file decoding   *)
(* and must come from the range's columns_from_path, which only hive       *)
(* layout files have; and theirs is in no body.                            *)
LayoutMatches ==
  \A q \in Queries : Planned(q) /\ query[q].count = -1 =>
    \A f \in query[q].ranges \ {"inlined"} :
      file[f].layout = "hive" <=> query[q].keys = "declared"

(* "Reads at the latest snapshot are unaffected" by compaction and deletes:*)
(* only inlined rows or inlined deletes make planScan refuse one.          *)
LatestServed ==
  [][\A q \in Queries : RefuseScan(q) /\ query[q].pin = head => tombs # {} \/ inlined # {}]_vars

(* What a query has been told: rows or a count once its ranges and its     *)
(* scan properties are there, and nothing before.                          *)
Told(q) ==
  LET rows == {read[1] : read \in Read(q)}
      Tell(is, R, size, limit) == [is |-> is, rows |-> R, size |-> size, limit |-> limit]
  IN  CASE Planned(q) /\ query[q].count = -1 -> Tell("rows", rows, Cardinality(Read(q)), query[q].limit)
        [] Planned(q) /\ query[q].count # -1 -> Tell("count", {}, query[q].count, 0)
        [] query[q].step = "refused" -> Tell("refused", {}, 0, 0)
        [] query[q].step = "idle" -> Tell("unasked", {}, 0, 0)
        [] OTHER -> Tell("open", {}, 0, 0)

(* Planning implements SnapshotReads: whatever other engines commit, flush,*)
(* merge and rewrite between its calls, the history of snapshots is never  *)
(* rewritten and each query is answered from the one it pinned.  Only a    *)
(* filter may lose rows, and only where rewrites may race with it.         *)
Reads == INSTANCE SnapshotReads WITH
  history  <- [s \in 0..head |-> RowsAt(s)],
  pin      <- [q \in Queries |-> query[q].pin],
  filtered <- [q \in Queries |-> query[q].filtered],
  answer   <- [q \in Queries |-> Told(q)],
  Lossy    <- Racing
ReadsOfSnapshots == Reads!Spec

(* "Every call in a query sees one consistent view" (DuckLakeTableHandle): *)
(* what the calls of one query return fits together.  It does not when a   *)
(* rewrite runs between them; see the racing run.                          *)
OneConsistentView == NoMissingRows /\ LayoutMatches
=============================================================================
