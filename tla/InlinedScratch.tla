--------------------------- MODULE InlinedScratch ---------------------------
(***************************************************************************)
(* How planners hand inlined rows to the backend.  When the columns of the *)
(* table are loaded, inlined temporal values are checked within a budget.  *)
(* Later, for every schema version with live rows, a planner writes them   *)
(* to a Parquet file in a scratch directory and plans a range over it; the *)
(* backend opens the file by its path later.  The name is made of table,   *)
(* schema version and snapshot, and the file is overwritten in place, so   *)
(* planners of the same snapshot, or of other catalogs with the same       *)
(* directory, share it.  One table.                                        *)
(***************************************************************************)
EXTENDS Integers, FiniteSets

CONSTANTS
  Queries,           \* queries that read inlined rows
  Catalogs,
  Versions,          \* the schema versions of the table
  Snapshots,
  Rows,              \* the inlined rows there ever are
  CatalogOf,         \* CatalogOf[q]: the catalog a query goes to
  ScratchDir,        \* ScratchDir[c]: the scratch directory of a catalog
  Live,              \* Live[c][v][s]: the rows of schema version v live at snapshot s
  TemporalColumns,   \* TemporalColumns[c][s]: how many columns are of temporal types
  MaxInlineRows,     \* the budgets of DuckLakeTemporalDomain
  MaxInlineValues,
  MaxInlineSchemas

ASSUME ScratchAssumption ==
  /\ CatalogOf \in [Queries -> Catalogs]
  /\ Live \in [Catalogs -> [Versions -> [Snapshots -> SUBSET Rows]]]
  /\ IsFiniteSet(Versions) /\ IsFiniteSet(Rows)
  /\ TemporalColumns \in [Catalogs -> [Snapshots -> Nat]]
  /\ MaxInlineRows \in Nat /\ MaxInlineValues \in Nat /\ MaxInlineSchemas \in Nat

(* A mutant of PathOf: the snapshot is not in the name.                    *)
PathByVersion(q, v, s) == <<ScratchDir[CatalogOf[q]], v, 0>>
PathOf(q, v, s) == <<ScratchDir[CatalogOf[q]], v, s>>
Paths == {ScratchDir[c] : c \in Catalogs} \X Versions \X (Snapshots \cup {0})

VARIABLES
  file,   \* file[p]: the rows of the file, if it is whole
  query   \* query[q]: a query's progress

vars == <<file, query>>

(* todo: the versions to check, then to write; at: the one in hand;        *)
(* ranges: the versions planned; short: those with the size of an          *)
(* incomplete file; read: the versions the backend has read; got: the rows *)
(* it got.                                                                 *)
QueryRecord ==
  [step: {"idle", "checking", "over", "planning", "writing", "written", "scanning", "opened", "done", "failed"},
   pin: Snapshots \cup {0}, todo: SUBSET Versions, at: Versions \cup {0},
   ranges: SUBSET Versions, short: SUBSET Versions, read: SUBSET Versions, got: SUBSET Rows]

TypeOK ==
  /\ file \in [Paths -> [whole: BOOLEAN, rows: SUBSET Rows]]
  /\ query \in [Queries -> QueryRecord]

(* Missing, or truncated and not written to its end.                       *)
Torn == [whole |-> FALSE, rows |-> {}]

Init ==
  /\ file = [p \in Paths |-> Torn]
  /\ query = [q \in Queries |-> [step |-> "idle", pin |-> 0, todo |-> {}, at |-> 0,
                                 ranges |-> {}, short |-> {}, read |-> {}, got |-> {}]]

-----------------------------------------------------------------------------
LiveOf(q, v) == Live[CatalogOf[q]][v][query[q].pin]
LiveVersions(q, s) == {v \in Versions : Live[CatalogOf[q]][v][s] # {}}
Path(q, v) == PathOf(q, v, query[q].pin)
At(q, s) == query[q].step = s
Complete(p) == file[p].whole
Goes(q, r) == query' = [query EXCEPT ![q] = r]

-----------------------------------------------------------------------------
(* LOADING THE COLUMNS                                                     *)
(* checkKnownBounds, in one session: which versions are to be checked.     *)
CheckTable(q, s) ==
  /\ At(q, "idle")
  /\ LET live == IF TemporalColumns[CatalogOf[q]][s] = 0 THEN {} ELSE LiveVersions(q, s)
     IN  Goes(q, [query[q] EXCEPT !.pin = s, !.todo = live,
                    !.step = IF Cardinality(live) > MaxInlineSchemas THEN "over" ELSE "checking"])
  /\ UNCHANGED file

(* A version is read only if its rows and values fit into what is left.    *)
RowsIn(q, V) == {r \in V \X Rows : r[2] \in LiveOf(q, r[1])}
Columns(q) == TemporalColumns[CatalogOf[q]][query[q].pin]
Spent(q) == Cardinality(RowsIn(q, LiveVersions(q, query[q].pin) \ query[q].todo))
(* A mutant of Fits: what was read before is forgotten.                    *)
FitsAlone(q, v) ==
  LET count == Cardinality(LiveOf(q, v))
  IN  count <= MaxInlineRows /\ count <= MaxInlineValues \div Columns(q)
Fits(q, v) ==
  LET count == Cardinality(LiveOf(q, v))
  IN  /\ count <= MaxInlineRows - Spent(q)
      /\ count <= (MaxInlineValues - Spent(q) * Columns(q)) \div Columns(q)
CheckVersion(q, v) ==
  /\ At(q, "checking") /\ v \in query[q].todo
  /\ Goes(q, IF Fits(q, v) THEN [query[q] EXCEPT !.todo = @ \ {v}] ELSE [query[q] EXCEPT !.step = "over"])
  /\ UNCHANGED file

(* Statistics, a default or a value are outside the domain, or unreadable. *)
RefuseTable(q) ==
  /\ At(q, "checking")
  /\ Goes(q, [query[q] EXCEPT !.step = "failed"])
  /\ UNCHANGED file

-----------------------------------------------------------------------------
(* PLANNING                                                                *)
(* getInlinedDataInfos, of the versions that have live rows.               *)
StartPlan(q) ==
  /\ At(q, "checking") /\ query[q].todo = {}
  /\ Goes(q, [query[q] EXCEPT !.step = "planning", !.todo = LiveVersions(q, query[q].pin)])
  /\ UNCHANGED file

(* The writer checks the values before it truncates the file.              *)
RefuseRows(q) ==
  /\ At(q, "planning")
  /\ Goes(q, [query[q] EXCEPT !.step = "failed"])
  /\ UNCHANGED file

OpenFile(q, v) ==
  /\ At(q, "planning") /\ v \in query[q].todo
  /\ file' = [file EXCEPT ![Path(q, v)] = Torn]
  /\ Goes(q, [query[q] EXCEPT !.step = "writing", !.at = v])

(* A file that another planner still writes is not complete.               *)
Writers(p) == {r \in Queries : At(r, "writing") /\ Path(r, query[r].at) = p}
CloseFile(q) ==
  LET v == query[q].at
      p == Path(q, v)
  IN  /\ At(q, "writing")
      /\ file' = [file EXCEPT ![p] = IF Writers(p) = {q} THEN [whole |-> TRUE, rows |-> LiveOf(q, v)] ELSE Torn]
      /\ Goes(q, [query[q] EXCEPT !.step = "written"])

(* The range gets the size the file has now.                               *)
AddRange(q) ==
  LET v == query[q].at
  IN  /\ At(q, "written")
      /\ Goes(q, [query[q] EXCEPT
           !.step = "planning", !.at = 0, !.todo = @ \ {v}, !.ranges = @ \cup {v},
           !.short = IF Complete(Path(q, v)) THEN @ ELSE @ \cup {v}])
      /\ UNCHANGED file

Planned(q) ==
  /\ At(q, "planning") /\ query[q].todo = {}
  /\ Goes(q, [query[q] EXCEPT !.step = "scanning"])
  /\ UNCHANGED file

-----------------------------------------------------------------------------
(* READING                                                                 *)
(* The backend reads the footer of a range's file, which an incomplete file*)
(* does not have at the size it was given, and then its pages.             *)
ReadFooter(q, v) ==
  /\ At(q, "scanning") /\ v \in query[q].ranges \ query[q].read
  /\ Goes(q, IF Complete(Path(q, v)) /\ v \notin query[q].short
             THEN [query[q] EXCEPT !.step = "opened", !.at = v]
             ELSE [query[q] EXCEPT !.step = "failed"])
  /\ UNCHANGED file
ReadPages(q) ==
  LET v == query[q].at
  IN  /\ At(q, "opened")
      /\ Goes(q, IF Complete(Path(q, v))
                 THEN [query[q] EXCEPT !.step = "scanning", !.at = 0, !.read = @ \cup {v},
                                       !.got = @ \cup file[Path(q, v)].rows]
                 ELSE [query[q] EXCEPT !.step = "failed"])
      /\ UNCHANGED file
EndScan(q) ==
  /\ At(q, "scanning") /\ query[q].read = query[q].ranges
  /\ Goes(q, [query[q] EXCEPT !.step = "done"])
  /\ UNCHANGED file

Step(q) ==
  \/ \E s \in Snapshots : CheckTable(q, s)
  \/ RefuseTable(q) \/ StartPlan(q) \/ RefuseRows(q)
  \/ \E v \in Versions : CheckVersion(q, v) \/ OpenFile(q, v) \/ ReadFooter(q, v)
  \/ CloseFile(q) \/ AddRange(q) \/ Planned(q) \/ ReadPages(q) \/ EndScan(q)

Next == \E q \in Queries : Step(q)

Spec == Init /\ [][Next]_vars

-----------------------------------------------------------------------------
(* A query that ends gets the inlined rows of its own snapshot, all schema *)
(* versions together, whichever planners shared its files.                 *)
OwnRows ==
  \A q \in Queries : At(q, "done") =>
    query[q].got = UNION {LiveOf(q, v) : v \in Versions}

(* Checking the inlined values of a table reads no more rows and no more   *)
(* values than the budgets, over all its schema versions; and a table that *)
(* is refused for them is really over one of them.                         *)
BudgetExact ==
  \A q \in Queries :
    LET all == LiveVersions(q, query[q].pin)
        total == Cardinality(RowsIn(q, all))
    IN  /\ At(q, "checking") /\ Columns(q) > 0 =>
             Spent(q) <= MaxInlineRows /\ Spent(q) * Columns(q) <= MaxInlineValues
        /\ At(q, "over") =>
             \/ Cardinality(all) > MaxInlineSchemas
             \/ total > MaxInlineRows
             \/ total * Columns(q) > MaxInlineValues
=============================================================================
