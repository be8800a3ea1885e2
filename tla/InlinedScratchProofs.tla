------------------------ MODULE InlinedScratchProofs ------------------------
(***************************************************************************)
(* That queries whose catalogs have scratch directories of their own get   *)
(* their own rows, and that the budgets of the check are exact: for any    *)
(* number of queries, schema versions, snapshots and rows.                 *)
(***************************************************************************)
EXTENDS InlinedScratch, FiniteSetTheorems, TLAPS

-----------------------------------------------------------------------------
(* THE INVARIANT                                                           *)
(* No two catalogs share a scratch directory.                              *)
OwnDirs == \A c, d \in Catalogs : ScratchDir[c] = ScratchDir[d] => c = d

(* A whole file has the rows of a catalog that its name stands for.        *)
HasRows(p, f) ==
  \E c \in Catalogs, v \in Versions, s \in Snapshots :
    p = <<ScratchDir[c], v, s>> /\ f.rows = Live[c][v][s]
FilesTrue == \A p \in Paths : file[p].whole => HasRows(p, file[p])

(* What a query q whose progress is r has done of its pin.                 *)
RowsAt(q, v, s) == Live[CatalogOf[q]][v][s]
Pairs(q, V, s) == {x \in V \X Rows : x[2] \in RowsAt(q, x[1], s)}
Width(q, r) == TemporalColumns[CatalogOf[q]][r.pin]
Ahead == {"idle", "checking", "over", "planning", "writing", "written"}
Planned_(q, r) ==
  /\ r.step # "idle" => r.pin \in Snapshots
  /\ r.step \in {"planning", "writing", "written"} => r.todo \cup r.ranges = LiveVersions(q, r.pin)
  /\ r.step \in {"writing", "written"} => r.at \in r.todo
  /\ r.step \in {"scanning", "opened", "done"} => r.ranges = LiveVersions(q, r.pin)
  /\ r.step = "opened" => r.at \in r.ranges
  /\ r.step \in Ahead => r.read = {}
  /\ r.step \in {"idle", "checking"} => r.ranges = {}
  /\ r.step = "done" => r.read = r.ranges
GotOwn(q, r) == r.got = UNION {RowsAt(q, v, r.pin) : v \in r.read}
Budgeted(q, r) ==
  LET all == LiveVersions(q, r.pin)
      spent == Cardinality(Pairs(q, all \ r.todo, r.pin))
      total == Cardinality(Pairs(q, all, r.pin))
  IN  /\ r.step = "checking" => r.todo \subseteq all /\ (r.todo # {} => Width(q, r) > 0)
      /\ r.step = "checking" /\ Width(q, r) > 0 =>
           spent <= MaxInlineRows /\ spent * Width(q, r) <= MaxInlineValues
      /\ r.step = "over" =>
           \/ Cardinality(all) > MaxInlineSchemas
           \/ total > MaxInlineRows
           \/ total * Width(q, r) > MaxInlineValues

Fine(q, r) == Planned_(q, r) /\ Budgeted(q, r)
IInv == TypeOK /\ FilesTrue /\ \A q \in Queries : Fine(q, query[q])
OwnInv == \A q \in Queries : GotOwn(q, query[q])

-----------------------------------------------------------------------------
(* COUNTING                                                                *)
LEMMA DivIs ==
  ASSUME NEW x \in Nat, NEW c \in Nat, c > 0, NEW n \in Nat
  PROVE  n <= x \div c <=> n * c <= x
<1> DEFINE d == x \div c
<1>1. d \in Nat /\ d * c <= x /\ x < (d + 1) * c
  BY Z3
<1> HIDE DEF d
<1>2. n <= d => n * c <= d * c BY <1>1, Z3
<1>3. n > d => n * c >= (d + 1) * c BY <1>1, Z3
<1>4. n * c \in Nat /\ d * c \in Nat /\ (d + 1) * c \in Nat BY <1>1, Z3
<1> QED BY <1>1, <1>2, <1>3, <1>4 DEF d

LEMMA PairsFinite ==
  ASSUME NEW q \in Queries, NEW V \in SUBSET Versions, NEW s \in Snapshots
  PROVE  IsFiniteSet(Pairs(q, V, s)) /\ Cardinality(Pairs(q, V, s)) \in Nat
<1>1. IsFiniteSet(V) BY FS_Subset, ScratchAssumption
<1>2. IsFiniteSet(V \X Rows) BY <1>1, FS_Product, ScratchAssumption
<1>3. Pairs(q, V, s) \subseteq V \X Rows BY DEF Pairs
<1>4. IsFiniteSet(Pairs(q, V, s)) BY <1>2, <1>3, FS_Subset
<1> QED BY <1>4, FS_CardinalityType

(* One more version adds its rows to what was counted.                     *)
LEMMA PairsAdd ==
  ASSUME NEW q \in Queries, NEW V \in SUBSET Versions, NEW s \in Snapshots,
         NEW v \in Versions \ V
  PROVE  /\ Cardinality(RowsAt(q, v, s)) \in Nat
         /\ Cardinality(Pairs(q, V \cup {v}, s)) = Cardinality(Pairs(q, V, s)) + Cardinality(RowsAt(q, v, s))
<1> DEFINE R == RowsAt(q, v, s)
<1>1. R \subseteq Rows BY ScratchAssumption DEF RowsAt
<1>2. IsFiniteSet(R) /\ Cardinality(R) \in Nat BY <1>1, FS_Subset, FS_CardinalityType, ScratchAssumption
<1>3. Pairs(q, V \cup {v}, s) = Pairs(q, V, s) \cup ({v} \X R)
  BY <1>1 DEF Pairs
<1>4. Pairs(q, V, s) \cap ({v} \X R) = {} BY DEF Pairs
<1>5. IsFiniteSet({v}) /\ Cardinality({v}) = 1 BY FS_Singleton
<1>6. IsFiniteSet({v} \X R) /\ Cardinality({v} \X R) = Cardinality({v}) * Cardinality(R)
  BY <1>2, <1>5, FS_Product
<1>7. Cardinality(Pairs(q, V, s) \cup ({v} \X R)) = Cardinality(Pairs(q, V, s)) + Cardinality({v} \X R)
  <2>1. IsFiniteSet(Pairs(q, V, s)) BY PairsFinite
  <2>2. IsFiniteSet(Pairs(q, V, s)) /\ IsFiniteSet({v} \X R) => 
          Cardinality(Pairs(q, V, s) \cup ({v} \X R)) =
            Cardinality(Pairs(q, V, s)) + Cardinality({v} \X R) - Cardinality(Pairs(q, V, s) \cap ({v} \X R))
    BY FS_Union
  <2>3. Cardinality(Pairs(q, V, s) \cap ({v} \X R)) = 0 BY <1>4, FS_EmptySet
  <2>4. Cardinality(Pairs(q, V, s)) \in Nat /\ Cardinality({v} \X R) \in Nat
    BY <2>1, <1>6, FS_CardinalityType
  <2> HIDE DEF R
  <2> QED BY <1>6, <2>1, <2>2, <2>3, <2>4
<1> HIDE DEF R
<1>8. Cardinality({v} \X R) = Cardinality(R) BY <1>2, <1>5, <1>6
<1> QED BY <1>2, <1>3, <1>7, <1>8 DEF R

LEMMA PairsMore ==
  ASSUME NEW q \in Queries, NEW V \in SUBSET Versions, NEW W \in SUBSET V, NEW s \in Snapshots
  PROVE  Cardinality(Pairs(q, W, s)) <= Cardinality(Pairs(q, V, s))
<1>1. Pairs(q, W, s) \subseteq Pairs(q, V, s) BY DEF Pairs
<1> QED BY <1>1, PairsFinite, FS_Subset

-----------------------------------------------------------------------------
(* STEPS                                                                   *)
LEMMA GoesIs ==
  ASSUME TypeOK, NEW q \in Queries, NEW r \in QueryRecord, Goes(q, r)
  PROVE  /\ query' \in [Queries -> QueryRecord]
         /\ query'[q] = r
         /\ \A p \in Queries : p # q => query'[p] = query[p]
BY DEF TypeOK, Goes

LEMMA InitIInv == Init => IInv
<1> SUFFICES ASSUME Init PROVE IInv
  OBVIOUS
<1>1. TypeOK BY DEF Init, TypeOK, QueryRecord, Torn
<1>2. FilesTrue BY DEF Init, FilesTrue, Torn
<1>3. ASSUME NEW q \in Queries PROVE Fine(q, query[q])
  BY DEF Init, Fine, Planned_, Budgeted, Ahead
<1> QED BY <1>1, <1>2, <1>3 DEF IInv

(* A step of one query that leaves the files as they are.                  *)
LEMMA Moves ==
  ASSUME IInv, NEW q \in Queries, NEW r \in QueryRecord,
         Goes(q, r), UNCHANGED file, Fine(q, r)
  PROVE  IInv'
<1>1. TypeOK BY DEF IInv
<1>2. TypeOK' BY <1>1, GoesIs DEF TypeOK
<1>3. FilesTrue' BY DEF IInv, FilesTrue, HasRows
<1>4. ASSUME NEW p \in Queries PROVE Fine(p, query'[p])
  BY <1>1, GoesIs DEF IInv
<1> QED BY <1>2, <1>3, <1>4 DEF IInv

(* What the invariant says of one query.                                   *)
LEMMA OfQuery ==
  ASSUME IInv, NEW q \in Queries
  PROVE  query[q] \in QueryRecord /\ Planned_(q, query[q]) /\ Budgeted(q, query[q])
BY DEF IInv, TypeOK, Fine

LEMMA CheckTableIInv ==
  ASSUME IInv, NEW q \in Queries, NEW s \in Snapshots, CheckTable(q, s)
  PROVE  IInv'
<1> DEFINE live == IF TemporalColumns[CatalogOf[q]][s] = 0 THEN {} ELSE LiveVersions(q, s)
           r == [query[q] EXCEPT !.pin = s, !.todo = live,
                   !.step = IF Cardinality(live) > MaxInlineSchemas THEN "over" ELSE "checking"]
<1>1. query[q] \in QueryRecord /\ query[q].ranges = {} /\ query[q].read = {}
  BY OfQuery DEF CheckTable, At, Planned_, Ahead
<1>2. live \subseteq LiveVersions(q, s) /\ LiveVersions(q, s) \subseteq Versions
  BY DEF LiveVersions
<1>3. CatalogOf[q] \in Catalogs /\ TemporalColumns[CatalogOf[q]][s] \in Nat
  BY ScratchAssumption
<1>a. live # {} => live = LiveVersions(q, s) /\ TemporalColumns[CatalogOf[q]][s] > 0
  BY <1>3
<1>b. TemporalColumns[CatalogOf[q]][s] > 0 => live = LiveVersions(q, s)
  BY <1>3
<1>c. Cardinality(live) > MaxInlineSchemas => live = LiveVersions(q, s)
  BY <1>a, FS_EmptySet, ScratchAssumption
<1>d. Goes(q, r) /\ UNCHANGED file BY DEF CheckTable
<1> HIDE DEF live
<1>4. r \in QueryRecord BY <1>1, <1>2 DEF QueryRecord
<1>5. /\ r.pin = s /\ r.todo = live /\ r.ranges = {} /\ r.read = {}
      /\ r.step = IF Cardinality(live) > MaxInlineSchemas THEN "over" ELSE "checking"
  BY <1>1 DEF QueryRecord
<1> HIDE DEF r
<1>6. Planned_(q, r) BY <1>5 DEF Planned_, Ahead
<1>7. Width(q, r) = TemporalColumns[CatalogOf[q]][s] /\ Width(q, r) \in Nat BY <1>3, <1>5 DEF Width
<1>8. Width(q, r) > 0 => Cardinality(Pairs(q, LiveVersions(q, r.pin) \ r.todo, r.pin)) = 0
  <2> SUFFICES ASSUME Width(q, r) > 0 PROVE Pairs(q, LiveVersions(q, r.pin) \ r.todo, r.pin) = {}
    BY FS_EmptySet
  <2> QED BY <1>5, <1>7, <1>b DEF Pairs
<1>9. Width(q, r) > 0 => 0 * Width(q, r) <= MaxInlineValues /\ 0 <= MaxInlineRows
  BY <1>7, ScratchAssumption
<1>10. Budgeted(q, r)
  <2>1. r.step = "checking" => r.todo \subseteq LiveVersions(q, r.pin) /\ (r.todo # {} => Width(q, r) > 0)
    BY <1>2, <1>5, <1>7, <1>a
  <2>2. r.step = "over" => Cardinality(LiveVersions(q, r.pin)) > MaxInlineSchemas
    BY <1>5, <1>c
  <2> QED BY <1>8, <1>9, <2>1, <2>2 DEF Budgeted
<1> QED BY <1>4, <1>6, <1>10, <1>d, Moves DEF Fine

LEMMA CheckVersionIInv ==
  ASSUME IInv, NEW q \in Queries, NEW v \in Versions, CheckVersion(q, v)
  PROVE  IInv'
<1> DEFINE s == query[q].pin
           all == LiveVersions(q, s)
           n == Cardinality(RowsAt(q, v, s))
           k == Width(q, query[q])
           spent == Cardinality(Pairs(q, all \ query[q].todo, s))
<1>1. /\ query[q] \in QueryRecord /\ query[q].step = "checking" /\ v \in query[q].todo
      /\ Planned_(q, query[q]) /\ Budgeted(q, query[q])
  BY OfQuery DEF CheckVersion, At
<1>2. s \in Snapshots BY <1>1 DEF Planned_
<1>3. query[q].todo \subseteq all /\ k > 0 /\ spent <= MaxInlineRows /\ spent * k <= MaxInlineValues
  BY <1>1 DEF Budgeted
<1>4. k \in Nat /\ all \subseteq Versions
  BY <1>2, ScratchAssumption DEF Width, LiveVersions
<1>5. spent \in Nat BY <1>2, <1>4, PairsFinite
<1>6. all \ (query[q].todo \ {v}) = (all \ query[q].todo) \cup {v} BY <1>1, <1>3
<1>7. n \in Nat /\ Cardinality(Pairs(q, all \ (query[q].todo \ {v}), s)) = spent + n
  <2>1. all \ query[q].todo \in SUBSET Versions /\ v \in Versions \ (all \ query[q].todo)
    BY <1>1, <1>4
  <2>2. n \in Nat /\ Cardinality(Pairs(q, (all \ query[q].todo) \cup {v}, s)) = spent + n
    BY <1>2, <2>1, PairsAdd
  <2> QED BY <1>6, <2>2
<1>8. Spent(q) = spent /\ Columns(q) = k /\ LiveOf(q, v) = RowsAt(q, v, s)
  <2>1. RowsIn(q, all \ query[q].todo) = Pairs(q, all \ query[q].todo, s)
    BY DEF RowsIn, Pairs, LiveOf, RowsAt
  <2> QED BY <2>1 DEF Spent, Columns, Width, LiveOf, RowsAt
<1>9. Fits(q, v) <=> n <= MaxInlineRows - spent /\ n <= (MaxInlineValues - spent * k) \div k
  BY <1>8 DEF Fits
<1>10. Fits(q, v) <=> spent + n <= MaxInlineRows /\ (spent + n) * k <= MaxInlineValues
  <2> HIDE DEF s, all, n, k, spent
  <2>1. MaxInlineRows \in Nat /\ MaxInlineValues \in Nat BY ScratchAssumption
  <2>2. spent * k \in Nat /\ n * k \in Nat /\ (spent + n) * k = spent * k + n * k
    BY <1>4, <1>5, <1>7, Z3
  <2>3. MaxInlineValues - spent * k \in Nat BY <1>3, <2>1, <2>2
  <2>4. n <= (MaxInlineValues - spent * k) \div k <=> n * k <= MaxInlineValues - spent * k
    BY <1>3, <1>4, <1>7, <2>3, DivIs
  <2>5. n <= (MaxInlineValues - spent * k) \div k <=> (spent + n) * k <= MaxInlineValues
    BY <2>1, <2>2, <2>4
  <2>6. n <= MaxInlineRows - spent <=> spent + n <= MaxInlineRows
    BY <1>5, <1>7, <2>1
  <2> QED BY <1>9, <2>5, <2>6
<1>11. CASE Fits(q, v)
  <2> DEFINE r == [query[q] EXCEPT !.todo = @ \ {v}]
  <2>1. Goes(q, r) /\ UNCHANGED file BY <1>11 DEF CheckVersion
  <2>2. r \in QueryRecord BY <1>1 DEF QueryRecord
  <2>3. /\ r.step = "checking" /\ r.pin = s /\ r.todo = query[q].todo \ {v}
        /\ r.ranges = query[q].ranges /\ r.read = query[q].read
    BY <1>1 DEF QueryRecord
  <2> HIDE DEF r
  <2>4. Planned_(q, r) BY <1>1, <2>3 DEF Planned_, Ahead
  <2>5. Width(q, r) = k BY <2>3 DEF Width
  <2>6. Budgeted(q, r)
    BY <1>3, <1>7, <1>10, <1>11, <2>3, <2>5 DEF Budgeted
  <2> QED BY <2>1, <2>2, <2>4, <2>6, Moves DEF Fine
<1>12. CASE ~Fits(q, v)
  <2> DEFINE r == [query[q] EXCEPT !.step = "over"]
             total == Cardinality(Pairs(q, all, s))
  <2>1. Goes(q, r) /\ UNCHANGED file BY <1>12 DEF CheckVersion
  <2>2. r \in QueryRecord BY <1>1 DEF QueryRecord
  <2>3. /\ r.step = "over" /\ r.pin = s
        /\ r.ranges = query[q].ranges /\ r.read = query[q].read
    BY <1>1 DEF QueryRecord
  <2> HIDE DEF r
  <2>4. Planned_(q, r) BY <1>1, <2>3 DEF Planned_, Ahead
  <2>5. Width(q, r) = k BY <2>3 DEF Width
  <2>6. total \in Nat /\ spent + n <= total
    <3>1. all \ (query[q].todo \ {v}) \in SUBSET all /\ all \in SUBSET Versions BY <1>4
    <3>2. Cardinality(Pairs(q, all \ (query[q].todo \ {v}), s)) <= total
      BY <1>2, <3>1, PairsMore
    <3>3. total \in Nat BY <1>2, <3>1, PairsFinite
    <3> QED BY <1>7, <3>2, <3>3
  <2>7. (spent + n) * k <= total * k /\ total * k \in Nat /\ (spent + n) * k \in Nat
    <3> HIDE DEF s, all, n, k, spent, total
    <3> QED BY <1>4, <1>5, <1>7, <2>6, Z3
  <2>8. total > MaxInlineRows \/ total * k > MaxInlineValues
    <3> HIDE DEF s, all, n, k, spent, total
    <3> QED BY <1>5, <1>7, <1>10, <1>12, <2>6, <2>7, ScratchAssumption
  <2>9. Budgeted(q, r)
    BY <2>3, <2>5, <2>8 DEF Budgeted
  <2> QED BY <2>1, <2>2, <2>4, <2>9, Moves DEF Fine
<1> QED BY <1>11, <1>12

(* The steps that follow the check, and do not write to files.             *)
LEMMA QuietIInv ==
  ASSUME IInv, NEW q \in Queries,
         \/ RefuseTable(q) \/ RefuseRows(q) \/ StartPlan(q) \/ AddRange(q) \/ Planned(q)
         \/ ReadPages(q) \/ EndScan(q) \/ \E v \in Versions : ReadFooter(q, v)
  PROVE  IInv'
<1>1. query[q] \in QueryRecord /\ Planned_(q, query[q])
  BY OfQuery
<1>2. LiveVersions(q, query[q].pin) \subseteq Versions BY DEF LiveVersions
<1>3. SUFFICES ASSUME NEW r \in QueryRecord, Goes(q, r), UNCHANGED file, Planned_(q, r),
                      r.step \notin {"checking", "over"}
               PROVE  IInv'
  <2>1. CASE RefuseTable(q) \/ RefuseRows(q)
    <3> DEFINE r == [query[q] EXCEPT !.step = "failed"]
    <3>1. Goes(q, r) /\ UNCHANGED file /\ query[q].step \in {"checking", "planning"}
      BY <2>1 DEF RefuseTable, RefuseRows, At
    <3>2. r \in QueryRecord /\ r.step = "failed" /\ r.pin = query[q].pin BY <1>1 DEF QueryRecord
    <3>3. Planned_(q, r) BY <1>1, <3>1, <3>2 DEF Planned_, Ahead
    <3> QED BY <1>3, <3>1, <3>2, <3>3
  <2>2. CASE StartPlan(q)
    <3> DEFINE r == [query[q] EXCEPT !.step = "planning", !.todo = LiveVersions(q, query[q].pin)]
    <3>1. Goes(q, r) /\ UNCHANGED file /\ query[q].step = "checking"
      BY <2>2 DEF StartPlan, At
    <3>2. /\ r \in QueryRecord /\ r.step = "planning" /\ r.pin = query[q].pin
          /\ r.todo = LiveVersions(q, query[q].pin) /\ r.ranges = query[q].ranges /\ r.read = query[q].read
      BY <1>1, <1>2 DEF QueryRecord
    <3>3. Planned_(q, r) BY <1>1, <3>1, <3>2 DEF Planned_, Ahead
    <3> QED BY <1>3, <3>1, <3>2, <3>3
  <2>3. CASE AddRange(q)
    <3> DEFINE v == query[q].at
               r == [query[q] EXCEPT
                       !.step = "planning", !.at = 0, !.todo = @ \ {v}, !.ranges = @ \cup {v},
                       !.short = IF Complete(Path(q, v)) THEN @ ELSE @ \cup {v}]
    <3>1. Goes(q, r) /\ UNCHANGED file /\ query[q].step = "written"
      BY <2>3 DEF AddRange, At
    <3>2. v \in query[q].todo /\ query[q].todo \subseteq Versions
      BY <1>1, <3>1 DEF Planned_, QueryRecord
    <3>3. r \in QueryRecord BY <1>1, <3>2 DEF QueryRecord
    <3>4. /\ r.step = "planning" /\ r.pin = query[q].pin
          /\ r.todo = query[q].todo \ {v} /\ r.ranges = query[q].ranges \cup {v} /\ r.read = query[q].read
      BY <1>1 DEF QueryRecord
    <3>5. Planned_(q, r) BY <1>1, <3>1, <3>2, <3>4 DEF Planned_, Ahead
    <3> QED BY <1>3, <3>1, <3>3, <3>4, <3>5
  <2>4. CASE Planned(q)
    <3> DEFINE r == [query[q] EXCEPT !.step = "scanning"]
    <3>1. Goes(q, r) /\ UNCHANGED file /\ query[q].step = "planning" /\ query[q].todo = {}
      BY <2>4 DEF Planned, At
    <3>2. /\ r \in QueryRecord /\ r.step = "scanning" /\ r.pin = query[q].pin
          /\ r.ranges = query[q].ranges /\ r.read = query[q].read
      BY <1>1 DEF QueryRecord
    <3>3. Planned_(q, r) BY <1>1, <3>1, <3>2 DEF Planned_, Ahead
    <3> QED BY <1>3, <3>1, <3>2, <3>3
  <2>5. CASE ReadPages(q)
    <3> DEFINE v == query[q].at
    <3>1. UNCHANGED file /\ query[q].step = "opened" BY <2>5 DEF ReadPages, At
    <3>2. v \in query[q].ranges /\ query[q].ranges = LiveVersions(q, query[q].pin)
          /\ query[q].pin \in Snapshots
      BY <1>1, <3>1 DEF Planned_
    <3>3. CASE Complete(Path(q, v))
      <4> DEFINE r == [query[q] EXCEPT !.step = "scanning", !.at = 0, !.read = @ \cup {v},
                                       !.got = @ \cup file[Path(q, v)].rows]
      <4>1. Goes(q, r) BY <2>5, <3>3 DEF ReadPages
      <4>2. file[Path(q, v)].rows \in SUBSET Rows
        <5>1. Path(q, v) \in Paths
          BY <1>2, <3>2, ScratchAssumption DEF Path, PathOf, Paths
        <5> QED BY <5>1 DEF IInv, TypeOK
      <4>3. r \in QueryRecord BY <1>1, <1>2, <3>2, <4>2 DEF QueryRecord
      <4>4. r.step = "scanning" /\ r.pin = query[q].pin /\ r.ranges = query[q].ranges
        BY <1>1 DEF QueryRecord
      <4>5. Planned_(q, r) BY <3>2, <4>4 DEF Planned_, Ahead
      <4> QED BY <1>3, <3>1, <4>1, <4>3, <4>4, <4>5
    <3>4. CASE ~Complete(Path(q, v))
      <4> DEFINE r == [query[q] EXCEPT !.step = "failed"]
      <4>1. Goes(q, r) BY <2>5, <3>4 DEF ReadPages
      <4>2. r \in QueryRecord /\ r.step = "failed" /\ r.pin = query[q].pin BY <1>1 DEF QueryRecord
      <4>3. Planned_(q, r) BY <3>2, <4>2 DEF Planned_, Ahead
      <4> QED BY <1>3, <3>1, <4>1, <4>2, <4>3
    <3> QED BY <3>3, <3>4
  <2>6. CASE EndScan(q)
    <3> DEFINE r == [query[q] EXCEPT !.step = "done"]
    <3>1. Goes(q, r) /\ UNCHANGED file /\ query[q].step = "scanning" /\ query[q].read = query[q].ranges
      BY <2>6 DEF EndScan, At
    <3>2. /\ r \in QueryRecord /\ r.step = "done" /\ r.pin = query[q].pin
          /\ r.ranges = query[q].ranges /\ r.read = query[q].read
      BY <1>1 DEF QueryRecord
    <3>3. Planned_(q, r) BY <1>1, <3>1, <3>2 DEF Planned_, Ahead
    <3> QED BY <1>3, <3>1, <3>2, <3>3
  <2>7. ASSUME NEW v \in Versions, ReadFooter(q, v) PROVE IInv'
    <3>1. UNCHANGED file /\ query[q].step = "scanning" /\ v \in query[q].ranges
      BY <2>7 DEF ReadFooter, At
    <3>2. PICK c \in {"opened", "failed"} :
            Goes(q, IF c = "opened" THEN [query[q] EXCEPT !.step = "opened", !.at = v]
                    ELSE [query[q] EXCEPT !.step = "failed"])
      BY <2>7 DEF ReadFooter
    <3> DEFINE r == IF c = "opened" THEN [query[q] EXCEPT !.step = "opened", !.at = v]
                    ELSE [query[q] EXCEPT !.step = "failed"]
    <3>3. /\ r \in QueryRecord /\ r.step = c /\ r.pin = query[q].pin /\ r.ranges = query[q].ranges
          /\ c = "opened" => r.at = v
      BY <1>1 DEF QueryRecord
    <3>4. Goes(q, r) BY <3>2
    <3> HIDE DEF r
    <3>5. Planned_(q, r) BY <1>1, <3>1, <3>3 DEF Planned_, Ahead
    <3> QED BY <1>3, <3>1, <3>3, <3>4, <3>5
  <2> QED BY <2>1, <2>2, <2>3, <2>4, <2>5, <2>6, <2>7
<1>4. Budgeted(q, r) BY <1>3 DEF Budgeted
<1> QED BY <1>3, <1>4, Moves DEF Fine

LEMMA OpenFileIInv ==
  ASSUME IInv, NEW q \in Queries, NEW v \in Versions, OpenFile(q, v)
  PROVE  IInv'
<1> DEFINE r == [query[q] EXCEPT !.step = "writing", !.at = v]
<1>1. /\ query[q] \in QueryRecord /\ Planned_(q, query[q])
      /\ query[q].step = "planning" /\ v \in query[q].todo
  BY OfQuery DEF OpenFile, At
<1>2. Goes(q, r) /\ file' = [file EXCEPT ![Path(q, v)] = Torn] BY DEF OpenFile
<1>3. /\ r \in QueryRecord /\ r.step = "writing" /\ r.at = v /\ r.pin = query[q].pin
      /\ r.todo = query[q].todo /\ r.ranges = query[q].ranges /\ r.read = query[q].read
  BY <1>1 DEF QueryRecord
<1> HIDE DEF r
<1>4. Fine(q, r) BY <1>1, <1>3 DEF Fine, Planned_, Budgeted, Ahead
<1>5. TypeOK BY DEF IInv
<1>6. TypeOK' BY <1>2, <1>3, <1>5, GoesIs DEF TypeOK, Torn
<1>7. FilesTrue'
  <2> SUFFICES ASSUME NEW p \in Paths, file'[p].whole PROVE HasRows(p, file'[p])
    BY DEF FilesTrue, HasRows
  <2>1. p # Path(q, v) BY <1>2, <1>5 DEF TypeOK, Torn
  <2>2. file'[p] = file[p] BY <1>2, <1>5, <2>1 DEF TypeOK
  <2> QED BY <2>2 DEF IInv, FilesTrue
<1>8. ASSUME NEW p \in Queries PROVE Fine(p, query'[p])
  BY <1>2, <1>3, <1>4, <1>5, GoesIs DEF IInv
<1> QED BY <1>6, <1>7, <1>8 DEF IInv

LEMMA CloseFileIInv ==
  ASSUME IInv, NEW q \in Queries, CloseFile(q)
  PROVE  IInv'
<1> DEFINE r == [query[q] EXCEPT !.step = "written"]
           v == query[q].at
           f == IF Writers(Path(q, v)) = {q} THEN [whole |-> TRUE, rows |-> LiveOf(q, v)] ELSE Torn
<1>1. /\ query[q] \in QueryRecord /\ Planned_(q, query[q]) /\ query[q].step = "writing"
  BY OfQuery DEF CloseFile, At
<1>2. Goes(q, r) /\ file' = [file EXCEPT ![Path(q, v)] = f] BY DEF CloseFile
<1>3. /\ r \in QueryRecord /\ r.step = "written" /\ r.at = v /\ r.pin = query[q].pin
      /\ r.todo = query[q].todo /\ r.ranges = query[q].ranges /\ r.read = query[q].read
  BY <1>1 DEF QueryRecord
<1>4. v \in Versions /\ query[q].pin \in Snapshots /\ CatalogOf[q] \in Catalogs
  BY <1>1, ScratchAssumption DEF Planned_, QueryRecord
<1> HIDE DEF r
<1>5. Fine(q, r) BY <1>1, <1>3 DEF Fine, Planned_, Budgeted, Ahead
<1>6. TypeOK BY DEF IInv
<1>7. f \in [whole : BOOLEAN, rows : SUBSET Rows]
  BY <1>4, ScratchAssumption DEF Torn, LiveOf
<1>8. f.whole => HasRows(Path(q, v), f)
  BY <1>4 DEF Torn, HasRows, LiveOf, Path, PathOf
<1> HIDE DEF f
<1>9. TypeOK' BY <1>2, <1>3, <1>6, <1>7, GoesIs DEF TypeOK
<1>10. FilesTrue'
  <2> SUFFICES ASSUME NEW p \in Paths, file'[p].whole PROVE HasRows(p, file'[p])
    BY DEF FilesTrue, HasRows
  <2>1. CASE p = Path(q, v) 
    <3>1. file'[p] = f BY <1>2, <1>6, <2>1 DEF TypeOK
    <3> QED BY <1>8, <2>1, <3>1
  <2>2. CASE p # Path(q, v)
    <3>1. file'[p] = file[p] BY <1>2, <1>6, <2>2 DEF TypeOK
    <3> QED BY <3>1 DEF IInv, FilesTrue
  <2> QED BY <2>1, <2>2
<1>11. ASSUME NEW p \in Queries PROVE Fine(p, query'[p])
  BY <1>2, <1>3, <1>5, <1>6, GoesIs DEF IInv
<1> QED BY <1>9, <1>10, <1>11 DEF IInv

LEMMA NextIInv == IInv /\ [Next]_vars => IInv'
<1> SUFFICES ASSUME IInv, [Next]_vars PROVE IInv'
  OBVIOUS
<1>1. CASE UNCHANGED vars
  <2>1. file' = file /\ query' = query BY <1>1 DEF vars
  <2>2. TypeOK' BY <2>1 DEF IInv, TypeOK
  <2>3. FilesTrue' BY <2>1 DEF IInv, FilesTrue, HasRows
  <2>4. ASSUME NEW p \in Queries PROVE Fine(p, query'[p]) BY <2>1 DEF IInv
  <2> QED BY <2>2, <2>3, <2>4 DEF IInv
<1>2. ASSUME NEW q \in Queries, Step(q) PROVE IInv'
  BY <1>2, CheckTableIInv, CheckVersionIInv, QuietIInv, OpenFileIInv, CloseFileIInv DEF Step
<1> QED BY <1>1, <1>2 DEF Next

-----------------------------------------------------------------------------
(* OWN ROWS                                                                *)
(* Only ReadPages gives a query rows, and only ReadPages and CheckTable    *)
(* change what they are compared with.                                     *)
LEMMA NextOwnInv ==
  ASSUME OwnDirs, IInv, OwnInv, [Next]_vars
  PROVE  OwnInv'
<1>1. CASE UNCHANGED vars
  <2>1. query' = query BY <1>1 DEF vars
  <2>2. ASSUME NEW p \in Queries PROVE GotOwn(p, query'[p]) BY <2>1 DEF OwnInv
  <2> QED BY <2>2 DEF OwnInv
<1>2. ASSUME NEW q \in Queries, Step(q) PROVE OwnInv'
  <2>0. /\ query[q] \in QueryRecord /\ Planned_(q, query[q]) /\ GotOwn(q, query[q])
        /\ TypeOK
    BY OfQuery DEF IInv, OwnInv
  <2>1. SUFFICES ASSUME NEW r, Goes(q, r), GotOwn(q, r) PROVE OwnInv'
    <3>1. CASE \E s \in Snapshots : CheckTable(q, s)
      <4>1. PICK s \in Snapshots : CheckTable(q, s) BY <3>1
      <4>2. query[q].read = {} /\ query[q].got = {}
        BY <2>0, <4>1 DEF CheckTable, At, Planned_, Ahead, GotOwn
      <4>3. ASSUME NEW n, NEW live,
                   Goes(q, [query[q] EXCEPT !.pin = s, !.todo = live, !.step = n])
            PROVE  OwnInv'
        <5> DEFINE r == [query[q] EXCEPT !.pin = s, !.todo = live, !.step = n]
        <5>1. r.read = {} /\ r.got = {} BY <2>0, <4>2 DEF QueryRecord
        <5>2. GotOwn(q, r) BY <5>1 DEF GotOwn
        <5> QED BY <2>1, <4>3, <5>2
      <4> QED BY <4>1, <4>3 DEF CheckTable
    <3>2. CASE ReadPages(q)
      <4> DEFINE v == query[q].at
                 p == Path(q, v)
      <4>1. query[q].step = "opened" BY <3>2 DEF ReadPages, At
      <4>2. v \in Versions /\ query[q].pin \in Snapshots /\ CatalogOf[q] \in Catalogs
        BY <2>0, <4>1, ScratchAssumption DEF Planned_, QueryRecord
      <4>3. CASE Complete(p)
        <5> DEFINE r == [query[q] EXCEPT !.step = "scanning", !.at = 0, !.read = @ \cup {v},
                                         !.got = @ \cup file[p].rows]
        <5>1. p \in Paths /\ p = <<ScratchDir[CatalogOf[q]], v, query[q].pin>>
          BY <4>2 DEF Path, PathOf, Paths
        <5>2. HasRows(p, file[p]) BY <4>3, <5>1 DEF IInv, FilesTrue, Complete
        <5>3. PICK c \in Catalogs, w \in Versions, s \in Snapshots :
                p = <<ScratchDir[c], w, s>> /\ file[p].rows = Live[c][w][s]
          BY <5>2 DEF HasRows
        <5>4. c = CatalogOf[q] /\ w = v /\ s = query[q].pin
          <6> HIDE DEF v, p
          <6> QED BY <4>2, <5>1, <5>3 DEF OwnDirs
        <5>5. file[p].rows = RowsAt(q, v, query[q].pin) BY <5>3, <5>4 DEF RowsAt
        <5>6. /\ r.pin = query[q].pin /\ r.read = query[q].read \cup {v}
              /\ r.got = query[q].got \cup RowsAt(q, v, query[q].pin)
          BY <2>0, <5>5 DEF QueryRecord
        <5>7. Goes(q, r) BY <3>2, <4>3 DEF ReadPages
        <5> HIDE DEF r, p, v
        <5>8. GotOwn(q, r) BY <2>0, <5>6 DEF GotOwn
        <5> QED BY <2>1, <5>7, <5>8
      <4>4. CASE ~Complete(p)
        <5> DEFINE r == [query[q] EXCEPT !.step = "failed"]
        <5>1. GotOwn(q, r) BY <2>0 DEF GotOwn, QueryRecord
        <5> QED BY <2>1, <3>2, <4>4, <5>1 DEF ReadPages
      <4> QED BY <4>3, <4>4
    <3>3. CASE \/ RefuseTable(q) \/ RefuseRows(q) \/ Planned(q) \/ EndScan(q)
               \/ StartPlan(q) \/ CloseFile(q) \/ AddRange(q)
               \/ \E v \in Versions : CheckVersion(q, v) \/ OpenFile(q, v) \/ ReadFooter(q, v)
      <4>1. PICK r : /\ Goes(q, r) /\ r.read = query[q].read /\ r.got = query[q].got
                     /\ r.pin = query[q].pin
        <5>1. CASE RefuseTable(q) \/ RefuseRows(q) \/ Planned(q) \/ EndScan(q)
          BY <2>0, <5>1 DEF RefuseTable, RefuseRows, Planned, EndScan, QueryRecord
        <5>2. CASE StartPlan(q)
          <6> DEFINE r == [query[q] EXCEPT !.step = "planning", !.todo = LiveVersions(q, query[q].pin)]
          <6>1. Goes(q, r) BY <5>2 DEF StartPlan
          <6>2. r.read = query[q].read /\ r.got = query[q].got /\ r.pin = query[q].pin
            BY <2>0 DEF QueryRecord
          <6> QED BY <6>1, <6>2
        <5>3. CASE CloseFile(q)
          <6> DEFINE r == [query[q] EXCEPT !.step = "written"]
          <6>1. Goes(q, r) BY <5>3 DEF CloseFile
          <6>2. r.read = query[q].read /\ r.got = query[q].got /\ r.pin = query[q].pin
            BY <2>0 DEF QueryRecord
          <6> QED BY <6>1, <6>2
        <5>4. CASE AddRange(q)
          <6> DEFINE r == [query[q] EXCEPT
                              !.step = "planning", !.at = 0, !.todo = @ \ {query[q].at},
                              !.ranges = @ \cup {query[q].at},
                              !.short = IF Complete(Path(q, query[q].at)) THEN @ ELSE @ \cup {query[q].at}]
          <6>1. Goes(q, r) BY <5>4 DEF AddRange
          <6>2. r.read = query[q].read /\ r.got = query[q].got /\ r.pin = query[q].pin
            BY <2>0 DEF QueryRecord
          <6> QED BY <6>1, <6>2
        <5>5. ASSUME NEW v \in Versions, CheckVersion(q, v)
              PROVE  \E r : /\ Goes(q, r) /\ r.read = query[q].read /\ r.got = query[q].got
                            /\ r.pin = query[q].pin
          BY <2>0, <5>5 DEF CheckVersion, QueryRecord
        <5>6. ASSUME NEW v \in Versions, OpenFile(q, v)
              PROVE  \E r : /\ Goes(q, r) /\ r.read = query[q].read /\ r.got = query[q].got
                            /\ r.pin = query[q].pin
          <6> DEFINE r == [query[q] EXCEPT !.step = "writing", !.at = v]
          <6>1. Goes(q, r) BY <5>6 DEF OpenFile
          <6>2. r.read = query[q].read /\ r.got = query[q].got /\ r.pin = query[q].pin
            BY <2>0 DEF QueryRecord
          <6> QED BY <6>1, <6>2
        <5>7. ASSUME NEW v \in Versions, ReadFooter(q, v)
              PROVE  \E r : /\ Goes(q, r) /\ r.read = query[q].read /\ r.got = query[q].got
                            /\ r.pin = query[q].pin
          <6> DEFINE r == IF Complete(Path(q, v)) /\ v \notin query[q].short
                         THEN [query[q] EXCEPT !.step = "opened", !.at = v]
                         ELSE [query[q] EXCEPT !.step = "failed"]
          <6>1. Goes(q, r) BY <5>7 DEF ReadFooter
          <6>2. r.read = query[q].read /\ r.got = query[q].got /\ r.pin = query[q].pin
            BY <2>0 DEF QueryRecord
          <6> QED BY <6>1, <6>2
        <5> QED BY <3>3, <5>1, <5>2, <5>3, <5>4, <5>5, <5>6, <5>7
      <4>2. GotOwn(q, r) BY <2>0, <4>1 DEF GotOwn
      <4> QED BY <2>1, <4>1, <4>2
    <3> QED BY <1>2, <3>1, <3>2, <3>3 DEF Step
  <2>2. ASSUME NEW p \in Queries PROVE GotOwn(p, query'[p])
    BY <2>0, <2>1 DEF Goes, TypeOK, OwnInv
  <2> QED BY <2>2 DEF OwnInv
<1> QED BY <1>1, <1>2 DEF Next

-----------------------------------------------------------------------------
(* THE THEOREMS                                                            *)
THEOREM Invariance == Spec => []IInv
<1> QED BY InitIInv, NextIInv, PTL DEF Spec

(* Files, and queries' progress, are of their types.                       *)
THEOREM ScratchTypes == Spec => []TypeOK
<1>1. IInv => TypeOK BY DEF IInv
<1> QED BY <1>1, Invariance, PTL

(* For any catalogs whose scratch directories differ, any number of        *)
(* queries and any rows, a query that ends has the inlined rows of its own *)
(* snapshot: sharing files by their names, and overwriting them, is sound. *)
THEOREM RowsAreOwn ==
  ASSUME OwnDirs
  PROVE  Spec => []OwnRows
<1>1. Init => OwnInv
  <2> SUFFICES ASSUME Init, NEW q \in Queries PROVE GotOwn(q, query[q])
    BY DEF OwnInv
  <2> QED BY DEF Init, GotOwn
<1>2. IInv /\ OwnInv /\ [Next]_vars => OwnInv' BY NextOwnInv
<1>3. IInv /\ OwnInv => OwnRows
  <2> SUFFICES ASSUME IInv, OwnInv, NEW q \in Queries, At(q, "done")
               PROVE  query[q].got = UNION {LiveOf(q, v) : v \in Versions}
    BY DEF OwnRows
  <2>1. query[q].got = UNION {RowsAt(q, v, query[q].pin) : v \in query[q].read}
    BY DEF OwnInv, GotOwn
  <2>2. query[q].read = LiveVersions(q, query[q].pin)
    BY OfQuery DEF Planned_, At
  <2>3. \A v \in Versions : LiveOf(q, v) = RowsAt(q, v, query[q].pin)
    BY DEF LiveOf, RowsAt
  <2> QED BY <2>1, <2>2, <2>3 DEF LiveVersions, RowsAt
<1> QED BY <1>1, <1>2, <1>3, Invariance, PTL DEF Spec

(* For any budgets and any table, the check reads no more than they allow  *)
(* and refuses no table that they allow.                                   *)
THEOREM BudgetIsExact == Spec => []BudgetExact
<1>1. IInv => BudgetExact
  <2> SUFFICES ASSUME IInv, NEW q \in Queries
               PROVE  LET all == LiveVersions(q, query[q].pin)
                          total == Cardinality(RowsIn(q, all))
                      IN  /\ At(q, "checking") /\ Columns(q) > 0 =>
                               Spent(q) <= MaxInlineRows /\ Spent(q) * Columns(q) <= MaxInlineValues
                          /\ At(q, "over") =>
                               \/ Cardinality(all) > MaxInlineSchemas
                               \/ total > MaxInlineRows
                               \/ total * Columns(q) > MaxInlineValues
    BY DEF BudgetExact
  <2>1. \A V : RowsIn(q, V) = Pairs(q, V, query[q].pin)
    BY DEF RowsIn, Pairs, LiveOf, RowsAt
  <2>2. Columns(q) = Width(q, query[q]) BY DEF Columns, Width
  <2>3. Budgeted(q, query[q]) BY OfQuery
  <2> QED BY <2>1, <2>2, <2>3 DEF Budgeted, Spent, At
<1> QED BY <1>1, Invariance, PTL
=============================================================================
