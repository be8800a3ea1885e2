-------------------------- MODULE PredicatePruning --------------------------
(***************************************************************************)
(* Which files applyFilter keeps for a filter: those whose column          *)
(* statistics meet the range of every conjunct that has one                *)
(* (DuckLakePredicateConverter), and of these, if the table is             *)
(* bucket-partitioned, those of a bucket that a candidate value hashes to  *)
(* (DuckLakeMembership, bucketPrune).  The backend applies the filter      *)
(* again, so a file must be kept if it may hold a row that matches.        *)
(*                                                                         *)
(* A value is the sequence of the numbers it is compared by: an integer or *)
(* a time is one number, a string its characters.  Characters outside the  *)
(* basic plane, whose order in Java is not the one of the statistics, are  *)
(* left out.                                                               *)
(***************************************************************************)
EXTENDS Integers, Sequences, FiniteSets

CONSTANTS
  Records,       \* the rows there may be
  Columns,
  Value,         \* Value[r][c]: what is stored of row r in column c, or Null
  Null,          \* NULL; also an open bound
  MaxChar,       \* Char.MAX_VALUE
  Nanos,         \* the TIMESTAMP_NS columns
  BucketColumn,  \* the column the active partition spec hashes
  Arity,         \* into how many buckets
  Hash,          \* Hash[v]: the hash of a value of a supported literal type
  Filters        \* filters, as the sets of their conjuncts

ASSUME PruningAssumption ==
  /\ IsFiniteSet(Records)
  /\ Value \in [Records -> [Columns -> Seq(Int) \cup {Null}]]
  /\ Null \notin Seq(Int)
  /\ MaxChar \in Nat
  /\ Nanos \subseteq Columns /\ BucketColumn \in Columns
  /\ Arity \in Nat \ {0}
  /\ \A v \in DOMAIN Hash : v \in Seq(Int) /\ Hash[v] \in Nat
  /\ BucketColumn \in Nanos => DOMAIN Hash = {}    \* times are not hashed

-----------------------------------------------------------------------------
(* VALUES                                                                  *)
Starts(v, prefix) == Len(prefix) <= Len(v) /\ \A i \in 1..Len(prefix) : v[i] = prefix[i]

(* The order of a column's values and statistics.                          *)
Leq(v, w) ==
  \/ Starts(w, v)
  \/ \E i \in 1..Len(v) :
       i <= Len(w) /\ v[i] < w[i] /\ \A j \in 1..(i - 1) : v[j] = w[j]
Less(v, w) == Leq(v, w) /\ v # w

Least(V) == CHOOSE v \in V : \A w \in V : Leq(v, w)
Greatest(V) == CHOOSE v \in V : \A w \in V : Leq(w, v)

(* A query sees a TIMESTAMP_NS in microseconds, of which two stand here for*)
(* the thousand stored values each.                                        *)
Shown(c, v) == IF v # Null /\ c \in Nanos THEN <<v[1] \div 2>> ELSE v

-----------------------------------------------------------------------------
(* CONJUNCTS, AND WHICH ROWS THEY ARE TRUE OF                              *)
(* Comparisons have a literal lit, which may be Null; "between" has lo and *)
(* hi; "in" and "not in" a list of literals; "or" a set of comparisons;    *)
(* "like" a prefix and whether % ends its pattern as the only wildcard.    *)
(* "other" stands for whatever is not looked at.                           *)
Comparisons == {"=", "<=>", "<", "<=", ">", ">=", "!="}

Literals == Seq(Int) \cup {Null}
Comparison(d) == d.op \in Comparisons /\ d.col \in Columns /\ d.lit \in Literals

Conjunct(e) ==
  \/ Comparison(e)
  \/ e.op = "between" /\ e.col \in Columns /\ {e.lo, e.hi} \subseteq Literals
  \/ e.op \in {"in", "not in"} /\ e.col \in Columns /\ e.list \subseteq Literals /\ IsFiniteSet(e.list)
  \/ e.op = "or" /\ IsFiniteSet(e.of) /\ \A d \in e.of : Comparison(d)
  \/ e.op = "like" /\ e.col \in Columns /\ e.prefix \in Seq(0..MaxChar) /\ e.clean \in BOOLEAN
  \/ e.op = "other"

ASSUME FiltersAssumption == \A E \in Filters : \A e \in E : Conjunct(e)

Compares(e, v) ==
  CASE e.op = "<=>" -> v = e.lit
    [] e.op = "="   -> v = e.lit /\ v # Null
    [] e.op = "!="  -> v # e.lit /\ v # Null /\ e.lit # Null
    [] e.op = "<"   -> v # Null /\ e.lit # Null /\ Less(v, e.lit)
    [] e.op = "<="  -> v # Null /\ e.lit # Null /\ Leq(v, e.lit)
    [] e.op = ">"   -> v # Null /\ e.lit # Null /\ Less(e.lit, v)
    [] e.op = ">="  -> v # Null /\ e.lit # Null /\ Leq(e.lit, v)

Of(e, r) == Shown(e.col, Value[r][e.col])

Matches(e, r) ==
  CASE e.op \in Comparisons -> Compares(e, Of(e, r))
    [] e.op = "between" ->
         /\ Null \notin {Of(e, r), e.lo, e.hi}
         /\ Leq(e.lo, Of(e, r)) /\ Leq(Of(e, r), e.hi)
    [] e.op = "in"      -> Of(e, r) \in e.list \ {Null}
    [] e.op = "not in"  -> Null \notin e.list \cup {Of(e, r)} /\ Of(e, r) \notin e.list
    [] e.op = "or"      -> \E d \in e.of : Compares(d, Of(d, r))
    [] e.op = "like"    -> Of(e, r) # Null /\ Starts(Of(e, r), e.prefix)
    [] e.op = "other"   -> TRUE

-----------------------------------------------------------------------------
(* DUCKLAKEMEMBERSHIP: the values a conjunct confines a column to, if any  *)
IsPoint(e) == e.op \in {"=", "<=>"} /\ e.lit # Null

Membership(e) ==
  CASE e.op \in Comparisons -> IF IsPoint(e) THEN {[col |-> e.col, values |-> {e.lit}]} ELSE {}
    [] e.op = "in" -> IF e.list = {} \/ Null \in e.list THEN {} ELSE {[col |-> e.col, values |-> e.list]}
    [] e.op = "or" ->
         IF (\A d \in e.of : IsPoint(d)) /\ (\A d, g \in e.of : d.col = g.col) /\ e.of # {}
         THEN {[col |-> d.col, values |-> {g.lit : g \in e.of}] : d \in e.of}
         ELSE {}
    [] OTHER -> {}

-----------------------------------------------------------------------------
(* DUCKLAKEPREDICATECONVERTER: the range of a conjunct, if it has one      *)
Between(c, lo, hi) == {[col |-> c, lo |-> lo, hi |-> hi]}

(* A mutant of PrefixUpperBound: the last character is bumped, and wraps.  *)
BumpLast(prefix) == [prefix EXCEPT ![Len(prefix)] = (@ + 1) % (MaxChar + 1)]

(* The last character that can be is bumped, and those behind it go.       *)
PrefixUpperBound(prefix) ==
  IF \A i \in 1..Len(prefix) : prefix[i] = MaxChar THEN Null
  ELSE LET last == CHOOSE i \in 1..Len(prefix) :
                     prefix[i] # MaxChar /\ \A j \in (i + 1)..Len(prefix) : prefix[j] = MaxChar
       IN  [i \in 1..last |-> IF i = last THEN prefix[i] + 1 ELSE prefix[i]]

FromComparison(e) ==
  IF e.lit = Null THEN {}
  ELSE CASE e.op \in {"=", "<=>"} -> Between(e.col, e.lit, e.lit)
         [] e.op \in {">", ">="}  -> Between(e.col, e.lit, Null)
         [] e.op \in {"<", "<="}  -> Between(e.col, Null, e.lit)
         [] OTHER -> {}

FromMembership(e) ==
  UNION {Between(m.col, Least(m.values), Greatest(m.values)) : m \in Membership(e)}

Converted(e) ==
  CASE e.op \in Comparisons    -> FromComparison(e)
    [] e.op = "between"        -> IF Null \in {e.lo, e.hi} THEN {} ELSE Between(e.col, e.lo, e.hi)
    [] e.op \in {"in", "or"}   -> FromMembership(e)
    [] e.op = "like"           -> IF ~e.clean \/ e.prefix = <<>> THEN {}
                                  ELSE Between(e.col, e.prefix, PrefixUpperBound(e.prefix))
    [] OTHER -> {}

(* Columns whose literals are coarser than their statistics have no range. *)
Ranges(e) == {p \in Converted(e) : p.col \notin Nanos}

-----------------------------------------------------------------------------
(* FILES                                                                   *)
(* A file has rows; known are the columns with statistics; active says that*)
(* it was written under the active spec, and then bucket is its bucket.    *)
Stored(f, c) == {Value[r][c] : r \in f.rows} \ {Null}

(* findDataFileIdsInRange: unknown statistics keep a file.                 *)
MeetsRange(f, p) ==
  LET stored == Stored(f, p.col)
  IN  p.col \notin f.known \/ stored = {} \/
        /\ p.hi = Null \/ Leq(Least(stored), p.hi)
        /\ p.lo = Null \/ Leq(p.lo, Greatest(stored))

(* The values that any conjunct confines the bucket column to.             *)
Candidates(E) == UNION {m.values : m \in {n \in UNION {Membership(e) : e \in E} : n.col = BucketColumn}}

Bucket(v) == Hash[v] % Arity

(* A mutant of MeetsBuckets: files of another spec are looked up as well.  *)
MeetsAnySpec(f, E) ==
  Candidates(E) # {} /\ Candidates(E) \subseteq DOMAIN Hash =>
    f.bucket = Null \/ f.bucket \in {Bucket(v) : v \in Candidates(E)}

MeetsBuckets(f, E) ==
  Candidates(E) # {} /\ Candidates(E) \subseteq DOMAIN Hash =>
    ~f.active \/ f.bucket = Null \/ f.bucket \in {Bucket(v) : v \in Candidates(E)}

Kept(f, E) ==
  /\ \A e \in E : \A p \in Ranges(e) : MeetsRange(f, p)
  /\ MeetsBuckets(f, E)

-----------------------------------------------------------------------------
(* Files as writers leave them: in one of the active spec all rows are of  *)
(* its bucket; one of an older spec may have any.                          *)
Written ==
  {f \in [rows: SUBSET Records, known: SUBSET Columns, active: BOOLEAN, bucket: 0..(Arity - 1) \cup {Null}] :
     f.active => \A r \in f.rows :
       LET v == Value[r][BucketColumn]
       IN  IF v \in DOMAIN Hash THEN f.bucket = Bucket(v) ELSE v = Null => f.bucket = Null}

(* Pruning never drops a file that holds a row for which the whole filter  *)
(* is true: not by a bound that is too tight, by a NULL, by the span of a  *)
(* list, by the end of a prefix, or by the bucket of another spec.         *)
KeepsMatches ==
  \A E \in Filters, f \in Written :
    (\E r \in f.rows : \A e \in E : Matches(e, r)) => Kept(f, E)
=============================================================================
