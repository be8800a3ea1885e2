----------------------- MODULE PredicatePruningProofs -----------------------
(***************************************************************************)
(* That pruning keeps every file with a row that matches, for any columns, *)
(* rows, statistics, partition specs and filters.                          *)
(***************************************************************************)
EXTENDS PredicatePruning, FiniteSetTheorems, TLAPS

-----------------------------------------------------------------------------
(* ORDER                                                                   *)
(* A finite set that is not empty has a least element in a total order.    *)
LEMMA LeastExists ==
  ASSUME NEW V, IsFiniteSet(V), V # {}, NEW R,
         \A x, y \in V : <<x, y>> \in R \/ <<y, x>> \in R,
         \A x, y \in V : <<x, y>> \in R /\ <<y, x>> \in R => x = y,
         \A x, y, z \in V : <<x, y>> \in R /\ <<y, z>> \in R => <<x, z>> \in R
  PROVE  \E m \in V : \A w \in V : <<m, w>> \in R
<1> DEFINE Down(x) == {y \in V : <<y, x>> \in R}
           T == {Down(x) : x \in V}
<1>1. IsWellFoundedOn(StrictSubsetOrdering(V), FiniteSubsetsOf(V))
  BY FS_StrictSubsetOrderingWellFounded
<1>2. T \subseteq FiniteSubsetsOf(V) /\ T # {}
  <2>1. \A D \in T : D \subseteq V OBVIOUS
  <2>2. \A D \in T : IsFiniteSet(D) BY <2>1, FS_Subset
  <2>3. PICK x \in V : TRUE OBVIOUS
  <2>4. Down(x) \in T BY <2>3
  <2> QED BY <2>1, <2>2, <2>4 DEF FiniteSubsetsOf
<1>3. PICK D \in T : \A E \in T : ~(<<E, D>> \in StrictSubsetOrdering(V))
  BY <1>1, <1>2, WFMin
<1>4. PICK m \in V : D = Down(m) BY <1>3
<1>5. ASSUME NEW w \in V, <<m, w>> \notin R PROVE FALSE
  <2>1. <<w, m>> \in R BY <1>5
  <2>2. Down(w) \subseteq Down(m) BY <2>1
  <2>3. m \notin Down(w) /\ m \in Down(m) BY <1>5
  <2>4. <<Down(w), D>> \in StrictSubsetOrdering(V)
    BY <1>4, <2>2, <2>3 DEF StrictSubsetOrdering
  <2> QED BY <1>3, <2>4
<1> QED BY <1>5

(* The first and the last of a set of places in a sequence.                *)
LEMMA FirstPlace ==
  ASSUME NEW n \in Nat, NEW V \in SUBSET (1..n), V # {}
  PROVE  \E m \in V : \A w \in V : m <= w
<1> DEFINE R == {x \in V \X V : x[1] <= x[2]}
<1>1. IsFiniteSet(V)
  <2>1. 1 \in Int /\ n \in Int OBVIOUS
  <2>2. IsFiniteSet(1..n) BY <2>1, FS_Interval
  <2> QED BY <2>2, FS_Subset
<1>2. \A x, y \in V : x \in Int /\ y \in Int /\ (<<x, y>> \in R <=> x <= y) OBVIOUS
<1>3. /\ \A x, y \in V : <<x, y>> \in R \/ <<y, x>> \in R
      /\ \A x, y \in V : <<x, y>> \in R /\ <<y, x>> \in R => x = y
      /\ \A x, y, z \in V : <<x, y>> \in R /\ <<y, z>> \in R => <<x, z>> \in R
  BY <1>2
<1> HIDE DEF R
<1>4. \E m \in V : \A w \in V : <<m, w>> \in R BY <1>1, <1>3, LeastExists
<1> QED BY <1>2, <1>4

LEMMA LastPlace ==
  ASSUME NEW n \in Nat, NEW V \in SUBSET (1..n), V # {}
  PROVE  \E m \in V : \A w \in V : w <= m
<1> DEFINE R == {x \in V \X V : x[2] <= x[1]}
<1>1. IsFiniteSet(V)
  <2>1. 1 \in Int /\ n \in Int OBVIOUS
  <2>2. IsFiniteSet(1..n) BY <2>1, FS_Interval
  <2> QED BY <2>2, FS_Subset
<1>2. \A x, y \in V : x \in Int /\ y \in Int /\ (<<x, y>> \in R <=> y <= x) OBVIOUS
<1>3. /\ \A x, y \in V : <<x, y>> \in R \/ <<y, x>> \in R
      /\ \A x, y \in V : <<x, y>> \in R /\ <<y, x>> \in R => x = y
      /\ \A x, y, z \in V : <<x, y>> \in R /\ <<y, z>> \in R => <<x, z>> \in R
  BY <1>2
<1> HIDE DEF R
<1>4. \E m \in V : \A w \in V : <<m, w>> \in R BY <1>1, <1>3, LeastExists
<1> QED BY <1>2, <1>4

LEMMA LeqReflexive ==
  ASSUME NEW v \in Seq(Int) PROVE Leq(v, v)
BY DEF Leq, Starts

LEMMA LeqTransitive ==
  ASSUME NEW u \in Seq(Int), NEW v \in Seq(Int), NEW w \in Seq(Int), Leq(u, v), Leq(v, w)
  PROVE  Leq(u, w)
<1> DEFINE Diff(a, b, i) == i \in 1..Len(a) /\ i <= Len(b) /\ a[i] < b[i] /\ \A j \in 1..(i - 1) : a[j] = b[j]
<1>0. Len(u) \in Nat /\ Len(v) \in Nat /\ Len(w) \in Nat OBVIOUS
<1>a. /\ \A i \in 1..Len(u) : u[i] \in Int
      /\ \A i \in 1..Len(v) : v[i] \in Int
      /\ \A i \in 1..Len(w) : w[i] \in Int
  OBVIOUS
<1>1. CASE Starts(v, u) /\ Starts(w, v)
  BY <1>1, <1>0 DEF Leq, Starts
<1>2. ASSUME NEW i, Diff(u, v, i), Starts(w, v) PROVE Leq(u, w)
  <2>1. Diff(u, w, i) BY <1>2, <1>0 DEF Starts
  <2> QED BY <2>1 DEF Leq
<1>3. ASSUME NEW k, Starts(v, u), Diff(v, w, k) PROVE Leq(u, w)
  <2>1. CASE k <= Len(u)
    <3>1. Diff(u, w, k) BY <1>3, <1>0, <2>1 DEF Starts
    <3> QED BY <3>1 DEF Leq
  <2>2. CASE k > Len(u)
    <3>1. Starts(w, u) BY <1>3, <1>0, <2>2 DEF Starts
    <3> QED BY <3>1 DEF Leq
  <2> QED BY <1>3, <1>0, <2>1, <2>2
<1>4. ASSUME NEW i, NEW k, Diff(u, v, i), Diff(v, w, k) PROVE Leq(u, w)
  <2>1. i \in Nat /\ k \in Nat /\ i >= 1 /\ k >= 1 BY <1>4
  <2>2. CASE i <= k
    <3>1. u[i] \in Int /\ v[i] \in Int /\ i <= Len(w) /\ w[i] \in Int /\ v[i] <= w[i]
      <4>1. i \in 1..Len(u) /\ i \in 1..Len(v) /\ i \in 1..Len(w) BY <1>0, <1>4, <2>1, <2>2
      <4>2. i = k \/ i \in 1..(k - 1) BY <2>1, <2>2
      <4> QED BY <1>a, <1>4, <4>1, <4>2
    <3>2. \A j \in 1..(i - 1) : u[j] = w[j] BY <1>4, <2>1, <2>2
    <3>3. Diff(u, w, i) BY <1>4, <3>1, <3>2
    <3> QED BY <3>3 DEF Leq
  <2>3. CASE k < i
    <3>1. k \in 1..Len(u) /\ k <= Len(w) /\ u[k] = v[k] BY <1>0, <1>4, <2>1, <2>3
    <3>2. \A j \in 1..(k - 1) : u[j] = w[j] BY <1>4, <2>1, <2>3
    <3>3. Diff(u, w, k) BY <1>4, <3>1, <3>2
    <3> QED BY <3>3 DEF Leq
  <2> QED BY <2>1, <2>2, <2>3
<1> QED BY <1>1, <1>2, <1>3, <1>4 DEF Leq

LEMMA LeqAntisymmetric ==
  ASSUME NEW u \in Seq(Int), NEW v \in Seq(Int), Leq(u, v), Leq(v, u)
  PROVE  u = v
<1>0. Len(u) \in Nat /\ Len(v) \in Nat OBVIOUS
<1>a. (\A i \in 1..Len(u) : u[i] \in Int) /\ (\A i \in 1..Len(v) : v[i] \in Int)
  OBVIOUS
<1>1. CASE Starts(v, u) /\ Starts(u, v)
  <2>1. Len(u) = Len(v) /\ \A i \in 1..Len(u) : u[i] = v[i] BY <1>0, <1>1 DEF Starts
  <2> QED BY <2>1
<1>2. ASSUME NEW i \in 1..Len(u), i <= Len(v), u[i] < v[i], \A j \in 1..(i - 1) : u[j] = v[j], Leq(v, u)
      PROVE  FALSE
  <2>1. ~Starts(u, v) BY <1>0, <1>a, <1>2 DEF Starts
  <2>2. PICK k \in 1..Len(v) : k <= Len(u) /\ v[k] < u[k] /\ \A j \in 1..(k - 1) : v[j] = u[j]
    BY <1>2, <2>1 DEF Leq
  <2>3. i \in 1..Len(v) /\ k \in 1..Len(u) /\ i \in Int /\ k \in Int BY <1>0, <1>2, <2>2
  <2>4. CASE i = k BY <1>a, <1>2, <2>2, <2>3, <2>4
  <2>5. CASE i < k
    <3>1. i \in 1..(k - 1) BY <2>3, <2>5
    <3> QED BY <1>a, <1>2, <2>2, <2>3, <3>1
  <2>6. CASE k < i
    <3>1. k \in 1..(i - 1) BY <2>3, <2>6
    <3> QED BY <1>a, <1>2, <2>2, <2>3, <3>1
  <2> QED BY <2>3, <2>4, <2>5, <2>6
<1>3. ASSUME NEW i \in 1..Len(v), i <= Len(u), v[i] < u[i], \A j \in 1..(i - 1) : v[j] = u[j], Starts(v, u)
      PROVE  FALSE
  <2>1. i \in 1..Len(u) BY <1>0, <1>3
  <2> QED BY <1>a, <1>3, <2>1 DEF Starts
<1> QED BY <1>1, <1>2, <1>3 DEF Leq

LEMMA LeqTotal ==
  ASSUME NEW u \in Seq(Int), NEW v \in Seq(Int)
  PROVE  Leq(u, v) \/ Leq(v, u)
<1> DEFINE n == IF Len(u) <= Len(v) THEN Len(u) ELSE Len(v)
           D == {i \in 1..n : u[i] # v[i]}
<1>0. Len(u) \in Nat /\ Len(v) \in Nat /\ n \in Nat /\ n <= Len(u) /\ n <= Len(v) OBVIOUS
<1>1. CASE D = {}
  <2>1. \A i \in 1..n : u[i] = v[i] BY <1>1
  <2>2. n = Len(u) \/ n = Len(v) OBVIOUS
  <2> QED BY <1>0, <2>1, <2>2 DEF Leq, Starts
<1>2. CASE D # {}
  <2>1. PICK i \in D : \A j \in D : i <= j BY <1>0, <1>2, FirstPlace
  <2>2. i \in 1..Len(u) /\ i \in 1..Len(v) /\ u[i] \in Int /\ v[i] \in Int /\ u[i] # v[i]
    BY <1>0, <2>1
  <2>3. \A j \in 1..(i - 1) : u[j] = v[j]
    <3> SUFFICES ASSUME NEW j \in 1..(i - 1), u[j] # v[j] PROVE FALSE
      OBVIOUS
    <3>1. j \in 1..n /\ j < i BY <1>0, <2>1
    <3> QED BY <2>1, <3>1
  <2>4. u[i] < v[i] \/ v[i] < u[i] BY <2>2
  <2> QED BY <1>0, <2>2, <2>3, <2>4 DEF Leq
<1> QED BY <1>1, <1>2

LEMMA Extremes ==
  ASSUME NEW V \in SUBSET Seq(Int), IsFiniteSet(V), NEW v \in V
  PROVE  /\ Least(V) \in V /\ Leq(Least(V), v)
         /\ Greatest(V) \in V /\ Leq(v, Greatest(V))
<1>1. \E m \in V : \A w \in V : Leq(m, w)
  <2> DEFINE R == {x \in V \X V : Leq(x[1], x[2])}
  <2>1. \A x, y \in V : <<x, y>> \in R <=> Leq(x, y) OBVIOUS
  <2>2. /\ \A x, y \in V : <<x, y>> \in R \/ <<y, x>> \in R
        /\ \A x, y \in V : <<x, y>> \in R /\ <<y, x>> \in R => x = y
        /\ \A x, y, z \in V : <<x, y>> \in R /\ <<y, z>> \in R => <<x, z>> \in R
    BY <2>1, LeqTotal, LeqAntisymmetric, LeqTransitive
  <2> HIDE DEF R
  <2>3. \E m \in V : \A w \in V : <<m, w>> \in R BY <2>2, LeastExists
  <2> QED BY <2>1, <2>3
<1>2. \E m \in V : \A w \in V : Leq(w, m)
  <2> DEFINE R == {x \in V \X V : Leq(x[2], x[1])}
  <2>1. \A x, y \in V : <<x, y>> \in R <=> Leq(y, x) OBVIOUS
  <2>2. /\ \A x, y \in V : <<x, y>> \in R \/ <<y, x>> \in R
        /\ \A x, y \in V : <<x, y>> \in R /\ <<y, x>> \in R => x = y
        /\ \A x, y, z \in V : <<x, y>> \in R /\ <<y, z>> \in R => <<x, z>> \in R
    BY <2>1, LeqTotal, LeqAntisymmetric, LeqTransitive
  <2> HIDE DEF R
  <2>3. \E m \in V : \A w \in V : <<m, w>> \in R BY <2>2, LeastExists
  <2> QED BY <2>1, <2>3
<1> QED BY <1>1, <1>2 DEF Least, Greatest

(* What a finite set's elements are mapped to is finite.                   *)
LEMMA ImageFinite ==
  ASSUME NEW S, IsFiniteSet(S), NEW f, DOMAIN f = S
  PROVE  IsFiniteSet({f[x] : x \in S})
<1> DEFINE T == {f[x] : x \in S}
           g == [x \in S |-> f[x]]
<1>1. g \in Surjection(S, T) BY DEF Surjection
<1> HIDE DEF g
<1> QED BY <1>1, FS_Surjection

-----------------------------------------------------------------------------
(* RANGES                                                                  *)
LEMMA PrefixBound ==
  ASSUME NEW prefix \in Seq(0..MaxChar), NEW v \in Seq(Int), Starts(v, prefix)
  PROVE  LET hi == PrefixUpperBound(prefix)
         IN  hi = Null \/ (hi \in Seq(Int) /\ Leq(v, hi))
<1> DEFINE V == {i \in 1..Len(prefix) : prefix[i] # MaxChar}
           Last(i) == prefix[i] # MaxChar /\ \A j \in (i + 1)..Len(prefix) : prefix[j] = MaxChar
           last == CHOOSE i \in 1..Len(prefix) : Last(i)
           hi == [i \in 1..last |-> IF i = last THEN prefix[i] + 1 ELSE prefix[i]]
<1>1. CASE V = {}
  <2>1. \A i \in 1..Len(prefix) : prefix[i] = MaxChar BY <1>1
  <2> QED BY <2>1 DEF PrefixUpperBound
<1>2. CASE V # {}
  <2>0. Len(prefix) \in Nat /\ \A i \in 1..Len(prefix) : prefix[i] \in Int
    BY PruningAssumption
  <2>1. PICK m \in V : \A w \in V : w <= m BY <1>2, <2>0, LastPlace
  <2>2. Last(m)
    <3>1. ASSUME NEW j \in (m + 1)..Len(prefix), prefix[j] # MaxChar PROVE FALSE
      <4>1. j \in V /\ j > m BY <2>0, <2>1, <3>1
      <4> QED BY <2>0, <2>1, <4>1
    <3> QED BY <2>1, <3>1
  <2>3. last \in 1..Len(prefix) /\ Last(last) BY <2>1, <2>2
  <2>4. PrefixUpperBound(prefix) = hi BY <1>2 DEF PrefixUpperBound
  <2> HIDE DEF last
  <2>5. /\ last \in Nat /\ last \in 1..Len(hi) /\ last \in 1..Len(v) /\ last <= Len(hi)
        /\ hi \in Seq(Int)
    <3>1. last \in Nat /\ last >= 1 BY <2>0, <2>3
    <3>2. hi \in [1..last -> Int] BY <2>0, <2>3
    <3>3. hi \in Seq(Int) /\ Len(hi) = last BY <3>1, <3>2
    <3>4. Len(v) \in Nat /\ Len(prefix) <= Len(v) BY DEF Starts
    <3> QED BY <2>0, <2>3, <3>1, <3>3, <3>4
  <2>6. v[last] = prefix[last] /\ v[last] < hi[last]
    <3>1. v[last] = prefix[last] /\ prefix[last] \in Int BY <2>0, <2>3 DEF Starts
    <3>2. hi[last] = prefix[last] + 1 BY <2>5
    <3> QED BY <3>1, <3>2
  <2>7. ASSUME NEW j \in 1..(last - 1) PROVE v[j] = hi[j]
    <3>1. j \in 1..last /\ j # last /\ j \in 1..Len(prefix) BY <2>0, <2>3, <2>5
    <3> QED BY <3>1 DEF Starts
  <2> HIDE DEF hi
  <2>8. Leq(v, hi) BY <2>5, <2>6, <2>7 DEF Leq
  <2> QED BY <2>4, <2>5, <2>8
<1> QED BY <1>1, <1>2

(* A row a conjunct is true of has one of the values the conjunct confines *)
(* its column to.                                                          *)
LEMMA InMembership ==
  ASSUME NEW e, Conjunct(e), NEW r \in Records, Matches(e, r), NEW m \in Membership(e)
  PROVE  /\ m.col \in Columns
         /\ m.values \subseteq Seq(Int) /\ IsFiniteSet(m.values)
         /\ Shown(m.col, Value[r][m.col]) \in m.values
<1>0. Null \notin Seq(Int) BY PruningAssumption
<1>1. CASE Comparison(e)
  <2>1. m = [col |-> e.col, values |-> {e.lit}] /\ IsPoint(e)
    BY <1>1 DEF Membership, Comparison, Comparisons
  <2>2. e.lit \in Seq(Int) /\ Of(e, r) = e.lit
    BY <1>1, <2>1 DEF Comparison, IsPoint, Literals, Matches, Compares
  <2>3. IsFiniteSet({e.lit}) BY FS_Singleton
  <2> QED BY <1>1, <2>1, <2>2, <2>3 DEF Comparison, Of
<1>2. CASE e.op = "in" /\ e.col \in Columns /\ e.list \subseteq Literals /\ IsFiniteSet(e.list)
  <2>1. m = [col |-> e.col, values |-> e.list] /\ Null \notin e.list
    BY <1>2 DEF Membership, Comparisons
  <2>2. Of(e, r) \in e.list BY <1>2 DEF Matches, Comparisons
  <2> QED BY <1>2, <2>1, <2>2 DEF Of, Literals
<1>3. CASE e.op = "or" /\ IsFiniteSet(e.of) /\ \A d \in e.of : Comparison(d)
  <2>1. /\ \A d \in e.of : IsPoint(d)
        /\ \A d, g \in e.of : d.col = g.col
        /\ \E d \in e.of : m = [col |-> d.col, values |-> {g.lit : g \in e.of}]
    BY <1>3 DEF Membership, Comparisons
  <2>2. PICK d \in e.of : Compares(d, Of(d, r)) BY <1>3 DEF Matches, Comparisons
  <2>3. d.lit \in Seq(Int) /\ Of(d, r) = d.lit
    BY <1>3, <2>1, <2>2 DEF Comparison, IsPoint, Literals, Compares
  <2>4. m.col = d.col /\ m.values = {g.lit : g \in e.of} BY <2>1
  <2>5. m.values \subseteq Seq(Int) BY <1>3, <2>1, <2>4 DEF Comparison, IsPoint, Literals
  <2>6. IsFiniteSet(m.values)
    <3> DEFINE lit == [g \in e.of |-> g.lit]
    <3>1. DOMAIN lit = e.of /\ m.values = {lit[g] : g \in e.of} BY <2>4
    <3> HIDE DEF lit
    <3> QED BY <1>3, <3>1, ImageFinite
  <2>7. d.col \in Columns BY <1>3 DEF Comparison
  <2> QED BY <2>3, <2>4, <2>5, <2>6, <2>7 DEF Of
<1>4. CASE e.op \in {"between", "not in", "like", "other"}
  BY <1>4 DEF Membership, Comparisons
<1> QED BY <1>1, <1>2, <1>3, <1>4 DEF Conjunct

(* The stored value of such a row lies within the range of the conjunct.   *)
LEMMA InRange ==
  ASSUME NEW e, Conjunct(e), NEW r \in Records, Matches(e, r), NEW p \in Ranges(e)
  PROVE  LET v == Value[r][p.col]
         IN  /\ p.col \in Columns /\ v \in Seq(Int)
             /\ p.hi = Null \/ (p.hi \in Seq(Int) /\ Leq(v, p.hi))
             /\ p.lo = Null \/ (p.lo \in Seq(Int) /\ Leq(p.lo, v))
<1>0. Null \notin Seq(Int) BY PruningAssumption
<1>a. \A c \in Columns : Value[r][c] \in Literals BY PruningAssumption DEF Literals
<1>b. p \in Converted(e) /\ Shown(p.col, Value[r][p.col]) = Value[r][p.col]
  BY DEF Ranges, Shown
<1>1. CASE Comparison(e)
  <2>1. p \in FromComparison(e) BY <1>1, <1>b DEF Converted, Comparison, Comparisons
  <2>2. e.lit \in Seq(Int) /\ e.col \in Columns /\ p.col = e.col
    BY <1>1, <2>1 DEF FromComparison, Comparison, Literals, Between
  <2> DEFINE v == Value[r][e.col]
  <2>3. Of(e, r) = v /\ v \in Literals BY <1>a, <1>b, <2>2 DEF Of
  <2>4. Compares(e, v) BY <1>1, <2>3 DEF Matches, Comparison, Comparisons
  <2> HIDE DEF v
  <2>5. CASE e.op \in {"=", "<=>"}
    <3>1. p = [col |-> e.col, lo |-> e.lit, hi |-> e.lit] BY <2>1, <2>5 DEF FromComparison, Between
    <3>2. v = e.lit BY <2>4, <2>5 DEF Compares
    <3>3. Leq(v, v) BY <2>2, <3>2, LeqReflexive
    <3> QED BY <2>2, <3>1, <3>2, <3>3 DEF v
  <2>6. CASE e.op \in {">", ">="}
    <3>1. p = [col |-> e.col, lo |-> e.lit, hi |-> Null] BY <2>1, <2>6 DEF FromComparison, Between
    <3>2. v # Null /\ Leq(e.lit, v) BY <2>4, <2>6 DEF Compares, Less
    <3> QED BY <2>2, <2>3, <3>1, <3>2 DEF v, Literals
  <2>7. CASE e.op \in {"<", "<="}
    <3>1. p = [col |-> e.col, lo |-> Null, hi |-> e.lit] BY <2>1, <2>7 DEF FromComparison, Between
    <3>2. v # Null /\ Leq(v, e.lit) BY <2>4, <2>7 DEF Compares, Less
    <3> QED BY <2>2, <2>3, <3>1, <3>2 DEF v, Literals
  <2>8. CASE e.op = "!=" BY <2>1, <2>8 DEF FromComparison
  <2> QED BY <1>1, <2>5, <2>6, <2>7, <2>8 DEF Comparison, Comparisons
<1>2. CASE e.op = "between" /\ e.col \in Columns /\ {e.lo, e.hi} \subseteq Literals
  <2>1. p = [col |-> e.col, lo |-> e.lo, hi |-> e.hi] /\ Null \notin {e.lo, e.hi}
    BY <1>2, <1>b DEF Converted, Comparisons, Between
  <2>2. Of(e, r) # Null /\ Leq(e.lo, Of(e, r)) /\ Leq(Of(e, r), e.hi)
    BY <1>2 DEF Matches, Comparisons
  <2>3. Of(e, r) = Value[r][e.col] BY <1>b, <2>1 DEF Of
  <2> QED BY <1>2, <1>a, <2>1, <2>2, <2>3 DEF Literals
<1>3. CASE e.op \in {"in", "or"}
  <2>1. p \in FromMembership(e) BY <1>3, <1>b DEF Converted, Comparisons
  <2>2. PICK m \in Membership(e) : p = [col |-> m.col, lo |-> Least(m.values), hi |-> Greatest(m.values)]
    BY <2>1 DEF FromMembership, Between
  <2>3. /\ m.col \in Columns
        /\ m.values \in SUBSET Seq(Int) /\ IsFiniteSet(m.values)
        /\ Value[r][m.col] \in m.values
    BY <1>b, <2>2, InMembership
  <2>4. /\ Least(m.values) \in m.values /\ Leq(Least(m.values), Value[r][m.col])
        /\ Greatest(m.values) \in m.values /\ Leq(Value[r][m.col], Greatest(m.values))
    BY <2>3, Extremes
  <2> QED BY <2>2, <2>3, <2>4
<1>4. CASE e.op = "like" /\ e.col \in Columns /\ e.prefix \in Seq(0..MaxChar)
  <2>1. p = [col |-> e.col, lo |-> e.prefix, hi |-> PrefixUpperBound(e.prefix)]
    BY <1>4, <1>b DEF Converted, Comparisons, Between
  <2>2. Of(e, r) # Null /\ Starts(Of(e, r), e.prefix) BY <1>4 DEF Matches, Comparisons
  <2>3. Of(e, r) = Value[r][e.col] BY <1>b, <2>1 DEF Of
  <2>4. Value[r][e.col] \in Seq(Int) BY <1>4, <1>a, <2>2, <2>3 DEF Literals
  <2>5. e.prefix \in Seq(Int)
    <3>1. MaxChar \in Nat BY PruningAssumption
    <3> QED BY <1>4, <3>1
  <2>6. Leq(e.prefix, Value[r][e.col]) BY <2>2, <2>3 DEF Leq
  <2>7. \/ PrefixUpperBound(e.prefix) = Null
        \/ PrefixUpperBound(e.prefix) \in Seq(Int) /\ Leq(Value[r][e.col], PrefixUpperBound(e.prefix))
    BY <1>4, <2>2, <2>3, <2>4, PrefixBound
  <2> QED BY <1>4, <2>1, <2>4, <2>5, <2>6, <2>7
<1>5. CASE e.op \in {"not in", "other"}
  BY <1>5, <1>b DEF Converted, Comparisons
<1> QED BY <1>1, <1>2, <1>3, <1>4, <1>5 DEF Conjunct

-----------------------------------------------------------------------------
(* FILES                                                                   *)
LEMMA KeptByRange ==
  ASSUME NEW f \in Written, NEW r \in f.rows, NEW e, Conjunct(e), Matches(e, r), NEW p \in Ranges(e)
  PROVE  MeetsRange(f, p)
<1> DEFINE V == Stored(f, p.col)
           v == Value[r][p.col]
<1>1. f.rows \in SUBSET Records /\ r \in Records BY DEF Written
<1>2. /\ p.col \in Columns /\ v \in Seq(Int)
      /\ p.hi = Null \/ (p.hi \in Seq(Int) /\ Leq(v, p.hi))
      /\ p.lo = Null \/ (p.lo \in Seq(Int) /\ Leq(p.lo, v))
  BY <1>1, InRange
<1>3. v \in V
  <2>1. v # Null BY <1>2, PruningAssumption
  <2> QED BY <2>1 DEF Stored
<1>4. V \in SUBSET Seq(Int)
  <2>1. \A x \in f.rows : Value[x][p.col] \in Seq(Int) \cup {Null}
    BY <1>1, <1>2, PruningAssumption
  <2> QED BY <2>1 DEF Stored
<1>5. IsFiniteSet(V)
  <2> DEFINE val == [x \in f.rows |-> Value[x][p.col]]
  <2>1. DOMAIN val = f.rows /\ V = {val[x] : x \in f.rows} \ {Null} BY DEF Stored
  <2> HIDE DEF val
  <2>2. IsFiniteSet(f.rows) BY <1>1, FS_Subset, PruningAssumption
  <2>3. IsFiniteSet({val[x] : x \in f.rows}) BY <2>1, <2>2, ImageFinite
  <2>4. V \in SUBSET {val[x] : x \in f.rows} BY <2>1
  <2> QED BY <2>3, <2>4, FS_Subset
<1> HIDE DEF V, v
<1>6. /\ Least(V) \in Seq(Int) /\ Leq(Least(V), v)
      /\ Greatest(V) \in Seq(Int) /\ Leq(v, Greatest(V))
  BY <1>3, <1>4, <1>5, Extremes
<1>7. p.hi = Null \/ Leq(Least(V), p.hi) BY <1>2, <1>6, LeqTransitive
<1>8. p.lo = Null \/ Leq(p.lo, Greatest(V)) BY <1>2, <1>6, LeqTransitive
<1> QED BY <1>7, <1>8 DEF MeetsRange, V

LEMMA KeptByBuckets ==
  ASSUME NEW E, NEW f \in Written, NEW r \in f.rows,
         \A e \in E : Conjunct(e) /\ Matches(e, r)
  PROVE  MeetsBuckets(f, E)
<1> SUFFICES ASSUME Candidates(E) # {}, Candidates(E) \subseteq DOMAIN Hash, f.active, f.bucket # Null
             PROVE  f.bucket \in {Bucket(v) : v \in Candidates(E)}
  BY DEF MeetsBuckets
<1>1. r \in Records BY DEF Written
<1>2. PICK e \in E : \E n \in Membership(e) : n.col = BucketColumn /\ n.values \subseteq Candidates(E)
  BY DEF Candidates
<1>3. PICK m \in Membership(e) : m.col = BucketColumn /\ m.values \subseteq Candidates(E) BY <1>2
<1> DEFINE v == Value[r][BucketColumn]
<1>4. Shown(BucketColumn, v) \in Candidates(E) BY <1>1, <1>3, InMembership
<1>5. BucketColumn \notin Nanos BY <1>4, PruningAssumption
<1>6. v \in Candidates(E) /\ v \in DOMAIN Hash BY <1>4, <1>5 DEF Shown
<1>7. f.bucket = Bucket(v) BY <1>6 DEF Written
<1> QED BY <1>6, <1>7

(* Whatever the filter, a file with a row for which all of it is true is   *)
(* kept, by its statistics and by its bucket.                              *)
THEOREM PruningIsSafe == KeepsMatches
<1> SUFFICES ASSUME NEW E \in Filters, NEW f \in Written, NEW r \in f.rows,
                    \A e \in E : Matches(e, r)
             PROVE  Kept(f, E)
  BY DEF KeepsMatches
<1>1. \A e \in E : Conjunct(e) /\ Matches(e, r) BY FiltersAssumption
<1>2. MeetsBuckets(f, E) BY <1>1, KeptByBuckets
<1>3. \A e \in E : \A p \in Ranges(e) : MeetsRange(f, p) BY <1>1, KeptByRange
<1> QED BY <1>2, <1>3 DEF Kept
=============================================================================
