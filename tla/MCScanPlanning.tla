--------------------------- MODULE MCScanPlanning ---------------------------
(***************************************************************************)
(* Instances of ScanPlanning for TLC, over a table with an integer column, *)
(* by which it is bucket-partitioned, a string and a TIMESTAMP_NS column.  *)
(***************************************************************************)
EXTENDS ScanPlanning, TLC

CONSTANTS r1, r2, r3, r4, r5, r6, f1, f2, f3, f4, id, name, ns

ThreeRows  == {r1, r2, r3}
TwoRows    == {r1, r2}

(* Strings of two characters, of which 2 is the greatest there is.         *)
Row(i, n, t) == (id :> i) @@ (name :> n) @@ (ns :> t)
Stores == (r1 :> Row(<<1>>, <<1, 2>>, <<4>>)) @@ (r2 :> Row(<<2>>, <<1>>, <<5>>))
       @@ (r3 :> Row(<<9>>, <<2>>, Null))     @@ (r4 :> Row(Null, <<2, 2, 1>>, <<6>>))
       @@ (r5 :> Row(<<3>>, Null, <<7>>))     @@ (r6 :> Row(<<2>>, <<1, 2, 2>>, <<5>>))
Hashes == (<<1>> :> 1) @@ (<<2>> :> 4) @@ (<<3>> :> 2) @@ (<<9>> :> 5)

(* r1 matches both conjuncts; r2 the first one only, and the span of the   *)
(* second; r3 neither.                                                     *)
Prefix(p) == [op |-> "like", col |-> name, prefix |-> p, clean |-> TRUE]
In(c, list) == [op |-> "in", col |-> c, list |-> list]
BeginsWithOne == Prefix(<<1>>)
OneOrThree    == In(id, {<<1>>, <<3>>})

Compare(op, c, v) == [op |-> op, col |-> c, lit |-> v]
LiteralsOf(c) == IF c = name THEN {<<1>>, <<1, 2>>, <<2>>} ELSE {<<2>>, <<3>>}
Simple == UNION {{Compare(op, c, v) : op \in Comparisons, v \in LiteralsOf(c) \cup {Null}} : c \in {id, name, ns}}
Lists ==
  {In(id, {}), OneOrThree, In(id, {<<2>>, <<7>>}), In(id, {<<2>>, Null}), In(name, {<<1, 2>>, <<2>>}),
   In(ns, {<<2>>, <<3>>}), [In(id, {<<1>>, <<2>>}) EXCEPT !.op = "not in"]}
Ors ==
  {[op |-> "or", of |-> {Compare(x, id, <<1>>), Compare(y, c, v)}] :
     x \in {"=", "<="}, y \in {"=", "<=>"}, c \in {id, name}, v \in {<<9>>, Null}}
Others ==
  {[op |-> "other"], [Prefix(<<1>>) EXCEPT !.clean = FALSE],
   [op |-> "between", col |-> id, lo |-> <<2>>, hi |-> <<3>>],
   [op |-> "between", col |-> name, lo |-> <<1, 2>>, hi |-> Null],
   [op |-> "between", col |-> ns, lo |-> <<2>>, hi |-> <<2>>]}
LikePrefixes == {Prefix(p) : p \in {<<>>, <<1>>, <<2>>, <<1, 2>>, <<2, 2>>, <<1, 2, 2>>}}
Single == Simple \cup Lists \cup Ors \cup Others \cup LikePrefixes
Pairs == {{OneOrThree, e} : e \in Simple \cup Lists} \cup {{BeginsWithOne, e} : e \in Lists \cup Ors}
AllFilters == {{e} : e \in Single} \cup Pairs

(* File ids are interchangeable.                                           *)
FileSymmetry == Permutations({f1, f2, f3, f4})
=============================================================================
