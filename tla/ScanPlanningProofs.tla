------------------------- MODULE ScanPlanningProofs -------------------------
(***************************************************************************)
(* That a plan has exactly the rows of its pin: for any rows, files,       *)
(* queries, snapshots, statistics and filters, and, where rewrites do not  *)
(* run between the reads of one query, that it misses none of them.        *)
(***************************************************************************)
EXTENDS ScanPlanning, PredicatePruningProofs

-----------------------------------------------------------------------------
(* THE CATALOG                                                             *)
(* The newest of the snapshots that a file has rows of.                    *)
Newest(f) == IF file[f].partialMax = 0 THEN file[f].begin ELSE file[f].partialMax

Bounded ==
  /\ \A r \in Rows : born[r] <= head /\ gone[r] <= head /\ (gone[r] # 0 => born[r] \in 1..(gone[r] - 1))
  /\ \A f \in files : /\ file[f].begin \in 1..head /\ file[f].begin <= Newest(f)
                      /\ file[f].end <= head /\ file[f].partialMax <= head
                      /\ file[f].deletesFrom <= head
                      /\ file[f].layout \in Layouts \cup {"native"}
(* A file is tagged with a snapshot that is no older than any of its rows. *)
Tagged == \A f \in files : \A r \in file[f].rows : born[r] \in 1..Newest(f)
(* A dead row of a file is named by an inlined delete, or by a delete file *)
(* that was there when it died, or the file had ended.                     *)
DeadNamed ==
  \A f \in files : \A r \in file[f].rows : gone[r] # 0 =>
    \/ r \in tombs
    \/ r \in file[f].deletes /\ file[f].deletesFrom \in 1..gone[r]
    \/ file[f].end \in 1..gone[r]
(* Nothing names a row that lives.                                         *)
LivingSpared ==
  /\ \A f \in files : \A r \in file[f].deletes : gone[r] # 0
  /\ \A r \in tombs : gone[r] # 0 /\ r \notin inlined
(* A row is in one place: files that share it are not seen together, or    *)
(* one of them is tagged with a snapshot that is too new.                  *)
EndsBefore(f, g) == file[f].end \in 1..Newest(g)
OnePlace ==
  /\ \A f, g \in files : f # g /\ file[f].rows \cap file[g].rows # {} => EndsBefore(f, g) \/ EndsBefore(g, f)
  /\ \A r \in inlined : born[r] # 0 /\ \A f \in files : r \notin file[f].rows
(* And it is in some place in every snapshot that has it.                  *)
SomePlace ==
  \A s \in 0..head, r \in Rows : VisibleAt(r, s) =>
    r \in inlined \/ \E f \in DataFiles(s) : r \in file[f].rows

Catalog == Bounded /\ Tagged /\ DeadNamed /\ LivingSpared /\ OnePlace /\ SomePlace

-----------------------------------------------------------------------------
(* THE LEAST AND THE GREATEST OF SOME SNAPSHOTS                            *)
LEMMA MinIs ==
  ASSUME NEW n \in Nat, NEW T \in SUBSET (1..n), T # {}
  PROVE  Min(T) \in T /\ \A t \in T : Min(T) <= t
<1>1. \E m \in T : \A t \in T : m <= t BY FirstPlace
<1> QED BY <1>1 DEF Min

LEMMA MaxIs ==
  ASSUME NEW n \in Nat, NEW T \in SUBSET (1..n), T # {}
  PROVE  Max(T) \in T /\ \A t \in T : t <= Max(T)
<1>1. \E m \in T : \A t \in T : t <= m BY LastPlace
<1>2. \E m \in T : \A t \in T : m >= t
  <2>1. PICK m \in T : \A t \in T : t <= m BY <1>1
  <2>2. \A t \in T : m >= t BY <2>1
  <2> QED BY <2>1, <2>2
<1>3. Max(T) \in T /\ \A t \in T : Max(T) >= t BY <1>2 DEF Max
<1> QED BY <1>3

(* What a merged or flushed file is tagged with.                           *)
LEMMA PartialMaxIs ==
  ASSUME NEW n \in Nat, NEW T \in SUBSET (1..n), NEW b \in T
  PROVE  /\ PartialMax(T) \in 0..n
         /\ \A t \in T : t <= IF PartialMax(T) = 0 THEN b ELSE PartialMax(T)
<1>1. IsFiniteSet(T)
  <2>1. 1 \in Int /\ n \in Int OBVIOUS
  <2>2. IsFiniteSet(1..n) BY <2>1, FS_Interval
  <2> QED BY <2>2, FS_Subset
<1>2. CASE Cardinality(T) = 1
  <2>1. PICK x : T = {x} BY <1>1, <1>2, FS_Singleton
  <2>2. PartialMax(T) = 0 BY <1>2 DEF PartialMax
  <2>3. \A t \in T : t = b /\ t \in Int BY <2>1
  <2> QED BY <2>2, <2>3
<1>3. CASE Cardinality(T) # 1
  <2>1. PartialMax(T) = Max(T) BY <1>3 DEF PartialMax
  <2>2. Max(T) \in T /\ \A t \in T : t <= Max(T) BY MaxIs
  <2>3. Max(T) \in 1..n BY <2>2
  <2>4. PartialMax(T) # 0 /\ PartialMax(T) \in 0..n BY <2>1, <2>3
  <2> QED BY <2>1, <2>2, <2>4
<1> QED BY <1>2, <1>3

-----------------------------------------------------------------------------
(* TYPES                                                                   *)
LEMMA CountIsInt ==
  ASSUME NEW F \in SUBSET Files PROVE RecordCount(F) \in Nat
<1>1. IsFiniteSet(F) BY ScanAssumption, FS_Subset
<1>2. IsFiniteSet(Rows) BY ScanAssumption, PruningAssumption, FS_Subset
<1>3. IsFiniteSet(F \X Rows) BY <1>1, <1>2, FS_Product
<1>4. IsFiniteSet({x \in F \X Rows : x[2] \in file[x[1]].rows}) BY <1>3, FS_Subset
<1> QED BY <1>4, FS_CardinalityType DEF RecordCount

LEMMA NextSnapshot ==
  ASSUME TypeOK, Commit
  PROVE  head \in Nat /\ head' = head + 1 /\ head \in Snapshots /\ head' \in Snapshots
BY ScanAssumption DEF TypeOK, Commit, Snapshots

LEMMA InsertFileTypes ==
  ASSUME TypeOK, NEW R \in SUBSET Unborn, NEW f \in Files, NEW layout \in Layouts, InsertFile(R, f, layout)
  PROVE  TypeOK'
<1>1. head' \in Snapshots /\ head' = head + 1 BY NextSnapshot DEF InsertFile
<1>2. born' \in [Rows -> Snapshots] BY <1>1 DEF TypeOK, InsertFile, Born
<1>3. file' \in [Files -> FileRecord]
  BY <1>1, ScanAssumption DEF TypeOK, InsertFile, Commit, NoFile, FileRecord, Unborn, AnyLayout, Snapshots
<1> QED BY <1>1, <1>2, <1>3 DEF TypeOK, InsertFile

LEMMA InsertInlinedTypes ==
  ASSUME TypeOK, NEW R \in SUBSET Unborn, InsertInlined(R)
  PROVE  TypeOK'
<1>1. head' \in Snapshots /\ head' = head + 1 BY NextSnapshot DEF InsertInlined
<1>2. born' \in [Rows -> Snapshots] BY <1>1 DEF TypeOK, InsertInlined, Born
<1> QED BY <1>1, <1>2 DEF TypeOK, InsertInlined, Unborn

LEMMA DeleteRowsTypes ==
  ASSUME TypeOK, NEW D \in SUBSET Rows, DeleteRows(D)
  PROVE  TypeOK'
<1>1. head' \in Snapshots /\ head' = head + 1 BY NextSnapshot DEF DeleteRows
<1>2. gone' \in [Rows -> Snapshots] BY <1>1 DEF TypeOK, DeleteRows, Gone
<1>3. \A f \in Files : WithDeletes(f, D \ inlined, head + 1) \in FileRecord
  BY <1>1 DEF TypeOK, WithDeletes, FileRecord
<1>4. file' \in [Files -> FileRecord] BY <1>3 DEF TypeOK, DeleteRows
<1> QED BY <1>1, <1>2, <1>4 DEF TypeOK, DeleteRows

LEMMA DeleteInlinedTypes ==
  ASSUME TypeOK, NEW r \in Rows, DeleteInlined(r)
  PROVE  TypeOK'
<1>1. head' \in Snapshots /\ head' = head + 1 BY NextSnapshot DEF DeleteInlined
<1>2. gone' \in [Rows -> Snapshots] BY <1>1 DEF TypeOK, DeleteInlined, Gone
<1> QED BY <1>1, <1>2 DEF TypeOK, DeleteInlined

-----------------------------------------------------------------------------
(* WHAT A COMMIT DOES TO FILES                                             *)
(* The rows of a file, the snapshots it is seen in and its layout.         *)
SameFile(g) ==
  /\ file'[g].rows = file[g].rows /\ file'[g].begin = file[g].begin /\ file'[g].end = file[g].end
  /\ file'[g].partialMax = file[g].partialMax /\ file'[g].layout = file[g].layout
SameDeletes(g) == file'[g].deletes = file[g].deletes /\ file'[g].deletesFrom = file[g].deletesFrom
NewFile(f, rows, layout) ==
  /\ f \notin files /\ files' = files \cup {f}
  /\ file'[f].rows = rows /\ file'[f].end = 0 /\ file'[f].layout = layout

LEMMA InsertFileEffect ==
  ASSUME TypeOK, NEW R \in SUBSET Unborn, NEW f \in Files, NEW layout \in Layouts, InsertFile(R, f, layout)
  PROVE  /\ NewFile(f, R, layout) /\ file'[f].begin = head + 1 /\ file'[f].partialMax = 0
         /\ file'[f].deletes = {} /\ file'[f].deletesFrom = 0
         /\ \A g \in Files : g # f => file'[g] = file[g]
BY DEF TypeOK, InsertFile, Fresh, NewFile, NoFile, SameFile, SameDeletes

LEMMA DeleteRowsEffect ==
  ASSUME TypeOK, NEW D \in SUBSET Rows, DeleteRows(D), NEW g \in Files
  PROVE  LET hit == IF g \in DataFiles(head) THEN file[g].rows \cap (D \ inlined) ELSE {}
         IN  /\ SameFile(g) /\ file'[g].deletes = file[g].deletes \cup hit
             /\ file'[g].deletesFrom =
                  IF hit # {} /\ file[g].deletesFrom = 0 THEN head + 1 ELSE file[g].deletesFrom
<1> DEFINE hit == file[g].rows \cap (D \ inlined)
<1>1. file[g] \in FileRecord /\ WithDeletes(g, D \ inlined, head + 1) \in FileRecord
  <2>1. head' = head + 1 /\ head' \in Snapshots BY NextSnapshot DEF DeleteRows
  <2> QED BY <2>1 DEF TypeOK, WithDeletes, FileRecord
<1>2. file'[g] = IF g \in DataFiles(head) THEN WithDeletes(g, D \ inlined, head + 1) ELSE file[g]
  BY DEF DeleteRows
<1>3. CASE g \in DataFiles(head) /\ hit # {}
  <2> DEFINE r == [file[g] EXCEPT !.deletes = @ \cup hit, !.deletesFrom = IF @ = 0 THEN head + 1 ELSE @]
  <2>1. file'[g] = r BY <1>2, <1>3 DEF WithDeletes
  <2>2. /\ r.rows = file[g].rows /\ r.begin = file[g].begin /\ r.end = file[g].end
        /\ r.partialMax = file[g].partialMax /\ r.layout = file[g].layout
        /\ r.deletes = file[g].deletes \cup hit
        /\ r.deletesFrom = IF file[g].deletesFrom = 0 THEN head + 1 ELSE file[g].deletesFrom
    BY <1>1 DEF FileRecord
  <2> HIDE DEF r
  <2> QED BY <1>3, <2>1, <2>2 DEF SameFile
<1>4. CASE ~(g \in DataFiles(head) /\ hit # {})
  <2>1. file'[g] = file[g] BY <1>2, <1>4 DEF WithDeletes
  <2> QED BY <1>4, <2>1 DEF SameFile
<1> QED BY <1>3, <1>4

(* The first of the snapshots that some rows died in.                      *)
FromOf(R) == IF R = {} THEN 0 ELSE Min({gone[r] : r \in R})
LEMMA FromIs ==
  ASSUME TypeOK, NEW R \in SUBSET Rows, \A r \in R : gone[r] # 0
  PROVE  /\ FromOf(R) \in Snapshots
         /\ R # {} => FromOf(R) # 0 /\ \A r \in R : FromOf(R) <= gone[r]
<1> DEFINE T == {gone[r] : r \in R}
<1>1. MaxSnapshot \in Nat BY ScanAssumption
<1>2. T \in SUBSET (1..MaxSnapshot)
  BY <1>1 DEF TypeOK, Snapshots
<1>3. CASE R # {}
  <2>1. T # {} BY <1>3
  <2>2. Min(T) \in T /\ \A t \in T : Min(T) <= t BY <1>1, <1>2, <2>1, MinIs
  <2>3. FromOf(R) = Min(T) BY <1>3 DEF FromOf
  <2>4. Min(T) \in 1..MaxSnapshot BY <1>2, <2>2
  <2> QED BY <1>1, <2>2, <2>3, <2>4 DEF Snapshots
<1>4. CASE R = {} BY <1>1, <1>4 DEF FromOf, Snapshots
<1> QED BY <1>3, <1>4

(* The inlined deletes of a file become its delete file.                   *)
Hit(g) == IF g \in files THEN file[g].rows \cap tombs ELSE {}
LEMMA FlushEffect ==
  ASSUME TypeOK, Catalog, NEW f \in Files, Flush(f)
  PROVE  /\ file' \in [Files -> FileRecord]
         /\ \A g \in Files : g # f \/ inlined = {} =>
              /\ SameFile(g) /\ file'[g].deletes = file[g].deletes \cup Hit(g)
              /\ IF Hit(g) = {} THEN file'[g].deletesFrom = file[g].deletesFrom
                 ELSE /\ file'[g].deletesFrom # 0
                      /\ file[g].deletesFrom # 0 => file'[g].deletesFrom <= file[g].deletesFrom
                      /\ \A r \in Hit(g) : file'[g].deletesFrom <= gone[r]
         /\ IF inlined = {} THEN files' = files
            ELSE LET births == {born[r] : r \in inlined}
                     dead == {r \in inlined : gone[r] # 0}
                 IN  /\ NewFile(f, inlined, "native")
                     /\ file'[f].begin = Min(births) /\ file'[f].partialMax = PartialMax(births)
                     /\ file'[f].deletes = dead /\ file'[f].deletesFrom = FromOf(dead)
<1> DEFINE births == {born[r] : r \in inlined}
           dead == {r \in inlined : gone[r] # 0}
           flushed == [NoFile EXCEPT !.rows = inlined, !.begin = Min(births),
                                     !.partialMax = PartialMax(births),
                                     !.deletes = dead, !.deletesFrom = FromOf(dead)]
           With(g) == [file[g] EXCEPT !.deletes = @ \cup Hit(g),
                                      !.deletesFrom = IF @ = 0 THEN FromOf(Hit(g)) ELSE Min({@, FromOf(Hit(g))})]
           deleted == [g \in Files |-> IF Hit(g) = {} THEN file[g] ELSE With(g)]
<1>1. file' = IF inlined = {} THEN deleted ELSE [deleted EXCEPT ![f] = flushed]
  <2>1. {r \in inlined \cup tombs : gone[r] # 0} \cap inlined = dead OBVIOUS
  <2>2. \A g \in Files : (g \notin files \/ file[g].rows \cap tombs = {}) <=> Hit(g) = {} BY DEF Hit
  <2>3. \A g \in Files : Hit(g) # {} => Hit(g) = file[g].rows \cap tombs BY DEF Hit
  <2> HIDE DEF dead
  <2> QED BY <2>1, <2>2, <2>3 DEF Flush, FromOf
<1>2. f \notin files /\ Hit(f) = {} /\ \A g \in Files : Hit(g) \in SUBSET Rows /\ \A r \in Hit(g) : gone[r] # 0
  BY DEF Flush, Fresh, Hit, TypeOK, Catalog, LivingSpared
<1>3. ASSUME NEW g \in Files, Hit(g) # {}
      PROVE  /\ With(g) \in FileRecord
             /\ With(g).rows = file[g].rows /\ With(g).begin = file[g].begin /\ With(g).end = file[g].end
             /\ With(g).partialMax = file[g].partialMax /\ With(g).layout = file[g].layout
             /\ With(g).deletes = file[g].deletes \cup Hit(g)
             /\ With(g).deletesFrom # 0
             /\ file[g].deletesFrom # 0 => With(g).deletesFrom <= file[g].deletesFrom
             /\ \A r \in Hit(g) : With(g).deletesFrom <= gone[r]
  <2> DEFINE old == file[g].deletesFrom
             from == FromOf(Hit(g))
             new == IF old = 0 THEN from ELSE Min({old, from})
  <2>1. from \in Snapshots /\ from # 0 /\ \A r \in Hit(g) : from <= gone[r] BY <1>2, <1>3, FromIs
  <2>2. file[g] \in FileRecord /\ old \in Snapshots BY DEF TypeOK, FileRecord
  <2>3. MaxSnapshot \in Nat BY ScanAssumption
  <2> HIDE DEF from, old
  <2>4. new \in Snapshots /\ new # 0 /\ (old # 0 => new <= old) /\ new <= from
    <3>1. CASE old = 0 BY <2>1, <2>3, <3>1 DEF Snapshots
    <3>2. CASE old # 0
      <4>1. {old, from} \in SUBSET (1..MaxSnapshot) /\ {old, from} # {}
        BY <2>1, <2>2, <2>3, <3>2 DEF Snapshots
      <4>2. Min({old, from}) \in {old, from} /\ \A t \in {old, from} : Min({old, from}) <= t
        BY <2>3, <4>1, MinIs
      <4>3. new = Min({old, from}) BY <3>2
      <4>4. Min({old, from}) \in 1..MaxSnapshot BY <4>1, <4>2
      <4> QED BY <2>3, <4>2, <4>3, <4>4 DEF Snapshots
    <3> QED BY <3>1, <3>2
  <2> DEFINE r == [file[g] EXCEPT !.deletes = file[g].deletes \cup Hit(g), !.deletesFrom = new]
  <2>5. With(g) = r BY DEF old, from
  <2> HIDE DEF new, With
  <2>6. r \in FileRecord /\ r.deletesFrom = new /\ r.deletes = file[g].deletes \cup Hit(g)
        /\ r.rows = file[g].rows /\ r.begin = file[g].begin /\ r.end = file[g].end
        /\ r.partialMax = file[g].partialMax /\ r.layout = file[g].layout
    BY <1>2, <2>2, <2>4 DEF FileRecord
  <2> HIDE DEF r
  <2>7. \A x \in Hit(g) : new <= gone[x]
    BY <1>2, <2>1, <2>3, <2>4 DEF TypeOK, Snapshots
  <2> QED BY <2>4, <2>5, <2>6, <2>7 DEF old
<1>4. ASSUME inlined # {} 
      PROVE  /\ flushed \in FileRecord
             /\ flushed.rows = inlined /\ flushed.begin = Min(births) /\ flushed.end = 0
             /\ flushed.partialMax = PartialMax(births) /\ flushed.layout = "native"
             /\ flushed.deletes = dead /\ flushed.deletesFrom = FromOf(dead)
  <2>1. MaxSnapshot \in Nat BY ScanAssumption
  <2>2. births \in SUBSET (1..MaxSnapshot) /\ births # {}
    <3>1. \A r \in inlined : born[r] # 0 /\ born[r] \in Snapshots BY DEF Catalog, OnePlace, TypeOK
    <3> QED BY <1>4, <2>1, <3>1 DEF Snapshots
  <2>3. PICK b \in births : TRUE BY <2>2
  <2> HIDE DEF births
  <2>4. Min(births) \in births BY <2>1, <2>2, MinIs
  <2>5. PartialMax(births) \in 0..MaxSnapshot BY <2>1, <2>2, <2>3, PartialMaxIs
  <2>6. dead \in SUBSET Rows /\ dead \subseteq inlined /\ \A r \in dead : gone[r] # 0 BY DEF TypeOK
  <2>7. FromOf(dead) \in Snapshots BY <2>6, FromIs
  <2>8. Min(births) \in Snapshots /\ PartialMax(births) \in Snapshots /\ 0 \in Snapshots
    <3>1. Min(births) \in 1..MaxSnapshot BY <2>2, <2>4
    <3>2. 1..MaxSnapshot \subseteq 0..MaxSnapshot /\ 0 \in 0..MaxSnapshot BY <2>1
    <3> QED BY <2>5, <3>1, <3>2 DEF Snapshots
  <2>9. NoFile \in FileRecord BY <2>8 DEF NoFile, FileRecord, AnyLayout
  <2>10. inlined \in SUBSET Rows BY DEF TypeOK
  <2>11. NoFile.layout = "native" /\ NoFile.end = 0 BY DEF NoFile
  <2> DEFINE from == FromOf(dead)
             least == Min(births)
             newest == PartialMax(births)
  <2>12. from \in Snapshots /\ least \in Snapshots /\ newest \in Snapshots BY <2>7, <2>8
  <2> HIDE DEF dead, from, least, newest
  <2>13. flushed = [NoFile EXCEPT !.rows = inlined, !.begin = least, !.partialMax = newest,
                                  !.deletes = dead, !.deletesFrom = from]
    BY DEF from, least, newest
  <2> HIDE DEF flushed
  <2> QED BY <2>6, <2>9, <2>10, <2>11, <2>12, <2>13 DEF FileRecord, from, least, newest
<1>5. \A g \in Files : g # f \/ inlined = {} =>
        IF Hit(g) = {} THEN file'[g] = file[g] ELSE file'[g] = With(g)
  BY <1>1
<1>6. inlined # {} => file'[f] = flushed BY <1>1
<1>7. file' \in [Files -> FileRecord]
  <2>1. \A g \in Files : file[g] \in FileRecord BY DEF TypeOK
  <2>2. deleted \in [Files -> FileRecord] BY <1>3, <2>1
  <2> HIDE DEF flushed, With, deleted
  <2> QED BY <1>1, <1>4, <2>2
<1>8. files' = IF inlined = {} THEN files ELSE files \cup {f} BY DEF Flush
<1> HIDE DEF flushed, With, births, dead, deleted
<1>9. ASSUME NEW g \in Files, g # f \/ inlined = {}
      PROVE  /\ SameFile(g) /\ file'[g].deletes = file[g].deletes \cup Hit(g)
              /\ IF Hit(g) = {} THEN file'[g].deletesFrom = file[g].deletesFrom
                 ELSE /\ file'[g].deletesFrom # 0
                      /\ file[g].deletesFrom # 0 => file'[g].deletesFrom <= file[g].deletesFrom
                      /\ \A r \in Hit(g) : file'[g].deletesFrom <= gone[r]
  <2>1. CASE Hit(g) = {}
    <3>1. file'[g] = file[g] BY <1>5, <1>9, <2>1
    <3> QED BY <2>1, <3>1 DEF SameFile
  <2>2. CASE Hit(g) # {}
    <3>1. file'[g] = With(g) BY <1>5, <1>9, <2>2
    <3> QED BY <1>3, <2>2, <3>1 DEF SameFile
  <2> QED BY <2>1, <2>2
<1>10. CASE inlined = {} BY <1>7, <1>8, <1>9, <1>10
<1>11. CASE inlined # {}
  <2>1. NewFile(f, inlined, "native") BY <1>2, <1>4, <1>6, <1>8, <1>11 DEF NewFile
  <2>2. file'[f].begin = Min(births) /\ file'[f].partialMax = PartialMax(births)
        /\ file'[f].deletes = dead /\ file'[f].deletesFrom = FromOf(dead)
    BY <1>4, <1>6, <1>11
  <2> USE DEF births, dead
  <2> QED BY <1>7, <1>9, <1>11, <2>1, <2>2
<1> QED BY <1>10, <1>11

(* A merge takes the rows of files, and is tagged as none of them is newer.*)
LEMMA CompactEffect ==
  ASSUME TypeOK, Catalog, NEW F \in SUBSET files, NEW f \in Files, Compact(F, f)
  PROVE  /\ file' \in [Files -> FileRecord] /\ F # {}
         /\ f \notin files /\ files' = (files \ F) \cup {f}
         /\ \A g \in Files : g # f => file'[g] = file[g]
         /\ file'[f].rows = UNION {file[g].rows : g \in F} /\ file'[f].end = 0
         /\ file'[f].deletes = {} /\ file'[f].deletesFrom = 0
         /\ file'[f].layout \in {Rewritten(g) : g \in F}
         /\ file'[f].begin \in 1..head /\ \A g \in F : file'[f].begin <= file[g].begin
         /\ file'[f].partialMax \in 0..head /\ file'[f].begin <= Newest(f)'
         /\ \A g \in F : Newest(g) <= Newest(f)'
<1> DEFINE rows == UNION {file[g].rows : g \in F}
           begins == {file[g].begin : g \in F}
           tags == UNION {Tags(g) : g \in F}
           least == Min(begins)
           newest == PartialMax(tags)
           layout == Rewritten(CHOOSE g \in F : TRUE)
           merged == [NoFile EXCEPT !.rows = rows, !.begin = least, !.partialMax = newest, !.layout = layout]
<1>1. F # {} /\ F \subseteq Files
  <2>1. Cardinality({}) = 0 BY FS_EmptySet
  <2>2. Cardinality(F) > 1 BY DEF Compact
  <2> QED BY <2>1, <2>2 DEF TypeOK
<1>2. head \in Nat /\ head \in Snapshots /\ MaxSnapshot \in Nat BY NextSnapshot, ScanAssumption DEF Compact
<1>3. \A g \in F : file[g] \in FileRecord /\ file[g].begin \in 1..head /\ file[g].partialMax \in 0..head
  BY <1>1, <1>2 DEF TypeOK, Catalog, Bounded, FileRecord, Snapshots
<1>4. begins \in SUBSET (1..head) /\ begins # {} /\ tags \in SUBSET (1..head)
  <2>1. \A g \in F : Tags(g) \subseteq 1..head BY <1>2, <1>3 DEF Tags
  <2> QED BY <1>1, <1>3, <2>1
<1>5. least \in begins /\ \A t \in begins : least <= t
  <2> HIDE DEF begins
  <2> QED BY <1>2, <1>4, MinIs
<1>6. least \in tags
  <2>1. PICK g \in F : least = file[g].begin BY <1>5
  <2>2. least \in Tags(g) BY <2>1 DEF Tags
  <2> QED BY <2>2
<1>7. newest \in 0..head /\ \A t \in tags : t <= IF newest = 0 THEN least ELSE newest
  <2> HIDE DEF tags, least
  <2> QED BY <1>2, <1>4, <1>6, PartialMaxIs
<1>8. PICK k \in F : layout = Rewritten(k) BY <1>1
<1>9. layout \in AnyLayout BY <1>3, <1>8 DEF Rewritten, FileRecord, AnyLayout
<1>10. rows \in SUBSET Rows
  <2>1. \A h \in F : file[h].rows \subseteq Rows BY <1>3 DEF FileRecord
  <2> QED BY <2>1
<1>11. least \in 1..head BY <1>4, <1>5
<1>12. least \in Snapshots /\ newest \in Snapshots /\ 0 \in Snapshots
  <2>1. 1..head \subseteq 0..MaxSnapshot /\ 0..head \subseteq 0..MaxSnapshot /\ 0 \in 0..MaxSnapshot
    BY <1>2 DEF Snapshots
  <2> QED BY <1>7, <1>11, <2>1 DEF Snapshots
<1> HIDE DEF rows, least, newest, layout
<1>13. /\ merged \in FileRecord /\ merged.rows = rows /\ merged.begin = least /\ merged.end = 0
       /\ merged.partialMax = newest /\ merged.deletes = {} /\ merged.deletesFrom = 0 /\ merged.layout = layout
  BY <1>9, <1>10, <1>12 DEF NoFile, FileRecord
<1>14. file' = [file EXCEPT ![f] = merged] /\ files' = (files \ F) \cup {f} /\ f \notin files
  BY DEF Compact, Fresh, rows, least, newest, layout
<1> HIDE DEF merged
<1>15. file' \in [Files -> FileRecord] /\ file'[f] = merged /\ \A h \in Files : h # f => file'[h] = file[h]
  BY <1>13, <1>14 DEF TypeOK
<1>16. Newest(f)' = IF newest = 0 THEN least ELSE newest BY <1>13, <1>15 DEF Newest
<1>17. \A h \in F : Newest(h) \in tags
  <2>1. \A h \in F : Newest(h) \in Tags(h) BY DEF Newest, Tags
  <2> QED BY <2>1
<1>18. \A h \in F : file[h].begin \in begins OBVIOUS
<1> HIDE DEF begins, tags
<1>19. /\ file'[f].begin \in 1..head /\ \A h \in F : file'[f].begin <= file[h].begin
       /\ file'[f].partialMax \in 0..head /\ file'[f].begin <= Newest(f)'
       /\ \A h \in F : Newest(h) <= Newest(f)'
  BY <1>5, <1>6, <1>7, <1>11, <1>13, <1>15, <1>16, <1>17, <1>18
<1>20. file'[f].rows = UNION {file[h].rows : h \in F} BY <1>13, <1>15 DEF rows
<1>21. file'[f].layout \in {Rewritten(h) : h \in F} BY <1>8, <1>13, <1>15
<1> QED BY <1>1, <1>13, <1>14, <1>15, <1>19, <1>20, <1>21

(* A rewrite ends a file and starts another with the rows that are left.   *)
LEMMA RewriteEffect ==
  ASSUME TypeOK, Catalog, NEW g \in Files, NEW f \in Files, Rewrite(g, f)
  PROVE  /\ file' \in [Files -> FileRecord] /\ g # f
         /\ NewFile(f, file[g].rows \ file[g].deletes, Rewritten(g))
         /\ file'[f].begin = head + 1 /\ file'[f].partialMax = 0
         /\ file'[f].deletes = {} /\ file'[f].deletesFrom = 0
         /\ \A h \in Files \ {f, g} : file'[h] = file[h]
         /\ file'[g].end = head + 1 /\ file'[g].rows = file[g].rows /\ file'[g].begin = file[g].begin
         /\ file'[g].partialMax = file[g].partialMax /\ file'[g].layout = file[g].layout /\ SameDeletes(g)
<1> DEFINE rows == file[g].rows \ file[g].deletes
           layout == Rewritten(g)
           left == [NoFile EXCEPT !.rows = rows, !.begin = head + 1, !.layout = layout]
           ended == [file[g] EXCEPT !.end = head + 1]
<1>1. g \in files /\ f \notin files /\ g # f BY DEF Rewrite, DataFiles, Fresh
<1>2. head + 1 \in Snapshots /\ 0 \in Snapshots BY NextSnapshot, ScanAssumption DEF Rewrite, Snapshots
<1>3. file[g] \in FileRecord BY DEF TypeOK
<1>4. rows \in SUBSET Rows /\ layout \in AnyLayout BY <1>3 DEF FileRecord, Rewritten, AnyLayout
<1>5. /\ ended \in FileRecord /\ ended.end = head + 1 /\ ended.rows = file[g].rows /\ ended.begin = file[g].begin
      /\ ended.partialMax = file[g].partialMax /\ ended.layout = file[g].layout
      /\ ended.deletes = file[g].deletes /\ ended.deletesFrom = file[g].deletesFrom
  BY <1>2, <1>3 DEF FileRecord
<1> HIDE DEF rows, layout
<1>6. /\ left \in FileRecord /\ left.rows = rows /\ left.begin = head + 1 /\ left.end = 0
      /\ left.partialMax = 0 /\ left.deletes = {} /\ left.deletesFrom = 0 /\ left.layout = layout
  BY <1>2, <1>4 DEF NoFile, FileRecord
<1>7. file' = [file EXCEPT ![g].end = head + 1, ![f] = left] /\ files' = files \cup {f}
  BY DEF Rewrite, rows, layout
<1>8. /\ file' \in [Files -> FileRecord] /\ file'[f] = left /\ file'[g] = ended
      /\ \A h \in Files \ {f, g} : file'[h] = file[h]
  <2> HIDE DEF left
  <2>1. file' = [[file EXCEPT ![g] = ended] EXCEPT ![f] = left] BY <1>7
  <2>2. file \in [Files -> FileRecord] BY DEF TypeOK
  <2> HIDE DEF ended
  <2> QED BY <1>1, <1>5, <1>6, <2>1, <2>2
<1> HIDE DEF left, ended
<1>9. NewFile(f, rows, layout) BY <1>1, <1>6, <1>7, <1>8 DEF NewFile
<1>10. SameDeletes(g) BY <1>5, <1>8 DEF SameDeletes
<1> QED BY <1>1, <1>5, <1>6, <1>8, <1>9, <1>10 DEF rows, layout

-----------------------------------------------------------------------------
(* THE CATALOG STAYS IN ORDER                                              *)
LEMMA Numbers ==
  ASSUME TypeOK
  PROVE  /\ head \in Nat /\ files \subseteq Files
         /\ \A r \in Rows : born[r] \in Nat /\ gone[r] \in Nat
         /\ \A f \in Files :
              /\ file[f].begin \in Nat /\ file[f].end \in Nat /\ file[f].partialMax \in Nat
              /\ file[f].deletesFrom \in Nat /\ Newest(f) \in Nat
              /\ file[f].rows \subseteq Rows /\ file[f].deletes \subseteq Rows
BY ScanAssumption DEF TypeOK, FileRecord, Newest, Snapshots

LEMMA Unchanged == ASSUME NEW g, file'[g] = file[g] PROVE SameFile(g) /\ SameDeletes(g)
BY DEF SameFile, SameDeletes

LEMMA SameNewest == ASSUME NEW g, SameFile(g) PROVE Newest(g)' = Newest(g)
BY DEF SameFile, Newest

(* What holds of the latest snapshot holds of the next one, as far as the  *)
(* commit leaves rows and files alone.                                     *)
LEMMA SomePlaceNext ==
  ASSUME TypeOK, Catalog, NEW s \in 0..(head + 1), NEW r \in Rows, VisibleAt(r, s)
  PROVE  r \in inlined \/ \E f \in DataFiles(s) : r \in file[f].rows
<1>1. CASE s \in 0..head BY <1>1 DEF Catalog, SomePlace
<1>2. CASE s = head + 1
  <2>1. VisibleAt(r, head) BY <1>2, Numbers DEF VisibleAt, Catalog, Bounded
  <2>2. r \in inlined \/ \E f \in DataFiles(head) : r \in file[f].rows BY <2>1, Numbers DEF Catalog, SomePlace
  <2>3. DataFiles(head) \subseteq DataFiles(s) BY <1>2, Numbers DEF DataFiles, Catalog, Bounded
  <2> QED BY <2>2, <2>3
<1> QED BY <1>1, <1>2, Numbers

LEMMA LatestFiles ==
  ASSUME TypeOK, Catalog
  PROVE  DataFiles(head) = {f \in files : file[f].end = 0}
BY Numbers DEF DataFiles, Catalog, Bounded

LEMMA UnbornNowhere ==
  ASSUME TypeOK, Catalog, NEW r \in Unborn
  PROVE  gone[r] = 0 /\ r \notin inlined /\ \A f \in files : r \notin file[f].rows
BY Numbers DEF Unborn, Catalog, Bounded, Tagged, OnePlace

LEMMA InsertFileCatalog ==
  ASSUME TypeOK, TypeOK', Catalog,
         NEW R \in SUBSET Unborn, NEW f \in Files, NEW layout \in Layouts, InsertFile(R, f, layout)
  PROVE  Catalog'
<1>1. /\ NewFile(f, R, layout) /\ file'[f].begin = head + 1 /\ file'[f].partialMax = 0
      /\ file'[f].deletes = {} /\ file'[f].deletesFrom = 0
      /\ \A g \in Files : g # f => file'[g] = file[g]
  BY InsertFileEffect
<1>2. /\ head' = head + 1 /\ born' = [r \in Rows |-> IF r \in R THEN head + 1 ELSE born[r]]
      /\ gone' = gone /\ inlined' = inlined /\ tombs' = tombs
  BY DEF InsertFile, Commit, Born
<1>3. files' = files \cup {f} /\ f \notin files /\ file'[f].rows = R /\ file'[f].end = 0 /\ file'[f].layout = layout
  BY <1>1 DEF NewFile
<1>4. \A g \in files : g \in Files /\ file'[g] = file[g] /\ Newest(g)' = Newest(g)
  BY <1>1, <1>3, Numbers DEF Newest
<1>5. R \subseteq Rows /\ \A r \in R : born[r] = 0 /\ gone[r] = 0 /\ r \notin inlined /\ \A g \in files : r \notin file[g].rows
  BY UnbornNowhere DEF Unborn
<1>6. Newest(f)' = head + 1 BY <1>1 DEF Newest
<1>7. Bounded'
  BY <1>1, <1>2, <1>3, <1>4, <1>5, <1>6, Numbers DEF Catalog, Bounded
<1>8. Tagged'
  BY <1>1, <1>2, <1>3, <1>4, <1>5, <1>6, Numbers DEF Catalog, Tagged
<1>9. DeadNamed'
  BY <1>1, <1>2, <1>3, <1>4, <1>5, <1>6, Numbers DEF Catalog, DeadNamed
<1>10. LivingSpared'
  BY <1>1, <1>2, <1>3, <1>4, <1>5, <1>6, Numbers DEF Catalog, LivingSpared
<1>11. OnePlace'
  <2>1. \A g, h \in files : EndsBefore(g, h)' <=> EndsBefore(g, h) BY <1>4 DEF EndsBefore
  <2>2. \A g \in files : file'[f].rows \cap file'[g].rows = {} BY <1>3, <1>4, <1>5
  <2>3. \A g, h \in files' : g # h /\ file'[g].rows \cap file'[h].rows # {} => g \in files /\ h \in files
    BY <1>3, <2>2
  <2>4. \A g, h \in files' : g # h /\ file'[g].rows \cap file'[h].rows # {} => EndsBefore(g, h)' \/ EndsBefore(h, g)'
    BY <1>4, <2>1, <2>3 DEF Catalog, OnePlace
  <2>5. \A r \in inlined : r \in Rows /\ born'[r] # 0 BY <1>2, <1>5 DEF TypeOK, Catalog, OnePlace
  <2>6. \A r \in inlined, g \in files' : r \notin file'[g].rows
    BY <1>3, <1>4, <1>5 DEF Catalog, OnePlace
  <2> QED BY <1>2, <2>4, <2>5, <2>6 DEF OnePlace
<1>12. SomePlace'
  <2> SUFFICES ASSUME NEW s \in 0..(head + 1), NEW r \in Rows, VisibleAt(r, s)'
               PROVE  r \in inlined \/ \E g \in DataFiles(s)' : r \in file'[g].rows
    BY <1>2 DEF SomePlace
  <2>1. CASE r \in R
    <3>1. s = head + 1 BY <1>2, <2>1, Numbers DEF VisibleAt
    <3>2. f \in DataFiles(s)' BY <1>1, <1>3, <3>1, Numbers DEF DataFiles
    <3> QED BY <1>3, <2>1, <3>2
  <2>2. CASE r \notin R
    <3>1. VisibleAt(r, s) BY <1>2, <2>2 DEF VisibleAt
    <3>2. r \in inlined \/ \E g \in DataFiles(s) : r \in file[g].rows BY <3>1, SomePlaceNext
    <3>3. \A g \in DataFiles(s) : g \in DataFiles(s)' /\ file'[g].rows = file[g].rows
      BY <1>3, <1>4 DEF DataFiles
    <3> QED BY <3>2, <3>3
  <2> QED BY <2>1, <2>2
<1> QED BY <1>7, <1>8, <1>9, <1>10, <1>11, <1>12 DEF Catalog

LEMMA InsertInlinedCatalog ==
  ASSUME TypeOK, TypeOK', Catalog, NEW R \in SUBSET Unborn, InsertInlined(R)
  PROVE  Catalog'
<1>1. /\ head' = head + 1 /\ born' = [r \in Rows |-> IF r \in R THEN head + 1 ELSE born[r]]
      /\ gone' = gone /\ file' = file /\ files' = files /\ inlined' = inlined \cup R /\ tombs' = tombs
  BY DEF InsertInlined, Commit, Born
<1>2. R \subseteq Rows /\ \A r \in R : born[r] = 0 /\ gone[r] = 0 /\ r \notin inlined /\ \A g \in files : r \notin file[g].rows
  BY UnbornNowhere DEF Unborn
<1>3. \A g \in files : g \in Files /\ Newest(g)' = Newest(g) BY <1>1, Numbers DEF Newest
<1>4. Bounded' BY <1>1, <1>2, <1>3, Numbers DEF Catalog, Bounded
<1>5. Tagged' BY <1>1, <1>2, <1>3, Numbers DEF Catalog, Tagged
<1>6. DeadNamed' BY <1>1 DEF Catalog, DeadNamed
<1>7. LivingSpared' BY <1>1, <1>2 DEF Catalog, LivingSpared
<1>8. OnePlace' 
  <2>1. \A r \in inlined : r \in Rows BY DEF TypeOK
  <2> QED BY <1>1, <1>2, <1>3, <2>1, Numbers DEF Catalog, OnePlace, EndsBefore
<1>9. SomePlace'
  <2> SUFFICES ASSUME NEW s \in 0..(head + 1), NEW r \in Rows, VisibleAt(r, s)'
               PROVE  r \in inlined' \/ \E g \in DataFiles(s)' : r \in file'[g].rows
    BY <1>1 DEF SomePlace
  <2>1. CASE r \in R BY <1>1, <2>1
  <2>2. CASE r \notin R
    <3>1. VisibleAt(r, s) BY <1>1, <2>2 DEF VisibleAt
    <3>2. r \in inlined \/ \E g \in DataFiles(s) : r \in file[g].rows BY <3>1, SomePlaceNext
    <3>3. DataFiles(s)' = DataFiles(s) BY <1>1 DEF DataFiles
    <3> QED BY <1>1, <3>2, <3>3
  <2> QED BY <2>1, <2>2
<1> QED BY <1>4, <1>5, <1>6, <1>7, <1>8, <1>9 DEF Catalog

LEMMA DeleteRowsCatalog ==
  ASSUME TypeOK, TypeOK', Catalog, NEW D \in SUBSET Rows, DeleteRows(D)
  PROVE  Catalog'
<1> DEFINE hit(g) == IF g \in DataFiles(head) THEN file[g].rows \cap (D \ inlined) ELSE {}
<1>1. /\ head' = head + 1 /\ gone' = [r \in Rows |-> IF r \in D THEN head + 1 ELSE gone[r]]
      /\ born' = born /\ files' = files /\ inlined' = inlined /\ tombs' = tombs
  BY DEF DeleteRows, Commit, Gone
<1>2. \A g \in files : g \in Files /\ SameFile(g) /\ Newest(g)' = Newest(g)
  BY DeleteRowsEffect, SameNewest, Numbers
<1>3. \A g \in files : /\ file'[g].deletes = file[g].deletes \cup hit(g)
                       /\ file'[g].deletesFrom = IF hit(g) # {} /\ file[g].deletesFrom = 0 THEN head + 1
                                                 ELSE file[g].deletesFrom
  BY DeleteRowsEffect, Numbers
<1>4. \A r \in D : r \in Rows /\ gone[r] = 0 /\ born[r] \in 1..head
  BY Numbers DEF DeleteRows, RowsAt, VisibleAt, Catalog, Bounded
<1>5. \A g \in files : g \in DataFiles(head) <=> file[g].end = 0 BY LatestFiles
<1>6. \A g \in files : hit(g) \subseteq D OBVIOUS
<1>7. \A r \in Rows : gone[r] # 0 => gone'[r] = gone[r] BY <1>1, <1>4
<1>8. \A r \in Rows : gone'[r] # 0 /\ gone[r] = 0 => r \in D /\ gone'[r] = head + 1 BY <1>1
<1>9. Bounded'
  <2>1. \A r \in Rows : born'[r] <= head' /\ gone'[r] <= head' /\ (gone'[r] # 0 => born'[r] \in 1..(gone'[r] - 1))
    BY <1>1, <1>4, Numbers DEF Catalog, Bounded
  <2>2. \A g \in files : file'[g].deletesFrom <= head' BY <1>1, <1>3, Numbers DEF Catalog, Bounded
  <2>3. \A g \in files : /\ file'[g].begin \in 1..head' /\ file'[g].begin <= Newest(g)'
                         /\ file'[g].end <= head' /\ file'[g].partialMax <= head'
                         /\ file'[g].layout \in Layouts \cup {"native"}
    BY <1>1, <1>2, Numbers DEF Catalog, Bounded, SameFile
  <2> QED BY <1>1, <2>1, <2>2, <2>3 DEF Bounded
<1>10. Tagged' BY <1>1, <1>2 DEF Catalog, Tagged, SameFile
<1>11. DeadNamed'
  <2> SUFFICES ASSUME NEW g \in files, NEW r \in file[g].rows, gone'[r] # 0
               PROVE  \/ r \in tombs
                      \/ r \in file'[g].deletes /\ file'[g].deletesFrom \in 1..gone'[r]
                      \/ file'[g].end \in 1..gone'[r]
    BY <1>1, <1>2 DEF DeadNamed, SameFile
  <2>1. r \in Rows BY <1>2, Numbers
  <2>2. CASE gone[r] # 0
    <3>1. \/ r \in tombs
          \/ r \in file[g].deletes /\ file[g].deletesFrom \in 1..gone[r]
          \/ file[g].end \in 1..gone[r]
      BY <2>2 DEF Catalog, DeadNamed
    <3>2. file[g].deletesFrom # 0 => file'[g].deletesFrom = file[g].deletesFrom BY <1>3
    <3>3. gone'[r] = gone[r] /\ file'[g].end = file[g].end /\ file[g].deletes \subseteq file'[g].deletes
      BY <1>2, <1>3, <1>7, <2>1, <2>2 DEF SameFile
    <3>4. file[g].deletesFrom \in 1..gone[r] => file[g].deletesFrom # 0 BY Numbers, <1>2, <2>1
    <3> QED BY <3>1, <3>2, <3>3, <3>4
  <2>3. CASE gone[r] = 0
    <3>1. r \in D /\ gone'[r] = head + 1 /\ r \notin inlined BY <1>8, <2>1, <2>3 DEF Catalog, OnePlace
    <3>2. CASE file[g].end = 0
      <4>1. r \in hit(g) BY <1>5, <3>1, <3>2
      <4>2. file'[g].deletesFrom \in 1..(head + 1) BY <1>2, <1>3, <4>1, Numbers DEF Catalog, Bounded
      <4> QED BY <1>3, <3>1, <4>1, <4>2
    <3>3. CASE file[g].end # 0
      <4>1. file'[g].end \in 1..(head + 1) BY <1>2, <3>3, Numbers DEF Catalog, Bounded, SameFile
      <4> QED BY <3>1, <4>1
    <3> QED BY <3>2, <3>3
  <2> QED BY <2>2, <2>3
<1>12. LivingSpared'
  <2>1. \A r \in D : gone'[r] # 0 BY <1>1, <1>4, Numbers
  <2>2. \A g \in files : \A r \in file[g].deletes : gone'[r] # 0
    BY <1>2, <1>7, Numbers DEF Catalog, LivingSpared
  <2>3. \A r \in tombs : gone'[r] # 0 /\ r \notin inlined BY <1>7 DEF Catalog, LivingSpared, TypeOK
  <2>4. \A g \in files : \A r \in file'[g].deletes : gone'[r] # 0 BY <1>3, <1>6, <2>1, <2>2
  <2> QED BY <1>1, <2>3, <2>4 DEF LivingSpared
<1>13. OnePlace'
  <2>1. \A g, h \in files : EndsBefore(g, h)' <=> EndsBefore(g, h) BY <1>2 DEF EndsBefore, SameFile
  <2> QED BY <1>1, <1>2, <2>1 DEF Catalog, OnePlace, SameFile
<1>14. SomePlace'
  <2> SUFFICES ASSUME NEW s \in 0..(head + 1), NEW r \in Rows, VisibleAt(r, s)'
               PROVE  r \in inlined \/ \E g \in DataFiles(s)' : r \in file'[g].rows
    BY <1>1 DEF SomePlace
  <2>1. VisibleAt(r, s) BY <1>1, <1>4 DEF VisibleAt
  <2>2. r \in inlined \/ \E g \in DataFiles(s) : r \in file[g].rows BY <2>1, SomePlaceNext
  <2>3. \A g \in DataFiles(s) : g \in DataFiles(s)' /\ file'[g].rows = file[g].rows
    BY <1>1, <1>2 DEF DataFiles, SameFile
  <2> QED BY <2>2, <2>3
<1> QED BY <1>9, <1>10, <1>11, <1>12, <1>13, <1>14 DEF Catalog

LEMMA DeleteInlinedCatalog ==
  ASSUME TypeOK, TypeOK', Catalog, NEW x \in Rows, DeleteInlined(x)
  PROVE  Catalog'
<1>1. /\ head' = head + 1 /\ gone' = [r \in Rows |-> IF r = x THEN head + 1 ELSE gone[r]]
      /\ born' = born /\ files' = files /\ inlined' = inlined /\ file' = file /\ tombs' = tombs \cup {x}
  BY DEF DeleteInlined, Commit, Gone
<1>2. gone[x] = 0 /\ born[x] \in 1..head /\ x \notin inlined
  BY Numbers DEF DeleteInlined, RowsAt, VisibleAt, Catalog, Bounded
<1>3. \A g : Newest(g)' = Newest(g) BY <1>1 DEF Newest
<1>4. \A r \in Rows : r # x => gone'[r] = gone[r] BY <1>1
<1>5. gone'[x] = head + 1 BY <1>1
<1>6. \A g \in files : file[g].rows \subseteq Rows /\ file[g].deletes \subseteq Rows BY Numbers
<1>7. Bounded' BY <1>1, <1>2, <1>3, Numbers DEF Catalog, Bounded
<1>8. Tagged' BY <1>1, <1>3 DEF Catalog, Tagged
<1>9. DeadNamed' BY <1>1, <1>4, <1>6 DEF Catalog, DeadNamed
<1>10. LivingSpared'
  <2>1. \A g \in files : \A r \in file[g].deletes : r \in Rows /\ gone[r] # 0 /\ r # x
    BY <1>2, <1>6 DEF Catalog, LivingSpared
  <2>2. \A r \in tombs : r \in Rows /\ gone[r] # 0 /\ r # x /\ r \notin inlined
    BY <1>2 DEF Catalog, LivingSpared, TypeOK
  <2>3. gone'[x] # 0 BY <1>5, Numbers
  <2> QED BY <1>1, <1>2, <1>4, <2>1, <2>2, <2>3 DEF LivingSpared
<1>11. OnePlace' BY <1>1, <1>3 DEF Catalog, OnePlace, EndsBefore
<1>12. SomePlace'
  <2> SUFFICES ASSUME NEW s \in 0..(head + 1), NEW r \in Rows, VisibleAt(r, s)'
               PROVE  r \in inlined \/ \E g \in DataFiles(s)' : r \in file'[g].rows
    BY <1>1 DEF SomePlace
  <2>1. VisibleAt(r, s) BY <1>1, <1>2 DEF VisibleAt
  <2>2. r \in inlined \/ \E g \in DataFiles(s) : r \in file[g].rows BY <2>1, SomePlaceNext
  <2>3. DataFiles(s)' = DataFiles(s) BY <1>1 DEF DataFiles
  <2> QED BY <1>1, <2>2, <2>3
<1> QED BY <1>7, <1>8, <1>9, <1>10, <1>11, <1>12 DEF Catalog

LEMMA FlushCatalog ==
  ASSUME TypeOK, TypeOK', Catalog, NEW f \in Files, Flush(f)
  PROVE  Catalog'
<1> DEFINE births == {born[r] : r \in inlined}
           dead == {r \in inlined : gone[r] # 0}
<1>1. /\ head' = head + 1 /\ gone' = gone /\ born' = born /\ inlined' = {} /\ tombs' = {}
      /\ f \notin files
  BY DEF Flush, Commit, Fresh
<1>2. \A g \in files : /\ SameFile(g) /\ Newest(g)' = Newest(g) /\ file'[g].deletes = file[g].deletes \cup Hit(g)
                       /\ IF Hit(g) = {} THEN file'[g].deletesFrom = file[g].deletesFrom
                          ELSE /\ file'[g].deletesFrom # 0
                               /\ file[g].deletesFrom # 0 => file'[g].deletesFrom <= file[g].deletesFrom
                               /\ \A r \in Hit(g) : file'[g].deletesFrom <= gone[r]
  <2>1. \A g \in files : g \in Files /\ g # f BY <1>1, Numbers
  <2> QED BY <2>1, FlushEffect, SameNewest
<1>3. \A g \in files : g \in Files /\ Hit(g) = file[g].rows \cap tombs /\ Hit(g) \subseteq Rows
  BY Numbers DEF Hit
<1>4. \A r \in inlined \cup tombs : r \in Rows BY DEF TypeOK
<1>5. \A r \in inlined : born[r] \in 1..head BY <1>4, Numbers DEF Catalog, OnePlace, Bounded
<1>6. /\ inlined = {} => files' = files
      /\ inlined # {} => 
           /\ files' = files \cup {f} /\ file'[f].rows = inlined /\ file'[f].end = 0 /\ file'[f].layout = "native"
           /\ file'[f].begin = Min(births) /\ file'[f].partialMax = PartialMax(births)
           /\ file'[f].deletes = dead /\ file'[f].deletesFrom = FromOf(dead)
  BY FlushEffect DEF NewFile
<1>7. ASSUME inlined # {}
      PROVE  /\ file'[f].begin \in 1..head /\ \A r \in inlined : file'[f].begin <= born[r]
             /\ file'[f].partialMax \in 0..head /\ file'[f].begin <= Newest(f)'
             /\ \A r \in inlined : born[r] \in 1..Newest(f)'
             /\ file'[f].deletesFrom \in 0..head
             /\ \A r \in dead : file'[f].deletesFrom \in 1..gone[r]
  <2>1. births \in SUBSET (1..head) /\ births # {} BY <1>5, <1>7
  <2>2. \A r \in inlined : born[r] \in births OBVIOUS
  <2>3. head \in Nat BY Numbers
  <2> HIDE DEF births
  <2> DEFINE least == Min(births)
             newest == PartialMax(births)
  <2>4. least \in births /\ \A b \in births : least <= b BY <2>1, <2>3, MinIs
  <2>5. newest \in 0..head /\ \A b \in births : b <= IF newest = 0 THEN least ELSE newest
    <3> HIDE DEF least
    <3> QED BY <2>1, <2>3, <2>4, PartialMaxIs
  <2>6. least \in 1..head BY <2>1, <2>4
  <2>7. file'[f].begin = least /\ file'[f].partialMax = newest BY <1>6, <1>7
  <2> HIDE DEF least, newest
  <2>8. Newest(f)' = IF newest = 0 THEN least ELSE newest BY <2>7 DEF Newest
  <2>9. dead \in SUBSET Rows /\ \A r \in dead : gone[r] # 0 BY <1>4
  <2>10. FromOf(dead) \in Snapshots /\ (dead # {} => FromOf(dead) # 0 /\ \A r \in dead : FromOf(dead) <= gone[r])
    <3> HIDE DEF dead
    <3> QED BY <2>9, FromIs
  <2>11. dead = {} => FromOf(dead) = 0 BY DEF FromOf
  <2>12. file'[f].deletesFrom = FromOf(dead) BY <1>6, <1>7
  <2>13. \A r \in dead : gone[r] \in Nat /\ gone[r] <= head BY <2>9, Numbers DEF Catalog, Bounded
  <2> HIDE DEF dead
  <2>14. \A b \in births : b \in 1..Newest(f)'
    BY <2>1, <2>5, <2>6, <2>8
  <2>15. file'[f].deletesFrom \in Nat BY <2>10, <2>12, ScanAssumption DEF Snapshots
  <2>16. \A r \in dead : file'[f].deletesFrom \in 1..gone[r] BY <2>10, <2>12, <2>13, <2>15
  <2>17. file'[f].deletesFrom \in 0..head
    <3>1. CASE dead = {} BY <2>3, <2>11, <2>12, <3>1
    <3>2. CASE dead # {} BY <2>3, <2>13, <2>16, <3>2
    <3> QED BY <3>1, <3>2
  <2> QED BY <2>2, <2>4, <2>5, <2>6, <2>7, <2>8, <2>14, <2>16, <2>17
<1> HIDE DEF births
<1>8. \A g \in files' : g \in files \/ (g = f /\ inlined # {}) BY <1>6
<1>9. \A g \in files : g \in files' /\ g # f BY <1>1, <1>6
<1>10. Bounded'
  <2>1. \A r \in Rows : born'[r] <= head' /\ gone'[r] <= head' /\ (gone'[r] # 0 => born'[r] \in 1..(gone'[r] - 1))
    BY <1>1, Numbers DEF Catalog, Bounded
  <2>2. \A g \in files : file'[g].deletesFrom <= head'
    <3> TAKE g \in files
    <3>1. CASE Hit(g) = {} BY <1>1, <1>2, <1>3, <3>1, Numbers DEF Catalog, Bounded
    <3>2. CASE Hit(g) # {}
      <4>1. PICK r \in Hit(g) : TRUE BY <3>2
      <4>2. file'[g].deletesFrom <= gone[r] /\ r \in Rows BY <1>2, <1>3, <4>1
      <4>3. file'[g].deletesFrom \in Nat BY <1>3 DEF TypeOK, FileRecord, Snapshots
      <4> QED BY <1>1, <4>2, <4>3, Numbers DEF Catalog, Bounded
    <3> QED BY <3>1, <3>2
  <2>3. \A g \in files : /\ file'[g].begin \in 1..head' /\ file'[g].begin <= Newest(g)'
                         /\ file'[g].end <= head' /\ file'[g].partialMax <= head'
                         /\ file'[g].layout \in Layouts \cup {"native"}
    BY <1>1, <1>2, <1>3, Numbers DEF Catalog, Bounded, SameFile
  <2>4. inlined # {} => /\ file'[f].begin \in 1..head' /\ file'[f].begin <= Newest(f)'
                        /\ file'[f].end <= head' /\ file'[f].partialMax <= head' /\ file'[f].deletesFrom <= head'
                        /\ file'[f].layout \in Layouts \cup {"native"}
    BY <1>1, <1>6, <1>7, Numbers
  <2> QED BY <1>8, <2>1, <2>2, <2>3, <2>4 DEF Bounded
<1>11. Tagged'
  <2>1. \A g \in files : \A r \in file'[g].rows : born'[r] \in 1..Newest(g)'
    BY <1>1, <1>2 DEF Catalog, Tagged, SameFile
  <2>2. inlined # {} => \A r \in file'[f].rows : born'[r] \in 1..Newest(f)' BY <1>1, <1>6, <1>7
  <2> QED BY <1>8, <2>1, <2>2 DEF Tagged
<1>12. DeadNamed'
  <2> SUFFICES ASSUME NEW g \in files', NEW r \in file'[g].rows, gone[r] # 0
               PROVE  \/ r \in file'[g].deletes /\ file'[g].deletesFrom \in 1..gone[r]
                      \/ file'[g].end \in 1..gone[r]
    BY <1>1 DEF DeadNamed
  <2>1. CASE g \in files
    <3>1. r \in file[g].rows /\ r \in Rows /\ g \in Files BY <1>2, <1>3, <2>1, Numbers DEF SameFile
    <3>2. file'[g].deletesFrom \in Nat /\ gone[r] \in Nat
      BY <3>1, Numbers, ScanAssumption DEF TypeOK, FileRecord, Snapshots
    <3>3. CASE r \in Hit(g) BY <1>2, <2>1, <3>2, <3>3
    <3>4. CASE r \in file[g].deletes /\ file[g].deletesFrom \in 1..gone[r]
      BY <1>2, <2>1, <3>1, <3>2, <3>4, Numbers
    <3>5. CASE file[g].end \in 1..gone[r] BY <1>2, <2>1, <3>5 DEF SameFile
    <3>6. \/ r \in tombs
          \/ r \in file[g].deletes /\ file[g].deletesFrom \in 1..gone[r]
          \/ file[g].end \in 1..gone[r]
      BY <2>1, <3>1 DEF Catalog, DeadNamed
    <3> QED BY <1>3, <2>1, <3>1, <3>3, <3>4, <3>5, <3>6
  <2>2. CASE g \notin files
    <3>1. g = f /\ inlined # {} BY <1>8, <2>2
    <3>2. r \in dead BY <1>6, <3>1
    <3> QED BY <1>6, <1>7, <3>1, <3>2
  <2> QED BY <2>1, <2>2
<1>13. LivingSpared'
  <2>1. \A g \in files : \A r \in file'[g].deletes : gone[r] # 0
    BY <1>2, <1>3 DEF Catalog, LivingSpared
  <2>2. inlined # {} => \A r \in file'[f].deletes : gone[r] # 0 BY <1>6
  <2> QED BY <1>1, <1>8, <2>1, <2>2 DEF LivingSpared
<1>14. OnePlace'
  <2>1. \A g, h \in files : EndsBefore(g, h)' <=> EndsBefore(g, h) BY <1>2 DEF EndsBefore, SameFile
  <2>2. \A g \in files : inlined # {} => file'[f].rows \cap file'[g].rows = {}
    BY <1>2, <1>6 DEF Catalog, OnePlace, SameFile
  <2>3. \A g, h \in files' : g # h /\ file'[g].rows \cap file'[h].rows # {} => g \in files /\ h \in files
    BY <1>8, <2>2
  <2>4. \A g, h \in files' : g # h /\ file'[g].rows \cap file'[h].rows # {} => EndsBefore(g, h)' \/ EndsBefore(h, g)'
    BY <1>2, <2>1, <2>3 DEF Catalog, OnePlace, SameFile
  <2> QED BY <1>1, <2>4 DEF OnePlace
<1>15. SomePlace'
  <2> SUFFICES ASSUME NEW s \in 0..(head + 1), NEW r \in Rows, VisibleAt(r, s)'
               PROVE  \E g \in DataFiles(s)' : r \in file'[g].rows
    BY <1>1 DEF SomePlace
  <2>1. VisibleAt(r, s) BY <1>1 DEF VisibleAt
  <2>2. r \in inlined \/ \E g \in DataFiles(s) : r \in file[g].rows BY <2>1, SomePlaceNext
  <2>3. \A g \in DataFiles(s) : g \in DataFiles(s)' /\ file'[g].rows = file[g].rows
    BY <1>2, <1>9 DEF DataFiles, SameFile
  <2>4. CASE r \in inlined
    <3>1. f \in files' /\ file'[f].begin <= born[r] /\ file'[f].end = 0 /\ file'[f].begin \in 1..head
      BY <1>6, <1>7, <2>4
    <3>2. born[r] <= s /\ born[r] \in Nat BY <2>1, Numbers DEF VisibleAt
    <3>3. f \in DataFiles(s)' BY <3>1, <3>2, Numbers DEF DataFiles
    <3> QED BY <1>6, <2>4, <3>3
  <2> QED BY <2>2, <2>3, <2>4
<1> QED BY <1>10, <1>11, <1>12, <1>13, <1>14, <1>15 DEF Catalog

LEMMA CompactCatalog ==
  ASSUME TypeOK, TypeOK', Catalog, NEW F \in SUBSET files, NEW f \in Files, Compact(F, f)
  PROVE  Catalog'
<1>1. /\ head' = head + 1 /\ gone' = gone /\ born' = born /\ inlined' = inlined /\ tombs' = tombs
      /\ f \notin files /\ files' = (files \ F) \cup {f} /\ F # {}
  BY CompactEffect DEF Compact, Commit
<1>2. /\ file'[f].rows = UNION {file[g].rows : g \in F} /\ file'[f].end = 0
      /\ file'[f].deletes = {} /\ file'[f].deletesFrom = 0
      /\ \E g \in F : file'[f].layout = Rewritten(g)
      /\ file'[f].begin \in 1..head /\ \A g \in F : file'[f].begin <= file[g].begin
      /\ file'[f].partialMax \in 0..head /\ file'[f].begin <= Newest(f)'
      /\ \A g \in F : Newest(g) <= Newest(f)'
  <2>1. /\ file'[f].rows = UNION {file[g].rows : g \in F} /\ file'[f].end = 0
        /\ file'[f].deletes = {} /\ file'[f].deletesFrom = 0
        /\ file'[f].begin \in 1..head /\ file'[f].partialMax \in 0..head /\ file'[f].begin <= Newest(f)'
    BY CompactEffect
  <2>2. \E g \in F : file'[f].layout = Rewritten(g)
    <3>1. file'[f].layout \in {Rewritten(g) : g \in F} BY CompactEffect
    <3> QED BY <3>1
  <2>3. \A g \in F : file'[f].begin <= file[g].begin BY CompactEffect
  <2>4. \A g \in F : Newest(g) <= Newest(f)' BY CompactEffect
  <2> QED BY <2>1, <2>2, <2>3, <2>4
<1>3. \A g \in files : g \in Files /\ g # f /\ file'[g] = file[g] /\ Newest(g)' = Newest(g)
  <2>1. \A g \in files : g \in Files /\ g # f BY <1>1, Numbers
  <2> QED BY <2>1, CompactEffect DEF Newest
<1>4. \A g \in F : file[g].deletesFrom = 0 /\ file[g].end = 0 /\ file[g].rows \cap tombs = {} BY DEF Compact
<1>5. Newest(f)' \in Nat BY <1>2, Numbers DEF Newest
<1>6. \A g \in F : \A r \in file[g].rows : r \in Rows /\ gone[r] = 0 /\ born[r] \in 1..Newest(f)'
  <2> TAKE g \in F
  <2> TAKE r \in file[g].rows
  <2>1. g \in files /\ g \in Files /\ r \in Rows BY <1>3, Numbers
  <2>2. gone[r] # 0 => \/ r \in tombs
                       \/ r \in file[g].deletes /\ file[g].deletesFrom \in 1..gone[r]
                       \/ file[g].end \in 1..gone[r]
    BY <2>1 DEF Catalog, DeadNamed
  <2>3. gone[r] = 0 BY <1>4, <2>1, <2>2, Numbers
  <2>4. born[r] \in 1..Newest(g) BY <2>1 DEF Catalog, Tagged
  <2> QED BY <1>2, <1>5, <2>1, <2>3, <2>4, Numbers
<1>7. \A g \in files' : g = f \/ (g \in files /\ g \notin F) BY <1>1
<1>8. Bounded'
  <2>1. \A r \in Rows : born'[r] <= head' /\ gone'[r] <= head' /\ (gone'[r] # 0 => born'[r] \in 1..(gone'[r] - 1))
    BY <1>1, Numbers DEF Catalog, Bounded
  <2>2. \A g \in files : /\ file'[g].begin \in 1..head' /\ file'[g].begin <= Newest(g)'
                         /\ file'[g].end <= head' /\ file'[g].partialMax <= head' /\ file'[g].deletesFrom <= head'
                         /\ file'[g].layout \in Layouts \cup {"native"}
    BY <1>1, <1>3, Numbers DEF Catalog, Bounded
  <2>3. file'[f].layout \in Layouts \cup {"native"}
    BY <1>2 DEF Rewritten, Catalog, Bounded
  <2>4. /\ file'[f].begin \in 1..head' /\ file'[f].begin <= Newest(f)'
        /\ file'[f].end <= head' /\ file'[f].partialMax <= head' /\ file'[f].deletesFrom <= head'
    BY <1>1, <1>2, Numbers
  <2> QED BY <1>7, <2>1, <2>2, <2>3, <2>4 DEF Bounded
<1>9. Tagged'
  <2>1. \A g \in files : \A r \in file'[g].rows : born'[r] \in 1..Newest(g)' BY <1>1, <1>3 DEF Catalog, Tagged
  <2>2. \A r \in file'[f].rows : born'[r] \in 1..Newest(f)' BY <1>1, <1>2, <1>6
  <2> QED BY <1>7, <2>1, <2>2 DEF Tagged
<1>10. DeadNamed'
  <2>1. \A r \in file'[f].rows : gone[r] = 0 BY <1>2, <1>6
  <2> QED BY <1>1, <1>3, <1>7, <2>1 DEF Catalog, DeadNamed
<1>11. LivingSpared' BY <1>1, <1>2, <1>3, <1>7 DEF Catalog, LivingSpared
<1>12. OnePlace'
  <2>1. \A g, h \in files : EndsBefore(g, h)' <=> EndsBefore(g, h) BY <1>3 DEF EndsBefore
  <2>2. ASSUME NEW g \in files, g \notin F, file'[g].rows \cap file'[f].rows # {}
        PROVE  EndsBefore(g, f)'
    <3>1. PICK h \in F : file[g].rows \cap file[h].rows # {} BY <1>2, <1>3, <2>2
    <3>2. EndsBefore(g, h) \/ EndsBefore(h, g) BY <2>2, <3>1 DEF Catalog, OnePlace
    <3>3. file[g].end \in 1..Newest(h) BY <1>4, <3>2, <3>1 DEF EndsBefore
    <3>4. Newest(h) <= Newest(f)' /\ Newest(h) \in Nat BY <1>2, <1>3, Numbers
    <3>5. file'[g].end \in 1..Newest(f)' BY <1>3, <1>5, <3>3, <3>4
    <3> QED BY <3>5 DEF EndsBefore
  <2>3. \A g, h \in files : g # h /\ file'[g].rows \cap file'[h].rows # {} => EndsBefore(g, h)' \/ EndsBefore(h, g)'
    BY <1>3, <2>1 DEF Catalog, OnePlace
  <2>4. \A r \in inlined : born[r] # 0 /\ \A g \in files : r \notin file[g].rows BY DEF Catalog, OnePlace
  <2>5. \A r \in inlined : \A g \in files' : r \notin file'[g].rows BY <1>2, <1>3, <1>7, <2>4
  <2>6. \A g, h \in files' : g # h /\ file'[g].rows \cap file'[h].rows # {} => EndsBefore(g, h)' \/ EndsBefore(h, g)'
    BY <1>7, <2>2, <2>3
  <2> QED BY <1>1, <2>4, <2>5, <2>6 DEF OnePlace
<1>13. SomePlace'
  <2> SUFFICES ASSUME NEW s \in 0..(head + 1), NEW r \in Rows, VisibleAt(r, s)'
               PROVE  r \in inlined \/ \E g \in DataFiles(s)' : r \in file'[g].rows
    BY <1>1 DEF SomePlace
  <2>1. VisibleAt(r, s) BY <1>1 DEF VisibleAt
  <2>2. CASE r \in inlined BY <2>2
  <2>3. CASE r \notin inlined
    <3>1. PICK g \in DataFiles(s) : r \in file[g].rows BY <2>1, <2>3, SomePlaceNext
    <3>2. g \in files /\ file[g].begin <= s /\ (file[g].end = 0 \/ s < file[g].end) BY <3>1 DEF DataFiles
    <3>3. CASE g \in F
      <4>1. f \in files' /\ file'[f].begin <= file[g].begin /\ file'[f].begin \in Nat BY <1>1, <1>2, <3>3, Numbers
      <4>2. file'[f].begin <= s BY <1>3, <3>2, <4>1, Numbers
      <4>3. f \in DataFiles(s)' BY <1>2, <4>1, <4>2 DEF DataFiles
      <4>4. r \in file'[f].rows BY <1>2, <3>1, <3>3
      <4> QED BY <4>3, <4>4
    <3>4. CASE g \notin F
      <4>1. g \in DataFiles(s)' BY <1>1, <1>3, <3>2, <3>4 DEF DataFiles
      <4> QED BY <1>3, <3>1, <3>2, <4>1
    <3> QED BY <3>3, <3>4
  <2> QED BY <2>2, <2>3
<1> QED BY <1>8, <1>9, <1>10, <1>11, <1>12, <1>13 DEF Catalog

LEMMA RewriteCatalog ==
  ASSUME TypeOK, TypeOK', Catalog, NEW g \in Files, NEW f \in Files, Rewrite(g, f)
  PROVE  Catalog'
<1>1. /\ head' = head + 1 /\ gone' = gone /\ born' = born /\ inlined' = inlined /\ tombs' = tombs
      /\ g \in files /\ file[g].end = 0 /\ file[g].rows \cap tombs = {}
  BY LatestFiles DEF Rewrite, Commit
<1>2. /\ f \notin files /\ files' = files \cup {f} /\ g # f
      /\ file'[f].rows = file[g].rows \ file[g].deletes /\ file'[f].end = 0 /\ file'[f].layout = Rewritten(g)
      /\ file'[f].begin = head + 1 /\ file'[f].partialMax = 0
      /\ file'[f].deletes = {} /\ file'[f].deletesFrom = 0
  BY RewriteEffect DEF NewFile
<1>3. \A h \in files : /\ h \in Files /\ h # f /\ Newest(h)' = Newest(h) /\ SameDeletes(h)
                       /\ file'[h].rows = file[h].rows /\ file'[h].begin = file[h].begin
                       /\ file'[h].partialMax = file[h].partialMax /\ file'[h].layout = file[h].layout
                       /\ file'[h].end = IF h = g THEN head + 1 ELSE file[h].end
  <2>1. \A h \in files : h \in Files /\ h # f BY <1>2, Numbers
  <2>2. \A h \in Files \ {f, g} : file'[h] = file[h] BY RewriteEffect
  <2>3. file'[g].end = head + 1 /\ file'[g].rows = file[g].rows /\ file'[g].begin = file[g].begin
        /\ file'[g].partialMax = file[g].partialMax /\ file'[g].layout = file[g].layout /\ SameDeletes(g)
    BY RewriteEffect
  <2> TAKE h \in files
  <2>4. CASE h = g BY <1>1, <2>1, <2>3, <2>4 DEF Newest
  <2>5. CASE h # g
    <3>1. file'[h] = file[h] BY <2>1, <2>2, <2>5
    <3> QED BY <2>1, <2>5, <3>1 DEF Newest, SameDeletes
  <2> QED BY <2>4, <2>5
<1>4. Newest(f)' = head + 1 BY <1>2 DEF Newest
<1>5. \A r \in file'[f].rows : r \in file[g].rows /\ r \in Rows /\ gone[r] = 0
  <2> TAKE r \in file'[f].rows
  <2>1. r \in file[g].rows /\ r \notin file[g].deletes /\ r \notin tombs /\ r \in Rows BY <1>1, <1>2, Numbers
  <2>2. gone[r] # 0 => file[g].end \in 1..gone[r] BY <1>1, <2>1 DEF Catalog, DeadNamed
  <2> QED BY <1>1, <2>1, <2>2, Numbers
<1>6. \A h \in files : Newest(h) \in 1..head
  BY <1>3, Numbers DEF Catalog, Bounded, Newest
<1>7. Bounded'
  <2>1. \A r \in Rows : born'[r] <= head' /\ gone'[r] <= head' /\ (gone'[r] # 0 => born'[r] \in 1..(gone'[r] - 1))
    BY <1>1, Numbers DEF Catalog, Bounded
  <2>2. \A h \in files : /\ file'[h].begin \in 1..head' /\ file'[h].begin <= Newest(h)'
                         /\ file'[h].end <= head' /\ file'[h].partialMax <= head' /\ file'[h].deletesFrom <= head'
                         /\ file'[h].layout \in Layouts \cup {"native"}
    BY <1>1, <1>3, Numbers DEF Catalog, Bounded, SameDeletes
  <2>3. file'[f].layout \in Layouts \cup {"native"} BY <1>1, <1>2 DEF Rewritten, Catalog, Bounded
  <2>4. /\ file'[f].begin \in 1..head' /\ file'[f].begin <= Newest(f)'
        /\ file'[f].end <= head' /\ file'[f].partialMax <= head' /\ file'[f].deletesFrom <= head'
    BY <1>1, <1>2, <1>4, Numbers
  <2> QED BY <1>2, <2>1, <2>2, <2>3, <2>4 DEF Bounded
<1>8. Tagged'
  <2>1. \A h \in files : \A r \in file'[h].rows : born'[r] \in 1..Newest(h)' BY <1>1, <1>3 DEF Catalog, Tagged
  <2>2. \A r \in file'[f].rows : born[r] \in 1..(head + 1)
    BY <1>1, <1>5, <1>6, Numbers DEF Catalog, Tagged
  <2> QED BY <1>1, <1>2, <1>4, <2>1, <2>2 DEF Tagged
<1>9. DeadNamed'
  <2> SUFFICES ASSUME NEW h \in files, NEW r \in file[h].rows, gone[r] # 0
               PROVE  \/ r \in tombs
                      \/ r \in file'[h].deletes /\ file'[h].deletesFrom \in 1..gone[r]
                      \/ file'[h].end \in 1..gone[r]
    BY <1>1, <1>2, <1>3, <1>5 DEF DeadNamed
  <2>1. \/ r \in tombs
        \/ r \in file[h].deletes /\ file[h].deletesFrom \in 1..gone[r]
        \/ file[h].end \in 1..gone[r]
    BY DEF Catalog, DeadNamed
  <2>2. h = g => ~(file[h].end \in 1..gone[r]) BY <1>1, <1>3, Numbers
  <2> QED BY <1>3, <2>1, <2>2 DEF SameDeletes
<1>10. LivingSpared' BY <1>1, <1>2, <1>3 DEF Catalog, LivingSpared, SameDeletes
<1>11. OnePlace'
  <2>1. \A h, k \in files : h # k /\ file'[h].rows \cap file'[k].rows # {} => EndsBefore(h, k)' \/ EndsBefore(k, h)'
    <3> SUFFICES ASSUME NEW h \in files, NEW k \in files, h # k, file[h].rows \cap file[k].rows # {}
                 PROVE  EndsBefore(h, k)' \/ EndsBefore(k, h)'
      BY <1>3
    <3>1. EndsBefore(h, k) \/ EndsBefore(k, h) BY DEF Catalog, OnePlace
    <3>2. \A a, b \in files : EndsBefore(a, b) => EndsBefore(a, b)'
      <4> TAKE a, b \in files
      <4>1. EndsBefore(a, b) => a # g BY <1>1, Numbers, <1>3 DEF EndsBefore
      <4> QED BY <1>3, <4>1 DEF EndsBefore
    <3> QED BY <3>1, <3>2
  <2>2. \A h \in files : file'[h].rows \cap file'[f].rows # {} => EndsBefore(h, f)'
    <3> SUFFICES ASSUME NEW h \in files, file'[h].rows \cap file'[f].rows # {}
                 PROVE  EndsBefore(h, f)'
      OBVIOUS
    <3>1. CASE h = g BY <1>3, <1>4, <3>1, Numbers DEF EndsBefore
    <3>2. CASE h # g
      <4>1. file[h].rows \cap file[g].rows # {} BY <1>3, <1>5
      <4>2. EndsBefore(h, g) \/ EndsBefore(g, h) BY <1>1, <3>2, <4>1 DEF Catalog, OnePlace
      <4>3. file[h].end \in 1..Newest(g) BY <1>1, <1>3, <4>2, Numbers DEF EndsBefore
      <4>4. file[h].end \in 1..(head + 1) BY <1>1, <1>6, <4>3, Numbers
      <4> QED BY <1>3, <1>4, <3>2, <4>4 DEF EndsBefore
    <3> QED BY <3>1, <3>2
  <2>3. \A r \in inlined : born[r] # 0 /\ \A h \in files : r \notin file[h].rows BY DEF Catalog, OnePlace
  <2>4. \A r \in inlined : \A h \in files' : r \notin file'[h].rows BY <1>1, <1>2, <1>3, <1>5, <2>3
  <2>5. \A h, k \in files' : h # k /\ file'[h].rows \cap file'[k].rows # {} => EndsBefore(h, k)' \/ EndsBefore(k, h)'
    BY <1>2, <2>1, <2>2
  <2> QED BY <1>1, <2>3, <2>4, <2>5 DEF OnePlace
<1>12. SomePlace'
  <2> SUFFICES ASSUME NEW s \in 0..(head + 1), NEW r \in Rows, VisibleAt(r, s)'
               PROVE  r \in inlined \/ \E h \in DataFiles(s)' : r \in file'[h].rows
    BY <1>1 DEF SomePlace
  <2>1. VisibleAt(r, s) BY <1>1 DEF VisibleAt
  <2>2. CASE r \in inlined BY <2>2
  <2>3. CASE r \notin inlined
    <3>1. PICK h \in DataFiles(s) : r \in file[h].rows BY <2>1, <2>3, SomePlaceNext
    <3>2. h \in files /\ file[h].begin <= s /\ (file[h].end = 0 \/ s < file[h].end) BY <3>1 DEF DataFiles
    <3>3. CASE h = g /\ s = head + 1
      <4>1. gone[r] = 0 BY <2>1, <3>3, Numbers DEF VisibleAt, Catalog, Bounded
      <4>2. r \notin file[g].deletes BY <1>1, <4>1 DEF Catalog, LivingSpared
      <4>3. r \in file'[f].rows BY <1>2, <3>1, <3>3, <4>2
      <4>4. f \in DataFiles(s)' BY <1>2, <3>3, Numbers DEF DataFiles
      <4> QED BY <4>3, <4>4
    <3>4. CASE ~(h = g /\ s = head + 1)
      <4>1. file'[h].end = 0 \/ s < file'[h].end BY <1>3, <3>2, <3>4, Numbers
      <4>2. h \in DataFiles(s)' BY <1>2, <1>3, <3>2, <4>1 DEF DataFiles
      <4> QED BY <1>3, <3>1, <3>2, <4>2
    <3> QED BY <3>3, <3>4
  <2> QED BY <2>2, <2>3
<1> QED BY <1>7, <1>8, <1>9, <1>10, <1>11, <1>12 DEF Catalog

-----------------------------------------------------------------------------
(* COMMITS, AS QUERIES SEE THEM                                            *)
(* No commit changes the rows of a snapshot, nor a file's layout.          *)
LEMMA EngineStep ==
  ASSUME TypeOK, Catalog, Engines
  PROVE  /\ TypeOK' /\ Catalog' /\ query' = query
         /\ head' = head + 1 /\ head \in Nat
         /\ \A s \in 0..head : RowsAt(s)' = RowsAt(s)
         /\ \A g \in Files : file[g].begin # 0 =>
              file'[g].begin = file[g].begin /\ file'[g].layout = file[g].layout
<1> DEFINE RowsStay == \A s \in 0..head : RowsAt(s)' = RowsAt(s)
           LayoutsStay == \A g \in Files : file[g].begin # 0 =>
                      file'[g].begin = file[g].begin /\ file'[g].layout = file[g].layout
           Goal == TypeOK' /\ Catalog' /\ query' = query /\ head' = head + 1 /\ RowsStay /\ LayoutsStay
<1>1. head \in Nat BY Numbers
<1>2. ASSUME born' = born, gone' = gone PROVE RowsStay BY <1>2 DEF RowsAt, VisibleAt
<1>3. ASSUME NEW D \in SUBSET Rows, born' = born, Gone(D), \A r \in D : gone[r] = 0 PROVE RowsStay
  <2>1. \A s \in 0..head, r \in Rows : VisibleAt(r, s)' <=> VisibleAt(r, s)
    BY <1>1, <1>3, Numbers DEF VisibleAt, Gone
  <2> QED BY <2>1 DEF RowsAt
<1>4. ASSUME NEW R \in SUBSET Unborn, Born(R), gone' = gone PROVE RowsStay
  <2>1. \A s \in 0..head, r \in Rows : VisibleAt(r, s)' <=> VisibleAt(r, s)
    BY <1>1, <1>4, Numbers DEF VisibleAt, Born, Unborn
  <2> QED BY <2>1 DEF RowsAt
<1>5. ASSUME NEW f \in Files, Fresh(f) PROVE file[f].begin = 0 BY <1>5 DEF Fresh, NoFile
<1> HIDE DEF RowsStay, LayoutsStay
<1>6. ASSUME NEW R \in SUBSET Unborn, InsertInlined(R) PROVE Goal
  <2>1. TypeOK' BY <1>6, InsertInlinedTypes
  <2>2. RowsStay BY <1>4, <1>6 DEF InsertInlined
  <2>3. LayoutsStay BY <1>6 DEF InsertInlined, LayoutsStay
  <2> QED BY <1>6, <2>1, <2>2, <2>3, InsertInlinedCatalog DEF InsertInlined, Commit
<1>7. ASSUME NEW R \in SUBSET Unborn, NEW f \in Files, NEW layout \in Layouts, InsertFile(R, f, layout) PROVE Goal
  <2>1. TypeOK' BY <1>7, InsertFileTypes
  <2>2. RowsStay BY <1>4, <1>7 DEF InsertFile
  <2>3. Fresh(f) /\ \A g \in Files : g # f => file'[g] = file[g] BY <1>7, InsertFileEffect DEF InsertFile
  <2>4. LayoutsStay BY <1>5, <2>3 DEF LayoutsStay
  <2> QED BY <1>7, <2>1, <2>2, <2>4, InsertFileCatalog DEF InsertFile, Commit
<1>8. ASSUME NEW D \in SUBSET Rows, DeleteRows(D) PROVE Goal
  <2>1. TypeOK' BY <1>8, DeleteRowsTypes
  <2>2. \A r \in D : gone[r] = 0 BY <1>8, Numbers DEF DeleteRows, RowsAt, VisibleAt, Catalog, Bounded
  <2>3. RowsStay BY <1>3, <1>8, <2>2 DEF DeleteRows
  <2>4. \A g \in Files : SameFile(g) BY <1>8, DeleteRowsEffect
  <2>5. LayoutsStay BY <2>4 DEF LayoutsStay, SameFile
  <2> QED BY <1>8, <2>1, <2>3, <2>5, DeleteRowsCatalog DEF DeleteRows, Commit
<1>9. ASSUME NEW r \in Rows, DeleteInlined(r) PROVE Goal
  <2>1. TypeOK' BY <1>9, DeleteInlinedTypes
  <2>2. gone[r] = 0 BY <1>9, Numbers DEF DeleteInlined, RowsAt, VisibleAt, Catalog, Bounded
  <2>3. RowsStay
    <3>1. {r} \in SUBSET Rows OBVIOUS
    <3>2. \A x \in {r} : gone[x] = 0 BY <2>2
    <3> QED BY <1>3, <1>9, <3>1, <3>2 DEF DeleteInlined
  <2>4. LayoutsStay BY <1>9 DEF DeleteInlined, LayoutsStay
  <2> QED BY <1>9, <2>1, <2>3, <2>4, DeleteInlinedCatalog DEF DeleteInlined, Commit
<1>10. ASSUME NEW f \in Files, Flush(f) PROVE Goal
  <2>1. file' \in [Files -> FileRecord] BY <1>10, FlushEffect
  <2>2. Commit /\ Fresh(f) /\ born' = born /\ gone' = gone /\ inlined' = {} /\ tombs' = {} /\ query' = query
    BY <1>10 DEF Flush
  <2>3. files' \subseteq Files BY <1>10 DEF Flush, TypeOK
  <2>4. head' \in Snapshots /\ head' = head + 1 BY <2>2, NextSnapshot
  <2>5. TypeOK' BY <2>1, <2>2, <2>3, <2>4 DEF TypeOK
  <2>6. RowsStay BY <1>2, <2>2
  <2>7. \A g \in Files : g # f => SameFile(g) BY <1>10, FlushEffect
  <2>8. LayoutsStay BY <1>5, <2>2, <2>7 DEF LayoutsStay, SameFile
  <2>9. Catalog' BY <1>10, <2>5, FlushCatalog
  <2> QED BY <2>2, <2>4, <2>5, <2>6, <2>8, <2>9
<1>11. ASSUME NEW F \in SUBSET files, NEW f \in Files, Compact(F, f) PROVE Goal
  <2>1. file' \in [Files -> FileRecord] /\ files' = (files \ F) \cup {f} BY <1>11, CompactEffect
  <2>2. Commit /\ Fresh(f) /\ born' = born /\ gone' = gone /\ inlined' = inlined /\ tombs' = tombs /\ query' = query
    BY <1>11 DEF Compact
  <2>3. files' \subseteq Files BY <2>1 DEF TypeOK
  <2>4. head' \in Snapshots /\ head' = head + 1 BY <2>2, NextSnapshot
  <2>5. TypeOK' BY <2>1, <2>2, <2>3, <2>4 DEF TypeOK
  <2>6. RowsStay BY <1>2, <2>2
  <2>7. \A g \in Files : g # f => file'[g] = file[g] BY <1>11 DEF Compact, TypeOK
  <2>8. LayoutsStay BY <1>5, <2>2, <2>7 DEF LayoutsStay
  <2>9. Catalog' BY <1>11, <2>5, CompactCatalog
  <2> QED BY <2>2, <2>4, <2>5, <2>6, <2>8, <2>9
<1>12. ASSUME NEW g \in Files, NEW f \in Files, Rewrite(g, f) PROVE Goal
  <2>1. file' \in [Files -> FileRecord] /\ files' = files \cup {f} BY <1>12, RewriteEffect DEF NewFile
  <2>2. Commit /\ Fresh(f) /\ born' = born /\ gone' = gone /\ inlined' = inlined /\ tombs' = tombs /\ query' = query
    BY <1>12 DEF Rewrite
  <2>3. files' \subseteq Files BY <2>1 DEF TypeOK
  <2>4. head' \in Snapshots /\ head' = head + 1 BY <2>2, NextSnapshot
  <2>5. TypeOK' BY <2>1, <2>2, <2>3, <2>4 DEF TypeOK
  <2>6. RowsStay BY <1>2, <2>2
  <2>7. \A h \in Files \ {f, g} : file'[h] = file[h] BY <1>12, RewriteEffect
  <2>8. file'[g].begin = file[g].begin /\ file'[g].layout = file[g].layout BY <1>12, RewriteEffect
  <2>9. LayoutsStay BY <1>5, <2>2, <2>7, <2>8 DEF LayoutsStay
  <2>10. Catalog' BY <1>12, <2>5, RewriteCatalog
  <2> QED BY <2>2, <2>4, <2>5, <2>6, <2>9, <2>10
<1> HIDE DEF Goal
<1>13. Goal BY <1>6, <1>7, <1>8, <1>9, <1>10, <1>11, <1>12 DEF Engines
<1> QED BY <1>1, <1>13 DEF Goal, RowsStay, LayoutsStay

(* What is no rewrite leaves every snapshot its files.                     *)
LEMMA NoRewriteStep ==
  ASSUME TypeOK, Catalog, Engines, ~MayRewrite, NEW s \in 0..head
  PROVE  DataFiles(s)' = DataFiles(s) /\ \A f \in DataFiles(s) : file'[f].rows = file[f].rows
<1> DEFINE Goal == DataFiles(s)' = DataFiles(s) /\ \A f \in DataFiles(s) : file'[f].rows = file[f].rows
<1>1. ASSUME NEW R \in SUBSET Unborn, InsertInlined(R) PROVE Goal
  BY <1>1 DEF InsertInlined, DataFiles
<1>2. ASSUME NEW R \in SUBSET Unborn, NEW f \in Files, NEW layout \in Layouts, InsertFile(R, f, layout) PROVE Goal
  <2>1. files' = files \cup {f} /\ file'[f].begin = head + 1 /\ f \notin files
    BY <1>2, InsertFileEffect DEF NewFile
  <2>2. \A g \in files : file'[g] = file[g]
    <3> TAKE g \in files
    <3>1. g \in Files /\ g # f BY <2>1, Numbers
    <3> QED BY <1>2, <3>1, InsertFileEffect
  <2>3. ~(head + 1 <= s) BY Numbers
  <2> QED BY <2>1, <2>2, <2>3 DEF DataFiles
<1>3. ASSUME NEW D \in SUBSET Rows, DeleteRows(D) PROVE Goal
  <2>1. files' = files /\ \A g \in files : SameFile(g) BY <1>3, DeleteRowsEffect, Numbers DEF DeleteRows
  <2> QED BY <2>1 DEF DataFiles, SameFile
<1>4. ASSUME NEW r \in Rows, DeleteInlined(r) PROVE Goal
  BY <1>4 DEF DeleteInlined, DataFiles
<1> HIDE DEF Goal
<1>5. Goal BY <1>1, <1>2, <1>3, <1>4 DEF Engines, Flush, Compact, Rewrite
<1> QED BY <1>5 DEF Goal

-----------------------------------------------------------------------------
(* WHAT A CALL OF A QUERY DOES                                             *)
Alone(q) == UNCHANGED catalog /\ \A p \in Queries : p # q => query'[p] = query[p]

LEMMA CallEffect ==
  ASSUME TypeOK, NEW q \in Queries, NEW c \in QueryRecord, Goes(q, c)
  PROVE  TypeOK' /\ Alone(q) /\ query'[q] = c
BY DEF Goes, Alone, TypeOK, catalog

LEMMA GetTableHandleEffect ==
  ASSUME TypeOK, NEW q \in Queries, NEW filtered \in Filtered, NEW served \in InlinedReads,
         GetTableHandle(q, filtered, served)
  PROVE  /\ TypeOK' /\ Alone(q) /\ query[q].step = "idle"
         /\ query'[q].step = "handle" /\ query'[q].pin = head
         /\ query'[q].pruned = query[q].pruned /\ query'[q].ranges = query[q].ranges
         /\ query'[q].reads = query[q].reads /\ query'[q].count = query[q].count
         /\ query'[q].keys = query[q].keys
<1> DEFINE c == [query[q] EXCEPT !.step = "handle", !.pin = head, !.filtered = filtered, !.inlinedReads = served]
<1>1. /\ c \in QueryRecord /\ c.step = "handle" /\ c.pin = head
      /\ c.pruned = query[q].pruned /\ c.ranges = query[q].ranges /\ c.reads = query[q].reads
      /\ c.count = query[q].count /\ c.keys = query[q].keys
  BY ScanAssumption DEF TypeOK, QueryRecord
<1>2. query[q].step = "idle" /\ Goes(q, c) BY DEF GetTableHandle
<1> HIDE DEF c
<1>3. TypeOK' /\ Alone(q) /\ query'[q] = c BY <1>1, <1>2, CallEffect
<1> QED BY <1>1, <1>2, <1>3

LEMMA ApplySnapshotEffect ==
  ASSUME TypeOK, NEW q \in Queries, NEW s \in Snapshots, ApplySnapshot(q, s)
  PROVE  /\ TypeOK' /\ Alone(q) /\ query[q].step = "handle" /\ query[q].keys = "unread"
         /\ query'[q].step = "handle" /\ query'[q].pin = s /\ s \in 0..head
         /\ query'[q].pruned = query[q].pruned /\ query'[q].ranges = query[q].ranges
         /\ query'[q].reads = query[q].reads /\ query'[q].count = query[q].count
         /\ query'[q].keys = "unread" /\ query'[q].filtered = query[q].filtered
<1> DEFINE c == [query[q] EXCEPT !.pin = s]
<1>1. /\ c \in QueryRecord /\ c.step = query[q].step /\ c.pin = s /\ c.filtered = query[q].filtered
      /\ c.pruned = query[q].pruned /\ c.ranges = query[q].ranges /\ c.reads = query[q].reads
      /\ c.count = query[q].count /\ c.keys = query[q].keys
  BY DEF TypeOK, QueryRecord
<1>2. query[q].step = "handle" /\ query[q].keys = "unread" /\ s \in 0..head /\ Goes(q, c) BY DEF ApplySnapshot
<1> HIDE DEF c
<1>3. TypeOK' /\ Alone(q) /\ query'[q] = c BY <1>1, <1>2, CallEffect
<1> QED BY <1>1, <1>2, <1>3

(* The three ways on to pruned files.                                      *)
Prunes(q, pruned) ==
  /\ query'[q].pruned = pruned /\ query'[q].pin = query[q].pin
  /\ query'[q].filtered = query[q].filtered
  /\ query'[q].ranges = query[q].ranges /\ query'[q].reads = query[q].reads
  /\ query'[q].count = query[q].count /\ query'[q].keys = query[q].keys

LEMMA OverlappingFiles ==
  ASSUME TypeOK, NEW s, NEW e PROVE Overlapping(s, e) \subseteq Files
BY DEF Overlapping, DataFiles, TypeOK

LEMMA PruneFirstEffect ==
  ASSUME TypeOK, NEW q \in Queries, PruneFirst(q)
  PROVE  /\ TypeOK' /\ Alone(q) /\ query[q].step = "handle" /\ query[q].filtered
         /\ query'[q].step = "statsA" /\ Prunes(q, Overlapping(query[q].pin, FilterA))
<1> DEFINE F == Overlapping(query[q].pin, FilterA)
           c == [query[q] EXCEPT !.step = "statsA", !.pruned = F]
<1>1. F \subseteq Files BY OverlappingFiles
<1>2. Goes(q, c) /\ query[q].step = "handle" /\ query[q].filtered BY DEF PruneFirst
<1> HIDE DEF F
<1>3. /\ c \in QueryRecord /\ c.step = "statsA" /\ c.pruned = F /\ c.pin = query[q].pin
      /\ c.filtered = query[q].filtered /\ c.ranges = query[q].ranges /\ c.reads = query[q].reads
      /\ c.count = query[q].count /\ c.keys = query[q].keys
  BY <1>1 DEF TypeOK, QueryRecord
<1> HIDE DEF c
<1>4. TypeOK' /\ Alone(q) /\ query'[q] = c BY <1>2, <1>3, CallEffect
<1> QED BY <1>2, <1>3, <1>4 DEF Prunes, F

LEMMA PruneNextEffect ==
  ASSUME TypeOK, NEW q \in Queries, PruneNext(q)
  PROVE  /\ TypeOK' /\ Alone(q) /\ query[q].step = "statsA"
         /\ query'[q].step = "filtered" /\ Prunes(q, query[q].pruned \cap Overlapping(query[q].pin, FilterB))
<1> DEFINE F == query[q].pruned \cap Overlapping(query[q].pin, FilterB)
           c == [query[q] EXCEPT !.step = "filtered", !.pruned = F]
<1>1. F \subseteq Files BY OverlappingFiles
<1>2. Goes(q, c) /\ query[q].step = "statsA" BY DEF PruneNext
<1> HIDE DEF F
<1>3. /\ c \in QueryRecord /\ c.step = "filtered" /\ c.pruned = F /\ c.pin = query[q].pin
      /\ c.filtered = query[q].filtered /\ c.ranges = query[q].ranges /\ c.reads = query[q].reads
      /\ c.count = query[q].count /\ c.keys = query[q].keys
  BY <1>1 DEF TypeOK, QueryRecord
<1> HIDE DEF c
<1>4. TypeOK' /\ Alone(q) /\ query'[q] = c BY <1>2, <1>3, CallEffect
<1> QED BY <1>2, <1>3, <1>4 DEF Prunes, F

LEMMA NothingPushableEffect ==
  ASSUME TypeOK, NEW q \in Queries, NothingPushable(q)
  PROVE  /\ TypeOK' /\ Alone(q) /\ query[q].step = "handle" /\ query[q].filtered
         /\ query'[q].step = "filtered" /\ Prunes(q, query[q].pruned)
<1> DEFINE c == [query[q] EXCEPT !.step = "filtered"]
<1>1. Goes(q, c) /\ query[q].step = "handle" /\ query[q].filtered BY DEF NothingPushable
<1>2. /\ c \in QueryRecord /\ c.step = "filtered" /\ c.pruned = query[q].pruned /\ c.pin = query[q].pin
      /\ c.filtered = query[q].filtered /\ c.ranges = query[q].ranges /\ c.reads = query[q].reads
      /\ c.count = query[q].count /\ c.keys = query[q].keys
  BY DEF TypeOK, QueryRecord
<1> HIDE DEF c
<1>3. TypeOK' /\ Alone(q) /\ query'[q] = c BY <1>1, <1>2, CallEffect
<1> QED BY <1>1, <1>2, <1>3 DEF Prunes

(* A refusal, and a plan: the refusals did not apply.                      *)
Refuses(q) ==
  /\ query'[q].step = "refused" /\ query'[q].pin = query[q].pin /\ query'[q].reads = query[q].reads
  /\ query'[q].count = query[q].count /\ query'[q].filtered = query[q].filtered

LEMMA RefusedEffect ==
  ASSUME TypeOK, NEW q \in Queries, Goes(q, [query[q] EXCEPT !.step = "refused"])
  PROVE  TypeOK' /\ Alone(q) /\ Refuses(q)
<1> DEFINE c == [query[q] EXCEPT !.step = "refused"]
<1>1. /\ c \in QueryRecord /\ c.step = "refused" /\ c.pin = query[q].pin /\ c.filtered = query[q].filtered
      /\ c.reads = query[q].reads /\ c.count = query[q].count
  BY DEF TypeOK, QueryRecord
<1>2. Goes(q, c) OBVIOUS
<1> HIDE DEF c
<1>3. TypeOK' /\ Alone(q) /\ query'[q] = c BY <1>1, <1>2, CallEffect
<1> QED BY <1>1, <1>3 DEF Refuses

Served(s) == ~InlinedDeletes(s) /\ ~HistoricalDeletes(s) /\ ~UnfilterablePartial(s)

LEMMA PlanCountEffect ==
  ASSUME TypeOK, NEW q \in Queries, PlanCount(q)
  PROVE  /\ TypeOK' /\ Alone(q) /\ Ready(q) /\ Served(query[q].pin) /\ CountServable(q)
         /\ query'[q].step = "planned" /\ query'[q].pin = query[q].pin /\ query'[q].reads = query[q].reads
         /\ query'[q].ranges \subseteq DataFiles(query[q].pin) /\ query'[q].keys = query[q].keys
         /\ query'[q].count = RecordCount(DataFiles(query[q].pin)) /\ query'[q].count \in Nat
         /\ query'[q].filtered = query[q].filtered
<1> DEFINE s == query[q].pin
           n == RecordCount(DataFiles(s))
<1>1. DataFiles(s) \subseteq Files BY DEF DataFiles, TypeOK
<1>2. n \in Nat
  <2> HIDE DEF s
  <2> QED BY <1>1, CountIsInt
<1>3. PICK first \in SUBSET DataFiles(s) :
        Goes(q, [query[q] EXCEPT !.step = "planned", !.ranges = first, !.count = n])
  <2>1. PICK first \in IF DataFiles(s) = {} THEN {{}} ELSE {{f} : f \in DataFiles(s)} :
          Goes(q, [query[q] EXCEPT !.step = "planned", !.ranges = first, !.count = n])
    BY DEF PlanCount
  <2>2. first \in SUBSET DataFiles(s) BY <2>1
  <2> QED BY <2>1, <2>2
<1> HIDE DEF n
<1> DEFINE c == [query[q] EXCEPT !.step = "planned", !.ranges = first, !.count = n]
<1>a. first \in SUBSET (Files \cup {"inlined"}) /\ n \in Int BY <1>1, <1>2, <1>3
<1>4. /\ c \in QueryRecord /\ c.step = "planned" /\ c.pin = query[q].pin
      /\ c.reads = query[q].reads /\ c.count = n /\ c.ranges = first /\ c.keys = query[q].keys
      /\ c.filtered = query[q].filtered
  BY <1>a DEF TypeOK, QueryRecord
<1>5. Goes(q, c) BY <1>3
<1> HIDE DEF c
<1>6. TypeOK' /\ Alone(q) /\ query'[q] = c BY <1>4, <1>5, CallEffect
<1>7. Ready(q) /\ Served(query[q].pin) /\ CountServable(q) BY DEF PlanCount, Served
<1> QED BY <1>2, <1>4, <1>6, <1>7 DEF n

LEMMA PlanScanEffect ==
  ASSUME TypeOK, NEW q \in Queries, NEW limit \in Limits, PlanScan(q, limit)
  PROVE  LET s == query[q].pin
             pruned == DataFiles(s) \cap query[q].pruned
         IN  /\ TypeOK' /\ Alone(q) /\ Ready(q) /\ Served(s)
             /\ query'[q].step = "planned" /\ query'[q].pin = s /\ query'[q].filtered = query[q].filtered
             /\ query'[q].limit = limit /\ query'[q].count = query[q].count /\ query'[q].keys = query[q].keys
             /\ \E scanned \in SUBSET pruned :
                  /\ \/ scanned = pruned
                     \/ limit > 0 /\ CountServable(q) /\ RecordCount(scanned) >= limit
                  /\ query'[q].ranges \ {"inlined"} \subseteq scanned
                  /\ query'[q].reads = (UNION {RowsOf(f, s) \X {f} : f \in scanned}) \cup (InlinedAt(s) \X {"inlined"})
<1> DEFINE s == query[q].pin
           pruned == DataFiles(s) \cap query[q].pruned
           ranges(scanned) == scanned \cup IF InlinedAt(s) = {} THEN {} ELSE {"inlined"}
           reads(scanned) == (UNION {RowsOf(f, s) \X {f} : f \in scanned}) \cup (InlinedAt(s) \X {"inlined"})
<1>1. pruned \subseteq Files BY DEF DataFiles, TypeOK
<1>2. PICK scanned \in IF limit > 0 /\ CountServable(q) THEN Prefixes(pruned, limit) ELSE {pruned} :
        Goes(q, [query[q] EXCEPT !.step = "planned", !.limit = limit, !.ranges = ranges(scanned),
                                 !.reads = reads(scanned)])
  BY DEF PlanScan
<1>3. scanned \in SUBSET pruned /\ (scanned = pruned \/ (limit > 0 /\ CountServable(q) /\ RecordCount(scanned) >= limit))
  <2> HIDE DEF pruned
  <2> QED BY <1>2 DEF Prefixes
<1>4. ranges(scanned) \in SUBSET (Files \cup {"inlined"}) BY <1>1, <1>3
<1>5. reads(scanned) \in SUBSET (Rows \X (Files \cup {"inlined"}))
  <2>1. InlinedAt(s) \subseteq Rows BY DEF InlinedAt, TypeOK
  <2>2. \A f \in scanned : f \in Files /\ RowsOf(f, s) \subseteq Rows
    BY <1>1, <1>3, Numbers DEF RowsOf
  <2> QED BY <2>1, <2>2
<1> DEFINE R == reads(scanned)
           G == ranges(scanned)
           c == [query[q] EXCEPT !.step = "planned", !.limit = limit, !.ranges = G, !.reads = R]
<1>6. Goes(q, c) BY <1>2
<1>7. R \in SUBSET (Rows \X (Files \cup {"inlined"})) /\ G \in SUBSET (Files \cup {"inlined"}) BY <1>4, <1>5
<1>8. G \ {"inlined"} \subseteq scanned OBVIOUS
<1> HIDE DEF R, G
<1>9. /\ c \in QueryRecord /\ c.step = "planned" /\ c.pin = query[q].pin /\ c.filtered = query[q].filtered
      /\ c.limit = limit /\ c.count = query[q].count /\ c.keys = query[q].keys /\ c.ranges = G /\ c.reads = R
  BY <1>7 DEF TypeOK, QueryRecord
<1> HIDE DEF c
<1>10. TypeOK' /\ Alone(q) /\ query'[q] = c BY <1>6, <1>9, CallEffect
<1>11. Ready(q) /\ Served(s) BY DEF PlanScan, Served
<1>12. R = (UNION {RowsOf(f, s) \X {f} : f \in scanned}) \cup (InlinedAt(s) \X {"inlined"}) BY DEF R
<1> HIDE DEF pruned, s
<1>13. /\ scanned \in SUBSET pruned
       /\ scanned = pruned \/ (limit > 0 /\ CountServable(q) /\ RecordCount(scanned) >= limit)
       /\ query'[q].ranges \ {"inlined"} \subseteq scanned
       /\ query'[q].reads = (UNION {RowsOf(f, s) \X {f} : f \in scanned}) \cup (InlinedAt(s) \X {"inlined"})
  BY <1>3, <1>8, <1>9, <1>10, <1>12
<1>14. query'[q].step = "planned" /\ query'[q].pin = s /\ query'[q].filtered = query[q].filtered
       /\ query'[q].limit = limit /\ query'[q].count = query[q].count /\ query'[q].keys = query[q].keys
  BY <1>9, <1>10 DEF s
<1> QED BY <1>10, <1>11, <1>13, <1>14 DEF pruned, s

LEMMA ReadPropertiesEffect ==
  ASSUME TypeOK, NEW q \in Queries, ReadProperties(q)
  PROVE  LET layouts == {file[f].layout : f \in DataFiles(query[q].pin)}
         IN  /\ TypeOK' /\ Alone(q) /\ query[q].keys = "unread" /\ (Ready(q) \/ query[q].step = "planned")
             /\ \/ Refuses(q)
                \/ /\ ~({"hive", "native"} \subseteq layouts)
                   /\ query'[q].keys = IF "hive" \in layouts THEN "declared" ELSE "none"
                   /\ query'[q].step = query[q].step /\ query'[q].filtered = query[q].filtered
                   /\ query'[q].limit = query[q].limit /\ query'[q].pruned = query[q].pruned
                   /\ query'[q].pin = query[q].pin /\ query'[q].ranges = query[q].ranges
                   /\ query'[q].reads = query[q].reads /\ query'[q].count = query[q].count
<1> DEFINE layouts == {file[f].layout : f \in DataFiles(query[q].pin)}
           keys == IF "hive" \in layouts THEN "declared" ELSE "none"
           c == [query[q] EXCEPT !.keys = keys]
<1>1. query[q].keys = "unread" /\ (Ready(q) \/ query[q].step = "planned") BY DEF ReadProperties
<1>2. CASE {"hive", "native"} \subseteq layouts
  <2>1. Goes(q, [query[q] EXCEPT !.step = "refused"]) BY <1>2 DEF ReadProperties
  <2> QED BY <1>1, <2>1, RefusedEffect
<1>3. CASE ~({"hive", "native"} \subseteq layouts)
  <2>1. Goes(q, c) BY <1>3 DEF ReadProperties
  <2>2. keys \in {"unread", "none", "declared"} OBVIOUS
  <2> HIDE DEF keys
  <2>3. /\ c \in QueryRecord /\ c.step = query[q].step /\ c.pin = query[q].pin /\ c.filtered = query[q].filtered
        /\ c.limit = query[q].limit /\ c.pruned = query[q].pruned /\ c.count = query[q].count /\ c.keys = keys
        /\ c.ranges = query[q].ranges /\ c.reads = query[q].reads
    BY <2>2 DEF TypeOK, QueryRecord
  <2> HIDE DEF c
  <2>4. TypeOK' /\ Alone(q) /\ query'[q] = c BY <2>1, <2>3, CallEffect
  <2> QED BY <1>1, <1>3, <2>3, <2>4 DEF keys
<1> QED BY <1>2, <1>3

-----------------------------------------------------------------------------
(* WHAT THE REFUSALS BUY                                                   *)
(* A file that is not refused yields its rows of the snapshot, no more and *)
(* no less.                                                                *)
LEMMA ServedFile ==
  ASSUME TypeOK, Catalog, NEW s \in 0..head, Served(s), NEW f \in DataFiles(s)
  PROVE  RowsOf(f, s) = {r \in file[f].rows : VisibleAt(r, s)}
<1>1. f \in files /\ f \in Files /\ file[f].begin <= s /\ (file[f].end = 0 \/ s < file[f].end)
  BY Numbers DEF DataFiles
<1>2. file[f].partialMax <= s BY <1>1, Numbers DEF Served, UnfilterablePartial
<1>3. Newest(f) <= s BY <1>1, <1>2 DEF Newest
<1>4. ASSUME NEW r \in RowsOf(f, s) PROVE VisibleAt(r, s)
  <2>1. r \in file[f].rows /\ r \in Rows BY <1>1, Numbers DEF RowsOf
  <2>2. born[r] \in 1..s BY <1>1, <1>3, <2>1, Numbers DEF Catalog, Tagged
  <2>3. ASSUME gone[r] # 0, gone[r] <= s PROVE FALSE
    <3>1. \/ r \in tombs
          \/ r \in file[f].deletes /\ file[f].deletesFrom \in 1..gone[r]
          \/ file[f].end \in 1..gone[r]
      BY <1>1, <2>1, <2>3 DEF Catalog, DeadNamed
    <3>2. r \notin tombs BY <2>3 DEF Served, InlinedDeletes, TombsAt
    <3>3. ~(file[f].end \in 1..gone[r]) BY <1>1, <2>1, <2>3, Numbers
    <3>4. r \in file[f].deletes /\ HasDeleteFile(f, s)
      BY <1>1, <2>1, <2>3, <3>1, <3>2, <3>3, Numbers DEF HasDeleteFile
    <3> QED BY <3>4 DEF RowsOf
  <2> QED BY <2>1, <2>2, <2>3, Numbers DEF VisibleAt
<1>5. ASSUME NEW r \in file[f].rows, VisibleAt(r, s) PROVE r \in RowsOf(f, s)
  <2>1. r \in Rows BY <1>1, Numbers
  <2>2. ASSUME HasDeleteFile(f, s), r \in file[f].deletes PROVE FALSE
    <3>1. s = head BY <2>2 DEF Served, HistoricalDeletes
    <3>2. gone[r] # 0 BY <1>1, <2>2 DEF Catalog, LivingSpared
    <3>3. gone[r] <= head BY <2>1 DEF Catalog, Bounded
    <3> QED BY <1>5, <2>1, <3>1, <3>2, <3>3, Numbers DEF VisibleAt
  <2> QED BY <2>2 DEF RowsOf
<1>6. RowsOf(f, s) \subseteq file[f].rows BY DEF RowsOf
<1> QED BY <1>4, <1>5, <1>6

(* No two files that are not refused have a row in common.                 *)
LEMMA ServedOnce ==
  ASSUME TypeOK, Catalog, NEW s \in 0..head, Served(s), NEW f \in DataFiles(s), NEW g \in DataFiles(s),
         file[f].rows \cap file[g].rows # {}
  PROVE  f = g
<1>1. \A h \in DataFiles(s) : /\ h \in files /\ h \in Files /\ Newest(h) <= s
                              /\ (file[h].end = 0 \/ s < file[h].end)
  <2> TAKE h \in DataFiles(s)
  <2>1. h \in files /\ h \in Files /\ file[h].begin <= s /\ (file[h].end = 0 \/ s < file[h].end)
    BY Numbers DEF DataFiles
  <2>2. file[h].partialMax <= s BY <2>1, Numbers DEF Served, UnfilterablePartial
  <2> QED BY <2>1, <2>2 DEF Newest
<1>2. ~EndsBefore(f, g) /\ ~EndsBefore(g, f) BY <1>1, Numbers DEF EndsBefore
<1> QED BY <1>1, <1>2 DEF Catalog, OnePlace

(* What the ranges of all files and the inlined range yield together.      *)
Yield(F, s) == (UNION {RowsOf(f, s) \X {f} : f \in F}) \cup (InlinedAt(s) \X {"inlined"})

LEMMA YieldIsSound ==
  ASSUME TypeOK, Catalog, NEW s \in 0..head, Served(s), NEW F \in SUBSET DataFiles(s)
  PROVE  /\ \A x \in Yield(F, s) : x[1] \in RowsAt(s)
         /\ \A x, y \in Yield(F, s) : x[1] = y[1] => x = y
<1>1. ASSUME NEW x \in Yield(F, s)
      PROVE  \/ \E f \in F : x[1] \in RowsOf(f, s) /\ x = <<x[1], f>>
             \/ x[1] \in InlinedAt(s) /\ x = <<x[1], "inlined">>
  BY <1>1 DEF Yield
<1>2. \A f \in F : /\ f \in files /\ f \in Files /\ file[f].rows \subseteq Rows
                   /\ RowsOf(f, s) = {r \in file[f].rows : VisibleAt(r, s)}
  <2> TAKE f \in F
  <2>1. f \in DataFiles(s) /\ f \in files /\ f \in Files BY Numbers DEF DataFiles
  <2> QED BY <2>1, ServedFile, Numbers
<1>3. InlinedAt(s) \subseteq RowsAt(s) BY DEF InlinedAt, RowsAt, TypeOK
<1>4. \A f \in F : RowsOf(f, s) \subseteq RowsAt(s) BY <1>2 DEF RowsAt
<1>5. \A f, g \in F : RowsOf(f, s) \cap RowsOf(g, s) # {} => f = g
  <2> TAKE f, g \in F
  <2>1. f \in DataFiles(s) /\ g \in DataFiles(s) OBVIOUS
  <2>2. RowsOf(f, s) \subseteq file[f].rows /\ RowsOf(g, s) \subseteq file[g].rows BY <1>2
  <2>3. RowsOf(f, s) \cap RowsOf(g, s) # {} => file[f].rows \cap file[g].rows # {} BY <2>2
  <2> QED BY <2>1, <2>3, ServedOnce
<1>6. \A f \in F : RowsOf(f, s) \cap InlinedAt(s) = {}
  BY <1>2 DEF InlinedAt, Catalog, OnePlace
<1>7. \A x \in Yield(F, s) : x[1] \in RowsAt(s) BY <1>1, <1>3, <1>4
<1>8. ASSUME NEW x \in Yield(F, s), NEW y \in Yield(F, s), x[1] = y[1] PROVE x = y
  <2>1. CASE \E f \in F : x[1] \in RowsOf(f, s) /\ x = <<x[1], f>>
    <3>1. PICK f \in F : x[1] \in RowsOf(f, s) /\ x = <<x[1], f>> BY <2>1
    <3>2. PICK g \in F : y[1] \in RowsOf(g, s) /\ y = <<y[1], g>> BY <1>1, <1>6, <1>8, <3>1
    <3>3. f = g BY <1>5, <1>8, <3>1, <3>2
    <3> QED BY <1>8, <3>1, <3>2, <3>3
  <2>2. CASE x[1] \in InlinedAt(s) /\ x = <<x[1], "inlined">>
    <3>1. y = <<y[1], "inlined">> BY <1>1, <1>6, <1>8, <2>2
    <3> QED BY <1>8, <2>2, <3>1
  <2> QED BY <1>1, <2>1, <2>2
<1> QED BY <1>7, <1>8

LEMMA YieldIsComplete ==
  ASSUME TypeOK, Catalog, NEW s \in 0..head, Served(s), NEW r \in RowsAt(s)
  PROVE  r \in InlinedAt(s) \/ \E f \in DataFiles(s) : r \in RowsOf(f, s)
<1>1. r \in Rows /\ VisibleAt(r, s) BY DEF RowsAt
<1>2. r \in inlined \/ \E f \in DataFiles(s) : r \in file[f].rows BY <1>1 DEF Catalog, SomePlace
<1>3. CASE r \in inlined BY <1>1, <1>3 DEF InlinedAt
<1>4. ASSUME NEW f \in DataFiles(s), r \in file[f].rows PROVE r \in RowsOf(f, s)
  BY <1>1, <1>4, ServedFile
<1> QED BY <1>2, <1>3, <1>4

(* Without delete files, the record counts are numbers of rows.            *)
LEMMA PairsCount ==
  ASSUME TypeOK, Catalog, NEW s \in 0..head, Served(s), NEW F \in SUBSET DataFiles(s),
         NEW R, R = UNION {file[f].rows : f \in F}
  PROVE  RecordCount(F) = Cardinality(R) /\ IsFiniteSet(R)
<1> DEFINE P == {x \in F \X Rows : x[2] \in file[x[1]].rows}
           row == [x \in P |-> x[2]]
<1>1. \A f \in F : f \in Files /\ file[f].rows \subseteq Rows BY Numbers DEF DataFiles
<1>2. IsFiniteSet(P)
  <2>1. F \in SUBSET Files BY <1>1
  <2>2. IsFiniteSet(F) BY <2>1, ScanAssumption, FS_Subset
  <2>3. IsFiniteSet(Rows) BY ScanAssumption, PruningAssumption, FS_Subset
  <2>4. IsFiniteSet(F \X Rows) BY <2>2, <2>3, FS_Product
  <2>5. P \in SUBSET (F \X Rows) OBVIOUS
  <2> HIDE DEF P
  <2> QED BY <2>4, <2>5, FS_Subset
<1>3. \A x \in P : x[1] \in F /\ x[2] \in file[x[1]].rows /\ x[2] \in R /\ x = <<x[1], x[2]>> OBVIOUS
<1>4. \A x, y \in P : x[2] = y[2] => x = y
  <2> TAKE x, y \in P
  <2>1. x[1] \in DataFiles(s) /\ y[1] \in DataFiles(s) BY <1>3
  <2>2. x[2] = y[2] => file[x[1]].rows \cap file[y[1]].rows # {} BY <1>3
  <2>3. x[2] = y[2] => x[1] = y[1] BY <2>1, <2>2, ServedOnce
  <2> QED BY <1>3, <2>3
<1>5. \A r \in R : \E x \in P : x[2] = r
  <2> TAKE r \in R
  <2>1. PICK f \in F : r \in file[f].rows OBVIOUS
  <2>2. <<f, r>> \in P BY <1>1, <2>1
  <2> QED BY <2>2
<1> HIDE DEF P
<1>6. row \in Bijection(P, R)
  BY <1>3, <1>4, <1>5 DEF Bijection, Injection, Surjection, IsInjective
<1>7. ExistsBijection(P, R) BY <1>6 DEF ExistsBijection
<1>8. IsFiniteSet(R) /\ Cardinality(R) = Cardinality(P) BY <1>2, <1>7, FS_Bijection
<1> QED BY <1>8 DEF RecordCount, P

-----------------------------------------------------------------------------
(* A PLAN HAS THE ROWS OF ITS PIN                                          *)
Open(q) == query[q].step \in {"idle", "handle", "statsA", "filtered"}

Sound(q) ==
  LET R == RowsAt(query[q].pin)
  IN  /\ query[q].pin \in 0..head
      /\ Open(q) => query[q].reads = {} /\ query[q].count = -1
      /\ query[q].step = "planned" =>
           /\ \A x \in query[q].reads : x[1] \in R
           /\ \A x, y \in query[q].reads : x[1] = y[1] => x = y
           /\ query[q].count # -1 => query[q].count = Cardinality(R)

(* A query whose pin's rows and whose own state are as before.             *)
LEMMA SoundStays ==
  ASSUME NEW q \in Queries, Sound(q), query'[q] = query[q], head \in Nat, head' \in {head, head + 1},
         \A s \in 0..head : RowsAt(s)' = RowsAt(s)
  PROVE  Sound(q)'
<1>1. query[q].pin \in 0..head BY DEF Sound
<1>2. RowsAt(query[q].pin)' = RowsAt(query[q].pin)
  <2>1. query'[q].pin = query[q].pin OBVIOUS
  <2> QED BY <1>1, <2>1 DEF RowsAt, VisibleAt
<1>3. query'[q].pin \in 0..head' BY <1>1
<1> QED BY <1>2, <1>3 DEF Sound, Open

LEMMA AloneRows ==
  ASSUME UNCHANGED catalog
  PROVE  /\ head' = head
         /\ \A s : RowsAt(s)' = RowsAt(s) /\ DataFiles(s)' = DataFiles(s)
BY DEF catalog, RowsAt, VisibleAt, DataFiles

LEMMA SoundStep ==
  ASSUME TypeOK, Catalog, \A q \in Queries : Sound(q), [Next]_vars
  PROVE  \A q \in Queries : Sound(q)'
<1>1. head \in Nat BY Numbers
<1>2. CASE Engines
  <2>1. query' = query /\ head' = head + 1 /\ \A s \in 0..head : RowsAt(s)' = RowsAt(s) BY <1>2, EngineStep
  <2> QED BY <1>1, <2>1, SoundStays
<1>3. CASE UNCHANGED vars
  <2>1. query' = query /\ UNCHANGED catalog BY <1>3 DEF vars
  <2> QED BY <1>1, <2>1, AloneRows, SoundStays
<1>4. ASSUME NEW q \in Queries, Planning(q) PROVE \A p \in Queries : Sound(p)'
  <2> SUFFICES Alone(q) /\ Sound(q)'
    <3>1. ASSUME NEW p \in Queries, p # q PROVE Sound(p)'
      <4>1. query'[p] = query[p] /\ UNCHANGED catalog BY <3>1 DEF Alone
      <4> QED BY <1>1, <4>1, AloneRows, SoundStays
    <3> QED BY <3>1
  <2> DEFINE s == query[q].pin
  <2>1. s \in 0..head /\ (Open(q) => query[q].reads = {} /\ query[q].count = -1) BY DEF Sound
  <2>2. ASSUME Alone(q), query'[q].step \in {"handle", "statsA", "filtered"}, query'[q].pin \in 0..head, Open(q),
               query'[q].reads = query[q].reads, query'[q].count = query[q].count
        PROVE  Sound(q)'
    BY <2>1, <2>2 DEF Sound, Open, Alone, catalog
  <2>3. ASSUME NEW filtered \in Filtered, NEW served \in InlinedReads, GetTableHandle(q, filtered, served)
        PROVE  Alone(q) /\ Sound(q)'
    BY <1>1, <2>2, <2>3, GetTableHandleEffect DEF Open
  <2>4. ASSUME NEW t \in Snapshots, ApplySnapshot(q, t) PROVE Alone(q) /\ Sound(q)'
    BY <2>2, <2>4, ApplySnapshotEffect DEF Open
  <2>5. CASE PruneFirst(q) BY <2>1, <2>2, <2>5, PruneFirstEffect DEF Open, Prunes
  <2>6. CASE PruneNext(q) BY <2>1, <2>2, <2>6, PruneNextEffect DEF Open, Prunes
  <2>7. CASE NothingPushable(q) BY <2>1, <2>2, <2>7, NothingPushableEffect DEF Open, Prunes
  <2>8. ASSUME Alone(q), Refuses(q) PROVE Sound(q)'
    BY <2>1, <2>8 DEF Sound, Open, Alone, catalog, Refuses
  <2>9. CASE RefuseScan(q)
    <3>1. Alone(q) /\ Refuses(q) BY <2>9, RefusedEffect DEF RefuseScan
    <3> QED BY <2>8, <3>1
  <2>10. CASE PlanCount(q)
    <3>1. /\ Alone(q) /\ Ready(q) /\ Served(s) /\ CountServable(q)
          /\ query'[q].step = "planned" /\ query'[q].pin = s /\ query'[q].reads = query[q].reads
          /\ query'[q].count = RecordCount(DataFiles(s))
      BY <2>10, PlanCountEffect
    <3>2. query[q].reads = {} BY <2>1, <3>1 DEF Ready, Open
    <3>3. RowsAt(s) = UNION {file[f].rows : f \in DataFiles(s)}
      <4>1. InlinedAt(s) = {} /\ \A f \in DataFiles(s) : ~HasDeleteFile(f, s) BY <3>1 DEF CountServable
      <4>2. \A f \in DataFiles(s) : f \in Files /\ RowsOf(f, s) = file[f].rows
        BY <4>1, Numbers DEF RowsOf, DataFiles
      <4>3. \A f \in DataFiles(s) : file[f].rows = {r \in file[f].rows : VisibleAt(r, s)}
        BY <2>1, <3>1, <4>2, ServedFile
      <4>4. \A f \in DataFiles(s) : file[f].rows \subseteq RowsAt(s)
        BY <4>2, <4>3, Numbers DEF RowsAt
      <4>5. \A r \in RowsAt(s) : \E f \in DataFiles(s) : r \in file[f].rows
        BY <2>1, <3>1, <4>1, <4>2, YieldIsComplete
      <4> QED BY <4>4, <4>5
    <3>4. RecordCount(DataFiles(s)) = Cardinality(RowsAt(s))
      BY <2>1, <3>1, <3>3, PairsCount
    <3>5. RowsAt(query[q].pin)' = RowsAt(s) BY <3>1 DEF Alone, catalog, RowsAt, VisibleAt
    <3>6. query'[q].pin \in 0..head' BY <2>1, <3>1 DEF Alone, catalog
    <3> QED BY <3>1, <3>2, <3>4, <3>5, <3>6 DEF Sound, Open
  <2>11. ASSUME NEW limit \in Limits, PlanScan(q, limit) PROVE Alone(q) /\ Sound(q)'
    <3>1. /\ Alone(q) /\ Ready(q) /\ Served(s)
          /\ query'[q].step = "planned" /\ query'[q].pin = s /\ query'[q].count = query[q].count
      BY <2>11, PlanScanEffect
    <3>2. PICK F \in SUBSET (DataFiles(s) \cap query[q].pruned) : query'[q].reads = Yield(F, s)
      BY <2>11, PlanScanEffect DEF Yield
    <3>3. /\ \A x \in Yield(F, s) : x[1] \in RowsAt(s)
          /\ \A x, y \in Yield(F, s) : x[1] = y[1] => x = y
      BY <2>1, <3>1, YieldIsSound
    <3>4. query[q].count = -1 BY <2>1, <3>1 DEF Ready, Open
    <3>5. RowsAt(query[q].pin)' = RowsAt(s) BY <3>1 DEF Alone, catalog, RowsAt, VisibleAt
    <3>6. query'[q].pin \in 0..head' BY <2>1, <3>1 DEF Alone, catalog
    <3> QED BY <3>1, <3>2, <3>3, <3>4, <3>5, <3>6 DEF Sound, Open
  <2>12. CASE ReadProperties(q)
    <3>1. Alone(q) /\ (\/ Refuses(q)
                       \/ /\ query'[q].step = query[q].step /\ query'[q].pin = s
                          /\ query'[q].reads = query[q].reads /\ query'[q].count = query[q].count)
      BY <2>12, ReadPropertiesEffect
    <3>2. CASE Refuses(q) BY <2>8, <3>1, <3>2
    <3>3. CASE ~Refuses(q)
      <4>1. RowsAt(query[q].pin)' = RowsAt(s) BY <3>1, <3>3 DEF Alone, catalog, RowsAt, VisibleAt
      <4>2. query'[q].pin \in 0..head' BY <2>1, <3>1, <3>3 DEF Alone, catalog
      <4> QED BY <3>1, <3>3, <4>1, <4>2 DEF Sound, Open
    <3> QED BY <3>1, <3>2, <3>3
  <2> QED BY <1>4, <2>3, <2>4, <2>5, <2>6, <2>7, <2>9, <2>10, <2>11, <2>12 DEF Planning
<1> QED BY <1>2, <1>3, <1>4 DEF Next

-----------------------------------------------------------------------------
(* WITHOUT A RACE, A PLAN MISSES NOTHING; WITH ONE, ONLY A FILTER DOES     *)
Holds(f) == file[f].rows \cap Matching # {}
Found(q) == {read[1] : read \in Read(q)}

Complete(q) ==
  /\ query[q].step \in {"idle", "handle"} => query[q].pruned = All
  /\ query[q].step \in {"statsA", "filtered"} =>
       /\ query[q].filtered
       /\ Racing \/ \A f \in DataFiles(query[q].pin) : Holds(f) => f \in query[q].pruned
  /\ query[q].step = "planned" /\ query[q].count = -1 =>
       \/ Answer(q) \subseteq Found(q)
       \/ query[q].limit > 0 /\ Cardinality(Found(q)) >= query[q].limit
       \/ Racing /\ query[q].filtered

(* A query of which the pin's rows are as before, and its files, too, while*)
(* it may still read them.                                                 *)
LEMMA CompleteStays ==
  ASSUME NEW q \in Queries, Complete(q), query'[q] = query[q],
         RowsAt(query[q].pin)' = RowsAt(query[q].pin),
         query[q].step \in {"statsA", "filtered"} /\ ~Racing =>
           /\ DataFiles(query[q].pin)' = DataFiles(query[q].pin)
           /\ \A f \in DataFiles(query[q].pin) : file'[f].rows = file[f].rows
  PROVE  Complete(q)'
<1>1. Answer(q)' = Answer(q) BY DEF Answer
<1>2. Found(q)' = Found(q) BY DEF Found, Read
<1>3. CASE query[q].step \in {"statsA", "filtered"} /\ ~Racing
  <2>1. DataFiles(query[q].pin)' = DataFiles(query[q].pin) BY <1>3
  <2>2. \A f \in DataFiles(query[q].pin) : Holds(f)' <=> Holds(f) BY <1>3 DEF Holds
  <2>3. query[q].filtered /\ \A f \in DataFiles(query[q].pin) : Holds(f) => f \in query[q].pruned
    BY <1>3 DEF Complete
  <2>4. query'[q].filtered /\ \A f \in DataFiles(query[q].pin)' : Holds(f)' => f \in query'[q].pruned
    BY <2>1, <2>2, <2>3
  <2> QED BY <1>3, <2>4 DEF Complete
<1>4. CASE query[q].step \notin {"statsA", "filtered"} \/ Racing BY <1>1, <1>2, <1>4 DEF Complete
<1> QED BY <1>3, <1>4

(* The statistics of a file meet the range of a conjunct that is true of   *)
(* one of its rows.                                                        *)
LEMMA OverlapKeeps ==
  ASSUME TypeOK, NEW s, NEW e, Conjunct(e), NEW f \in DataFiles(s), NEW r \in file[f].rows, Matches(e, r)
  PROVE  f \in Overlapping(s, e)
<1>1. file[f].rows \in SUBSET Records /\ f \in Files
  BY Numbers, ScanAssumption DEF DataFiles
<1> DEFINE w == AsWritten(f)
<1>2. w \in Written /\ w.rows = file[f].rows
  <2>1. /\ w \in [rows: SUBSET Records, known: SUBSET Columns, active: BOOLEAN, bucket: 0..(Arity - 1) \cup {Null}]
        /\ w.active = FALSE /\ w.rows = file[f].rows
    BY <1>1 DEF AsWritten
  <2> HIDE DEF w
  <2> QED BY <2>1 DEF Written
<1> HIDE DEF w
<1>3. r \in w.rows BY <1>2
<1>4. \A p \in Ranges(e) : MeetsRange(w, p) BY <1>2, <1>3, KeptByRange
<1> QED BY <1>4 DEF Overlapping, w

(* The plan: all files that hold something, or enough of them for a limit. *)
LEMMA PlanScanComplete ==
  ASSUME TypeOK, Catalog, NEW q \in Queries, Sound(q), Complete(q), NEW limit \in Limits, PlanScan(q, limit)
  PROVE  \/ Answer(q)' \subseteq Found(q)'
         \/ query'[q].limit > 0 /\ Cardinality(Found(q)') >= query'[q].limit
         \/ Racing /\ query'[q].filtered
<1> DEFINE s == query[q].pin
           pruned == DataFiles(s) \cap query[q].pruned
<1>1. /\ Alone(q) /\ Ready(q) /\ Served(s) /\ query'[q].pin = s /\ query'[q].filtered = query[q].filtered
      /\ query'[q].limit = limit
  BY PlanScanEffect
<1>2. PICK F \in SUBSET pruned :
        /\ F = pruned \/ (limit > 0 /\ CountServable(q) /\ RecordCount(F) >= limit)
        /\ query'[q].reads = Yield(F, s)
  BY PlanScanEffect DEF Yield
<1>3. s \in 0..head BY DEF Sound
<1>4. Answer(q)' = IF query[q].filtered THEN RowsAt(s) \cap Matching ELSE RowsAt(s)
  <2>1. RowsAt(query[q].pin)' = RowsAt(s) BY <1>1 DEF Alone, catalog, RowsAt, VisibleAt
  <2> QED BY <1>1, <2>1 DEF Answer
<1>5. Found(q)' = {x[1] : x \in {y \in Yield(F, s) : query[q].filtered => y[1] \in Matching}}
  BY <1>1, <1>2 DEF Found, Read
<1>6. ASSUME NEW r \in InlinedAt(s), query[q].filtered => r \in Matching PROVE r \in Found(q)'
  <2>1. <<r, "inlined">> \in Yield(F, s) BY DEF Yield
  <2>2. <<r, "inlined">>[1] = r OBVIOUS
  <2> QED BY <1>5, <1>6, <2>1, <2>2
<1>7. ASSUME NEW f \in F, NEW r \in RowsOf(f, s), query[q].filtered => r \in Matching PROVE r \in Found(q)'
  <2>1. <<r, f>> \in Yield(F, s) BY DEF Yield
  <2>2. <<r, f>>[1] = r OBVIOUS
  <2> QED BY <1>5, <1>7, <2>1, <2>2
<1>a. CASE Racing /\ query[q].filtered BY <1>1, <1>a
<1>8. CASE F = pruned /\ ~(Racing /\ query[q].filtered)
  <2> SUFFICES ASSUME NEW r \in Answer(q)' PROVE r \in Found(q)' OBVIOUS
  <2>1. r \in RowsAt(s) /\ (query[q].filtered => r \in Matching) BY <1>4
  <2>2. ASSUME NEW f \in DataFiles(s), r \in RowsOf(f, s) PROVE f \in F
    <3>1. r \in file[f].rows /\ f \in Files BY <2>2, Numbers DEF RowsOf, DataFiles
    <3>2. CASE query[q].step = "filtered"
      <4>1. query[q].filtered /\ (Holds(f) => f \in query[q].pruned) BY <1>8, <3>2 DEF Complete
      <4>2. Holds(f) BY <2>1, <3>1, <4>1 DEF Holds
      <4> QED BY <1>8, <4>1, <4>2
    <3>3. CASE query[q].step = "handle"
      <4>1. query[q].pruned = Files BY <3>3 DEF Complete, All
      <4> QED BY <1>8, <3>1, <4>1
    <3> QED BY <1>1, <3>2, <3>3 DEF Ready
  <2>3. r \in InlinedAt(s) \/ \E f \in DataFiles(s) : r \in RowsOf(f, s) BY <1>1, <1>3, <2>1, YieldIsComplete
  <2> QED BY <1>6, <1>7, <2>1, <2>2, <2>3
<1>9. CASE limit > 0 /\ CountServable(q) /\ RecordCount(F) >= limit
  <2>1. ~query[q].filtered /\ InlinedAt(s) = {} /\ \A f \in DataFiles(s) : ~HasDeleteFile(f, s)
    BY <1>9 DEF CountServable
  <2>2. \A f \in F : RowsOf(f, s) = file[f].rows
    <3> TAKE f \in F
    <3>1. f \in DataFiles(s) /\ f \in Files BY Numbers DEF DataFiles
    <3> QED BY <2>1, <3>1, Numbers DEF RowsOf
  <2> DEFINE R == UNION {file[f].rows : f \in F}
  <2>3. R \subseteq Found(q)' BY <1>7, <2>1, <2>2
  <2>4. Found(q)' \subseteq R
    <3> SUFFICES ASSUME NEW x \in Yield(F, s) PROVE x[1] \in R BY <1>5
    <3>1. PICK f \in F : x \in RowsOf(f, s) \X {f} BY <2>1 DEF Yield
    <3> QED BY <2>2, <3>1
  <2>5. Found(q)' = R BY <2>3, <2>4
  <2>6. F \in SUBSET DataFiles(s) OBVIOUS
  <2> HIDE DEF R
  <2>7. RecordCount(F) = Cardinality(R) BY <1>1, <1>3, <2>6, PairsCount DEF R
  <2> QED BY <1>1, <1>9, <2>5, <2>7
<1> QED BY <1>2, <1>8, <1>9, <1>a

LEMMA CompleteStep ==
  ASSUME TypeOK, Catalog, \A q \in Queries : Sound(q) /\ Complete(q), [Next]_vars
  PROVE  \A q \in Queries : Complete(q)'
<1>1. CASE Engines
  <2>1. query' = query /\ \A s \in 0..head : RowsAt(s)' = RowsAt(s) BY <1>1, EngineStep
  <2> TAKE q \in Queries
  <2>2. query[q].pin \in 0..head BY DEF Sound
  <2>3. RowsAt(query[q].pin)' = RowsAt(query[q].pin)
    <3>1. query'[q].pin = query[q].pin BY <2>1
    <3> QED BY <2>1, <2>2, <3>1 DEF RowsAt, VisibleAt
  <2>4. ASSUME query[q].step \in {"statsA", "filtered"}, ~Racing
        PROVE  /\ DataFiles(query[q].pin)' = DataFiles(query[q].pin)
               /\ \A f \in DataFiles(query[q].pin) : file'[f].rows = file[f].rows
    <3>1. ~MayRewrite BY <2>4 DEF MayRewrite, HasRead, Planned
    <3>2. \A s \in 0..head : DataFiles(s)' = DataFiles(s) /\ \A f \in DataFiles(s) : file'[f].rows = file[f].rows
      BY <1>1, <3>1, NoRewriteStep
    <3>3. query'[q].pin = query[q].pin BY <2>1
    <3>4. DataFiles(query[q].pin)' = DataFiles(query[q].pin) BY <2>2, <3>2, <3>3 DEF DataFiles
    <3> QED BY <2>2, <3>2, <3>4
  <2> QED BY <2>1, <2>3, <2>4, CompleteStays
<1>2. ASSUME UNCHANGED catalog, NEW q \in Queries, query'[q] = query[q] PROVE Complete(q)'
  <2>1. query'[q].pin = query[q].pin /\ file' = file BY <1>2 DEF catalog
  <2>2. RowsAt(query[q].pin)' = RowsAt(query[q].pin) BY <1>2, <2>1 DEF catalog, RowsAt, VisibleAt
  <2>3. DataFiles(query[q].pin)' = DataFiles(query[q].pin) BY <1>2, <2>1 DEF catalog, DataFiles
  <2> QED BY <1>2, <2>1, <2>2, <2>3, CompleteStays
<1>3. CASE UNCHANGED vars BY <1>2, <1>3 DEF vars
<1>4. ASSUME NEW q \in Queries, Planning(q) PROVE \A p \in Queries : Complete(p)'
  <2> SUFFICES Alone(q) /\ Complete(q)' BY <1>2 DEF Alone
  <2> DEFINE s == query[q].pin
  <2>1. /\ query[q].step \in {"idle", "handle"} => query[q].pruned = All
        /\ query[q].step \in {"statsA", "filtered"} =>
             query[q].filtered /\ (Racing \/ \A f \in DataFiles(s) : Holds(f) => f \in query[q].pruned)
    BY DEF Complete
  <2>2. ASSUME NEW filtered \in Filtered, NEW served \in InlinedReads, GetTableHandle(q, filtered, served)
        PROVE  Alone(q) /\ Complete(q)'
    BY <2>1, <2>2, GetTableHandleEffect DEF Complete, All
  <2>3. ASSUME NEW t \in Snapshots, ApplySnapshot(q, t) PROVE Alone(q) /\ Complete(q)'
    BY <2>1, <2>3, ApplySnapshotEffect DEF Complete, All
  <2>4. ASSUME NEW pruned, Alone(q), query[q].filtered, Prunes(q, pruned),
               query'[q].step \in {"statsA", "filtered"},
               Racing \/ \A f \in DataFiles(s) : Holds(f) => f \in pruned
        PROVE  Complete(q)'
    <3>1. query'[q].pin = s /\ query'[q].pruned = pruned /\ query'[q].filtered BY <2>4 DEF Prunes
    <3>2. DataFiles(query[q].pin)' = DataFiles(s) BY <2>4, <3>1 DEF Alone, catalog, DataFiles
    <3>3. \A f : Holds(f)' <=> Holds(f) BY <2>4 DEF Alone, catalog, Holds
    <3> QED BY <2>4, <3>1, <3>2, <3>3 DEF Complete
  <2>5. \A f \in DataFiles(s) : Holds(f) => f \in Overlapping(s, FilterA) /\ f \in Overlapping(s, FilterB)
    BY OverlapKeeps, ScanAssumption DEF Holds, Matching
  <2>6. CASE PruneFirst(q) BY <2>4, <2>5, <2>6, PruneFirstEffect
  <2>7. CASE PruneNext(q)
    <3>1. Racing \/ \A f \in DataFiles(s) : Holds(f) => f \in query[q].pruned \cap Overlapping(s, FilterB)
      BY <2>1, <2>5, <2>7, PruneNextEffect
    <3> QED BY <2>1, <2>4, <2>7, <3>1, PruneNextEffect
  <2>8. CASE NothingPushable(q)
    <3>1. \A f \in DataFiles(s) : f \in query[q].pruned
      BY <2>1, <2>8, NothingPushableEffect, Numbers DEF All, DataFiles
    <3> QED BY <2>4, <2>8, <3>1, NothingPushableEffect
  <2>9. ASSUME Alone(q), Refuses(q) PROVE Complete(q)' BY <2>9 DEF Complete, Refuses
  <2>10. CASE RefuseScan(q)
    <3>1. Alone(q) /\ Refuses(q) BY <2>10, RefusedEffect DEF RefuseScan
    <3> QED BY <2>9, <3>1
  <2>11. CASE PlanCount(q)
    <3>1. Alone(q) /\ query'[q].step = "planned" /\ query'[q].count \in Nat BY <2>11, PlanCountEffect
    <3> QED BY <3>1 DEF Complete
  <2>12. ASSUME NEW limit \in Limits, PlanScan(q, limit) PROVE Alone(q) /\ Complete(q)'
    <3>1. Alone(q) /\ query'[q].step = "planned" BY <2>12, PlanScanEffect
    <3>2. \/ Answer(q)' \subseteq Found(q)'
          \/ query'[q].limit > 0 /\ Cardinality(Found(q)') >= query'[q].limit
          \/ Racing /\ query'[q].filtered
      BY <2>12, PlanScanComplete
    <3> QED BY <3>1, <3>2 DEF Complete
  <2>13. CASE ReadProperties(q)
    <3>1. Alone(q) /\ (\/ Refuses(q)
                       \/ /\ query'[q].step = query[q].step /\ query'[q].filtered = query[q].filtered
                          /\ query'[q].limit = query[q].limit /\ query'[q].pruned = query[q].pruned
                          /\ query'[q].pin = s
                          /\ query'[q].reads = query[q].reads /\ query'[q].count = query[q].count)
      BY <2>13, ReadPropertiesEffect
    <3>2. CASE Refuses(q) BY <2>9, <3>1, <3>2
    <3>3. CASE ~Refuses(q)
      <4>1. RowsAt(query[q].pin)' = RowsAt(s) BY <3>1, <3>3 DEF Alone, catalog, RowsAt, VisibleAt
      <4>2. DataFiles(query[q].pin)' = DataFiles(s) BY <3>1, <3>3 DEF Alone, catalog, DataFiles
      <4>3. Answer(q)' = Answer(q) BY <3>1, <3>3, <4>1 DEF Answer
      <4>4. Found(q)' = Found(q) BY <3>1, <3>3 DEF Found, Read
      <4>5. \A f : Holds(f)' <=> Holds(f) BY <3>1 DEF Alone, catalog, Holds
      <4> QED BY <3>1, <3>3, <4>2, <4>3, <4>4, <4>5 DEF Complete
    <3> QED BY <3>1, <3>2, <3>3
  <2> QED BY <1>4, <2>2, <2>3, <2>6, <2>7, <2>8, <2>10, <2>11, <2>12, <2>13 DEF Planning
<1> QED BY <1>1, <1>3, <1>4 DEF Next

-----------------------------------------------------------------------------
(* THE COLUMNS OF A PLAN FIT ITS FILES                                     *)
FitsFile(q, f) == file[f].layout = "hive" <=> query[q].keys = "declared"
Scanned(q) == query[q].ranges \ {"inlined"}

Fits(q) ==
  /\ query[q].step = "idle" => query[q].keys = "unread"
  /\ Open(q) /\ query[q].keys # "unread" => \A f \in DataFiles(query[q].pin) : FitsFile(q, f)
  /\ query[q].step = "planned" => \A f \in Scanned(q) : f \in Files /\ file[f].begin # 0
  /\ query[q].step = "planned" /\ query[q].keys = "unread" => Scanned(q) \subseteq DataFiles(query[q].pin)
  /\ Planned(q) => \A f \in Scanned(q) : FitsFile(q, f)

LEMMA FitsStays ==
  ASSUME NEW q \in Queries, Fits(q), query'[q] = query[q],
         \A f \in Files : file[f].begin # 0 => file'[f].begin = file[f].begin /\ file'[f].layout = file[f].layout,
         \A f \in DataFiles(query[q].pin) : f \in Files /\ file[f].begin # 0,
         HasRead(q) /\ ~Planned(q) /\ query[q].step # "refused" => DataFiles(query[q].pin)' = DataFiles(query[q].pin)
  PROVE  Fits(q)'
<1>1. \A f \in Files : file[f].begin # 0 => (FitsFile(q, f)' <=> FitsFile(q, f)) /\ file'[f].begin # 0
  BY DEF FitsFile
<1>2. Open(q)' = Open(q) /\ Scanned(q)' = Scanned(q) /\ Planned(q)' = Planned(q) BY DEF Open, Scanned, Planned
<1>3. ASSUME Open(q), query[q].keys # "unread" PROVE \A f \in DataFiles(query[q].pin)' : FitsFile(q, f)'
  <2>1. DataFiles(query[q].pin)' = DataFiles(query[q].pin) BY <1>3 DEF HasRead, Planned, Open
  <2> QED BY <1>1, <1>3, <2>1 DEF Fits
<1>4. ASSUME query[q].step = "planned" PROVE \A f \in Scanned(q) : f \in Files /\ file'[f].begin # 0
  BY <1>1, <1>4 DEF Fits
<1>5. ASSUME query[q].step = "planned", query[q].keys = "unread" PROVE Scanned(q) \subseteq DataFiles(query[q].pin)'
  <2>1. DataFiles(query[q].pin)' = DataFiles(query[q].pin) BY <1>5 DEF HasRead, Planned
  <2> QED BY <1>5, <2>1 DEF Fits
<1>6. ASSUME Planned(q) PROVE \A f \in Scanned(q) : FitsFile(q, f)' BY <1>1, <1>6 DEF Fits, Planned
<1>7. query[q].step = "idle" => query[q].keys = "unread" BY DEF Fits
<1> QED BY <1>2, <1>3, <1>4, <1>5, <1>6, <1>7 DEF Fits

LEMMA FilesBegan ==
  ASSUME TypeOK, Catalog, NEW s, NEW f \in DataFiles(s)
  PROVE  f \in Files /\ file[f].begin # 0 /\ file[f].layout \in Layouts \cup {"native"}
BY Numbers DEF DataFiles, Catalog, Bounded

LEMMA FitsStep ==
  ASSUME TypeOK, Catalog, ~Racing, "plain" \notin Layouts, \A q \in Queries : Sound(q) /\ Fits(q), [Next]_vars
  PROVE  \A q \in Queries : Fits(q)'
<1>1. CASE Engines
  <2>1. /\ query' = query
        /\ \A f \in Files : file[f].begin # 0 => file'[f].begin = file[f].begin /\ file'[f].layout = file[f].layout
    BY <1>1, EngineStep
  <2> TAKE q \in Queries
  <2>2. query[q].pin \in 0..head BY DEF Sound
  <2>3. ASSUME HasRead(q), ~Planned(q), query[q].step # "refused"
        PROVE  DataFiles(query[q].pin)' = DataFiles(query[q].pin)
    <3>1. ~MayRewrite BY <2>3 DEF MayRewrite
    <3>2. \A s \in 0..head : DataFiles(s)' = DataFiles(s) BY <1>1, <3>1, NoRewriteStep
    <3>3. query'[q].pin = query[q].pin BY <2>1
    <3> QED BY <2>2, <3>2, <3>3 DEF DataFiles
  <2>4. \A f \in DataFiles(query[q].pin) : f \in Files /\ file[f].begin # 0 BY FilesBegan
  <2>5. Fits(q) /\ query'[q] = query[q] BY <2>1
  <2> QED BY <2>1, <2>3, <2>4, <2>5, FitsStays
<1>2. ASSUME UNCHANGED catalog, NEW q \in Queries, query'[q] = query[q] PROVE Fits(q)'
  <2>1. query'[q].pin = query[q].pin /\ file' = file BY <1>2 DEF catalog
  <2>2. DataFiles(query[q].pin)' = DataFiles(query[q].pin) BY <1>2, <2>1 DEF catalog, DataFiles
  <2>3. \A f \in DataFiles(query[q].pin) : f \in Files /\ file[f].begin # 0 BY FilesBegan
  <2> QED BY <1>2, <2>1, <2>2, <2>3, FitsStays
<1>3. CASE UNCHANGED vars BY <1>2, <1>3 DEF vars
<1>4. ASSUME NEW q \in Queries, Planning(q) PROVE \A p \in Queries : Fits(p)'
  <2> SUFFICES Alone(q) /\ Fits(q)' BY <1>2 DEF Alone
  <2> DEFINE s == query[q].pin
  <2>1. Fits(q) OBVIOUS
  <2>2. ASSUME Alone(q), query'[q].step = "handle", query'[q].keys = "unread" PROVE Fits(q)'
    BY <2>2 DEF Fits, Open, Planned
  <2>3. ASSUME NEW filtered \in Filtered, NEW served \in InlinedReads, GetTableHandle(q, filtered, served)
        PROVE  Alone(q) /\ Fits(q)'
    BY <2>2, <2>3, GetTableHandleEffect DEF Fits
  <2>4. ASSUME NEW t \in Snapshots, ApplySnapshot(q, t) PROVE Alone(q) /\ Fits(q)'
    BY <2>2, <2>4, ApplySnapshotEffect
  <2>5. ASSUME NEW pruned, Alone(q), Prunes(q, pruned), Open(q), query'[q].step \in {"statsA", "filtered"}
        PROVE  Fits(q)'
    <3>1. query'[q].pin = s /\ query'[q].keys = query[q].keys BY <2>5 DEF Prunes
    <3>2. DataFiles(query[q].pin)' = DataFiles(s) BY <2>5, <3>1 DEF Alone, catalog, DataFiles
    <3>3. \A f : FitsFile(q, f)' <=> FitsFile(q, f) BY <2>5, <3>1 DEF Alone, catalog, FitsFile
    <3>4. query[q].keys # "unread" => \A f \in DataFiles(s) : FitsFile(q, f) BY <2>5 DEF Fits
    <3> QED BY <2>5, <3>1, <3>2, <3>3, <3>4 DEF Fits, Planned
  <2>6. CASE PruneFirst(q) BY <2>5, <2>6, PruneFirstEffect DEF Open
  <2>7. CASE PruneNext(q) BY <2>5, <2>7, PruneNextEffect DEF Open
  <2>8. CASE NothingPushable(q) BY <2>5, <2>8, NothingPushableEffect DEF Open
  <2>9. ASSUME Alone(q), Refuses(q) PROVE Fits(q)' BY <2>9 DEF Fits, Refuses, Open, Planned
  <2>10. CASE RefuseScan(q)
    <3>1. Alone(q) /\ Refuses(q) BY <2>10, RefusedEffect DEF RefuseScan
    <3> QED BY <2>9, <3>1
  <2>11. ASSUME Alone(q), Ready(q), query'[q].step = "planned", query'[q].pin = s, query'[q].keys = query[q].keys,
                query'[q].ranges \ {"inlined"} \subseteq DataFiles(s)
         PROVE  Fits(q)'
    <3>1. DataFiles(query[q].pin)' = DataFiles(s) BY <2>11 DEF Alone, catalog, DataFiles
    <3>2. \A f : FitsFile(q, f)' <=> FitsFile(q, f) BY <2>11 DEF Alone, catalog, FitsFile
    <3>3. query[q].keys # "unread" => \A f \in DataFiles(s) : FitsFile(q, f)
      BY <2>11 DEF Fits, Ready, Open
    <3>4. \A f \in DataFiles(s) : f \in Files /\ file'[f].begin # 0 BY <2>11, FilesBegan DEF Alone, catalog
    <3>5. Scanned(q)' \subseteq DataFiles(s) BY <2>11 DEF Scanned
    <3> QED BY <2>11, <3>1, <3>2, <3>3, <3>4, <3>5 DEF Fits, Open, Planned
  <2>12. CASE PlanCount(q)
    <3>1. /\ Alone(q) /\ Ready(q) /\ query'[q].step = "planned" /\ query'[q].pin = s
          /\ query'[q].ranges \subseteq DataFiles(s) /\ query'[q].keys = query[q].keys
      BY <2>12, PlanCountEffect
    <3> QED BY <2>11, <3>1
  <2>13. ASSUME NEW limit \in Limits, PlanScan(q, limit) PROVE Alone(q) /\ Fits(q)'
    <3>1. /\ Alone(q) /\ Ready(q) /\ query'[q].step = "planned" /\ query'[q].pin = s
          /\ query'[q].keys = query[q].keys
      BY <2>13, PlanScanEffect
    <3>2. \E scanned \in SUBSET (DataFiles(s) \cap query[q].pruned) : query'[q].ranges \ {"inlined"} \subseteq scanned
      BY <2>13, PlanScanEffect
    <3>3. query'[q].ranges \ {"inlined"} \subseteq DataFiles(s) BY <3>2
    <3> QED BY <2>11, <3>1, <3>3
  <2>14. CASE ReadProperties(q)
    <3> DEFINE layouts == {file[f].layout : f \in DataFiles(s)}
    <3>1. Alone(q) /\ query[q].keys = "unread" /\ (Ready(q) \/ query[q].step = "planned")
      BY <2>14, ReadPropertiesEffect
    <3>2. CASE Refuses(q) BY <2>9, <3>1, <3>2
    <3>3. CASE ~Refuses(q)
      <4>1. /\ ~({"hive", "native"} \subseteq layouts)
            /\ query'[q].keys = IF "hive" \in layouts THEN "declared" ELSE "none"
            /\ query'[q].step = query[q].step /\ query'[q].pin = s /\ query'[q].ranges = query[q].ranges
        BY <2>14, <3>3, ReadPropertiesEffect
      <4>2. \A f \in DataFiles(s) : file[f].layout \in {"hive", "native"} /\ file[f].layout \in layouts
        BY FilesBegan, ScanAssumption DEF AnyLayout
      <4> HIDE DEF layouts
      <4>3. \A f \in DataFiles(s) : file[f].layout = "hive" <=> query'[q].keys = "declared" BY <4>1, <4>2
      <4>4. \A f \in DataFiles(s) : FitsFile(q, f)' BY <3>1, <4>3 DEF FitsFile, Alone, catalog
      <4>5. DataFiles(query[q].pin)' = DataFiles(s) BY <3>1, <4>1 DEF Alone, catalog, DataFiles
      <4>6. Scanned(q)' = Scanned(q) BY <4>1 DEF Scanned
      <4>7. query[q].step = "planned" => Scanned(q) \subseteq DataFiles(s) /\ \A f \in Scanned(q) : f \in Files /\ file'[f].begin # 0
        BY <3>1 DEF Fits, Alone, catalog
      <4>8. query'[q].step # "idle" /\ query'[q].keys # "unread" BY <3>1, <4>1 DEF Ready
      <4>9. \A f \in DataFiles(query[q].pin)' : FitsFile(q, f)' BY <4>4, <4>5
      <4>10. query'[q].step = "planned" =>
               /\ \A f \in Scanned(q)' : f \in Files /\ file'[f].begin # 0
               /\ \A f \in Scanned(q)' : FitsFile(q, f)'
        BY <4>1, <4>4, <4>6, <4>7
      <4> QED BY <3>1, <4>8, <4>9, <4>10 DEF Fits, Planned
    <3> QED BY <3>1, <3>2, <3>3
  <2> QED BY <1>4, <2>3, <2>4, <2>6, <2>7, <2>8, <2>10, <2>12, <2>13, <2>14 DEF Planning
<1> QED BY <1>1, <1>3, <1>4 DEF Next

-----------------------------------------------------------------------------
(* ONLY UNFILTERED QUERIES ARE COUNTED                                     *)
Counted(q) == query[q].step = "planned" /\ query[q].count # -1 => ~query[q].filtered

LEMMA CountedStep ==
  ASSUME TypeOK, Catalog, \A q \in Queries : Sound(q) /\ Counted(q), [Next]_vars
  PROVE  \A q \in Queries : Counted(q)'
<1>1. ASSUME NEW q \in Queries, query'[q] = query[q] PROVE Counted(q)' BY <1>1 DEF Counted
<1>2. CASE Engines BY <1>1, <1>2, EngineStep
<1>3. CASE UNCHANGED vars BY <1>1, <1>3 DEF vars
<1>4. ASSUME NEW q \in Queries, Planning(q) PROVE \A p \in Queries : Counted(p)'
  <2> SUFFICES Alone(q) /\ Counted(q)' BY <1>1 DEF Alone
  <2>1. Open(q) => query[q].count = -1 BY DEF Sound
  <2>2. ASSUME NEW f \in Filtered, NEW served \in InlinedReads, GetTableHandle(q, f, served)
        PROVE  Alone(q) /\ Counted(q)'
    BY <2>2, GetTableHandleEffect DEF Counted
  <2>3. ASSUME NEW t \in Snapshots, ApplySnapshot(q, t) PROVE Alone(q) /\ Counted(q)'
    BY <2>3, ApplySnapshotEffect DEF Counted
  <2>4. CASE PruneFirst(q) BY <2>4, PruneFirstEffect DEF Counted
  <2>5. CASE PruneNext(q) BY <2>5, PruneNextEffect DEF Counted
  <2>6. CASE NothingPushable(q) BY <2>6, NothingPushableEffect DEF Counted
  <2>7. CASE RefuseScan(q) BY <2>7, RefusedEffect DEF RefuseScan, Refuses, Counted
  <2>8. CASE PlanCount(q)
    <3>1. Alone(q) /\ CountServable(q) /\ query'[q].filtered = query[q].filtered BY <2>8, PlanCountEffect
    <3> QED BY <3>1 DEF CountServable, Counted
  <2>9. ASSUME NEW limit \in Limits, PlanScan(q, limit) PROVE Alone(q) /\ Counted(q)'
    <3>1. Alone(q) /\ Ready(q) /\ query'[q].count = query[q].count BY <2>9, PlanScanEffect
    <3> QED BY <2>1, <3>1 DEF Ready, Open, Counted
  <2>10. CASE ReadProperties(q)
    <3>1. Alone(q) /\ \/ Refuses(q)
                      \/ /\ query'[q].step = query[q].step /\ query'[q].filtered = query[q].filtered
                         /\ query'[q].count = query[q].count
      BY <2>10, ReadPropertiesEffect
    <3> QED BY <3>1 DEF Refuses, Counted
  <2> QED BY <1>4, <2>2, <2>3, <2>4, <2>5, <2>6, <2>7, <2>8, <2>9, <2>10 DEF Planning
<1> QED BY <1>2, <1>3, <1>4 DEF Next

-----------------------------------------------------------------------------
(* THEOREMS                                                                *)
Inv == TypeOK /\ Catalog /\ \A q \in Queries : Sound(q) /\ Complete(q) /\ Counted(q)

LEMMA AtFirst ==
  ASSUME Init
  PROVE  Inv /\ \A q \in Queries : Fits(q)
<1>1. MaxSnapshot \in Nat BY ScanAssumption
<1>2. TypeOK
  <2>1. 0 \in Snapshots BY <1>1 DEF Snapshots
  <2>2. NoFile \in FileRecord BY <2>1 DEF NoFile, FileRecord, AnyLayout
  <2>3. IdleQuery \in QueryRecord BY <2>1 DEF IdleQuery, QueryRecord, All
  <2> QED BY <2>1, <2>2, <2>3 DEF Init, TypeOK
<1>3. Catalog
  <2>1. \A s : \A r \in Rows : ~VisibleAt(r, s)
    <3> SUFFICES ASSUME NEW r \in Rows, NEW s, VisibleAt(r, s) PROVE FALSE OBVIOUS
    <3>1. born[r] = 0 BY DEF Init
    <3>2. 0 \in 1..s BY <3>1 DEF VisibleAt
    <3> QED BY <3>2
  <2>2. Bounded BY DEF Init, Bounded
  <2> QED BY <2>1, <2>2 DEF Init, Catalog, Tagged, DeadNamed, LivingSpared, OnePlace, SomePlace
<1>4. \A q \in Queries : query[q] = IdleQuery /\ head = 0 BY DEF Init
<1>5. \A q \in Queries : /\ query[q].step = "idle" /\ query[q].pin = 0 /\ query[q].pruned = All /\ query[q].reads = {}
                         /\ query[q].count = -1 /\ query[q].keys = "unread"
  BY <1>4 DEF IdleQuery
<1>6. \A q \in Queries : Sound(q) BY <1>4, <1>5 DEF Sound, Open
<1>7. \A q \in Queries : Complete(q) /\ Counted(q) BY <1>5 DEF Complete, Counted
<1>8. \A q \in Queries : Fits(q) BY <1>5 DEF Fits, Planned
<1> QED BY <1>2, <1>3, <1>6, <1>7, <1>8 DEF Inv

LEMMA InvStep ==
  ASSUME Inv, [Next]_vars
  PROVE  Inv'
<1> USE DEF Inv
<1>1. \A q \in Queries : Sound(q)' /\ Complete(q)' /\ Counted(q)' BY SoundStep, CompleteStep, CountedStep
<1>2. TypeOK' /\ Catalog'
  <2>1. CASE Engines BY <2>1, EngineStep
  <2>2. ASSUME UNCHANGED catalog PROVE Catalog'
    BY <2>2 DEF catalog, Catalog, Bounded, Tagged, DeadNamed, LivingSpared, OnePlace, SomePlace,
                Newest, EndsBefore, VisibleAt, DataFiles
  <2>3. CASE UNCHANGED vars
    <3>1. TypeOK' BY <2>3 DEF vars, catalog, TypeOK
    <3> QED BY <2>2, <2>3, <3>1 DEF vars
  <2>4. ASSUME NEW q \in Queries, Planning(q) PROVE TypeOK' /\ UNCHANGED catalog
    <3>1. ASSUME NEW filtered \in Filtered, NEW served \in InlinedReads, GetTableHandle(q, filtered, served)
          PROVE  TypeOK' /\ Alone(q)
      BY <3>1, GetTableHandleEffect
    <3>2. ASSUME NEW t \in Snapshots, ApplySnapshot(q, t) PROVE TypeOK' /\ Alone(q) BY <3>2, ApplySnapshotEffect
    <3>3. CASE PruneFirst(q) BY <3>3, PruneFirstEffect DEF Alone
    <3>4. CASE PruneNext(q) BY <3>4, PruneNextEffect DEF Alone
    <3>5. CASE NothingPushable(q) BY <3>5, NothingPushableEffect DEF Alone
    <3>6. CASE RefuseScan(q) BY <3>6, RefusedEffect DEF RefuseScan, Alone
    <3>7. CASE PlanCount(q) BY <3>7, PlanCountEffect DEF Alone
    <3>8. ASSUME NEW limit \in Limits, PlanScan(q, limit) PROVE TypeOK' /\ Alone(q) BY <3>8, PlanScanEffect
    <3>9. CASE ReadProperties(q) BY <3>9, ReadPropertiesEffect DEF Alone
    <3> QED BY <2>4, <3>1, <3>2, <3>3, <3>4, <3>5, <3>6, <3>7, <3>8, <3>9 DEF Planning, Alone
  <2> QED BY <2>1, <2>2, <2>3, <2>4 DEF Next
<1> QED BY <1>1, <1>2

LEMMA Invariant == Spec => []Inv
<1>1. Init => Inv BY AtFirst
<1>2. Inv /\ [Next]_vars => Inv' BY InvStep
<1> QED BY <1>1, <1>2, PTL DEF Spec

(* The catalog and the queries keep their types.                           *)
THEOREM ScanTypes == Spec => []TypeOK
<1>1. Inv => TypeOK BY DEF Inv
<1> QED BY <1>1, Invariant, PTL

(* No plan yields a row its pin does not have, nor one twice.              *)
THEOREM PlansAreRight == Spec => []NoWrongRows
<1>1. Inv => NoWrongRows
  <2> SUFFICES ASSUME Inv, NEW q \in Queries, query[q].step = "planned"
               PROVE  /\ {read[1] : read \in Read(q)} \subseteq Answer(q)
                      /\ \A x, y \in Read(q) : x[1] = y[1] => x = y
    BY DEF NoWrongRows
  <2>1. /\ \A x \in query[q].reads : x[1] \in RowsAt(query[q].pin)
        /\ \A x, y \in query[q].reads : x[1] = y[1] => x = y
    BY DEF Inv, Sound
  <2>2. \A x \in Read(q) : x[1] \in Answer(q) BY <2>1 DEF Read, Answer
  <2>3. \A x, y \in Read(q) : x[1] = y[1] => x = y BY <2>1 DEF Read
  <2> QED BY <2>2, <2>3
<1> QED BY <1>1, Invariant, PTL

(* A count that is served from record counts is the number of rows.        *)
THEOREM CountsAreExact == Spec => []CountExact
<1>1. Inv => CountExact BY DEF Inv, Sound, CountExact
<1> QED BY <1>1, Invariant, PTL

(* Where no rewrite runs between the reads of one query, its plan misses   *)
(* no row: pruning loses nothing and no file is overlooked.                *)
THEOREM NothingIsMissed == ASSUME ~Racing PROVE Spec => []NoMissingRows
<1>1. Inv => NoMissingRows
  <2> SUFFICES ASSUME Inv, NEW q \in Queries, query[q].step = "planned", query[q].count = -1
               PROVE  \/ Answer(q) \subseteq Found(q)
                      \/ query[q].limit > 0 /\ Cardinality(Found(q)) >= query[q].limit
    BY DEF NoMissingRows, Found
  <2> QED BY DEF Complete, Inv
<1> QED BY <1>1, Invariant, PTL

(* And where every table has its partition columns in paths or written     *)
(* under a spec, a plan declares path columns exactly if its files have    *)
(* them.                                                                   *)
THEOREM KeysFitLayouts == ASSUME ~Racing, "plain" \notin Layouts PROVE Spec => []LayoutMatches
<1> DEFINE Every == \A q \in Queries : Fits(q)
<1>1. Init => Every BY AtFirst
<1>2. Inv /\ Every /\ [Next]_vars => Every' BY FitsStep DEF Inv
<1>3. Every => LayoutMatches BY DEF LayoutMatches, Fits, FitsFile, Scanned
<1> HIDE DEF Every
<1> QED BY <1>1, <1>2, <1>3, Invariant, PTL DEF Spec

(* A read at the latest snapshot is refused for inlined data only, however *)
(* many deletes and merges there were.                                     *)
THEOREM LatestIsServed == Spec => LatestServed
<1>1. Inv /\ [Next]_vars => [\A q \in Queries : RefuseScan(q) /\ query[q].pin = head => tombs # {} \/ inlined # {}]_vars
  <2> SUFFICES ASSUME Inv, NEW q \in Queries, RefuseScan(q), query[q].pin = head, tombs = {}, inlined = {}
               PROVE  FALSE
    OBVIOUS
  <2>1. ~InlinedDeletes(head) BY DEF InlinedDeletes, TombsAt
  <2>2. ~HistoricalDeletes(head) BY DEF HistoricalDeletes
  <2>3. ~UnfilterablePartial(head)
    BY Numbers DEF UnfilterablePartial, Inv, Catalog, Bounded, DataFiles
  <2>4. ~UnservedInlined(q) BY DEF UnservedInlined, InlinedAt
  <2> QED BY <2>1, <2>2, <2>3, <2>4 DEF RefuseScan
<1> QED BY <1>1, Invariant, PTL DEF Spec, LatestServed

(* Where no rewrite runs between the reads of one query, the ids that it   *)
(* has pruned to name every file of its pin with a match, at every step    *)
(* until planScan uses them.                                               *)
THEOREM QueriesKeepMatches == ASSUME ~Racing PROVE Spec => []PruningKeepsMatches
<1>1. Inv => PruningKeepsMatches
  <2> SUFFICES ASSUME Inv, NEW q \in Queries, query[q].step \in {"statsA", "filtered"},
                      NEW f \in DataFiles(query[q].pin), file[f].rows \cap Matching # {}
               PROVE  f \in query[q].pruned
    BY PruningIsSafe DEF PruningKeepsMatches
  <2> QED BY DEF Inv, Complete, Holds
<1> QED BY <1>1, Invariant, PTL

-----------------------------------------------------------------------------
(* THE REFINEMENT                                                          *)
historyBar  == [s \in 0..head |-> RowsAt(s)]
pinBar      == [q \in Queries |-> query[q].pin]
filteredBar == [q \in Queries |-> query[q].filtered]
answerBar   == [q \in Queries |-> Told(q)]

Awaits(q) == query[q].step \notin {"idle", "refused"} /\ ~Planned(q)

(* What a query was told, case by case.                                    *)
LEMMA ToldIs ==
  ASSUME NEW q
  PROVE  /\ query[q].step = "idle" => Told(q) = Reads!Said("unasked")
         /\ query[q].step = "refused" => Told(q) = Reads!Said("refused")
         /\ Awaits(q) => Told(q) = Reads!Said("open")
         /\ Planned(q) /\ query[q].count = -1 =>
              Told(q) = Reads!Answered("rows", Found(q), Cardinality(Read(q)), query[q].limit)
         /\ Planned(q) /\ query[q].count # -1 => Told(q) = Reads!Answered("count", {}, query[q].count, 0)
BY DEF Told, Awaits, Planned, Found, Reads!Said, Reads!Answered

(* And what it is told next.                                               *)
LEMMA ToldNext ==
  ASSUME NEW q
  PROVE  /\ query'[q].step = "refused" => Told(q)' = Reads!Said("refused")
         /\ Awaits(q)' => Told(q)' = Reads!Said("open")
         /\ Planned(q)' /\ query'[q].count = -1 =>
              Told(q)' = Reads!Answered("rows", Found(q)', Cardinality(Read(q)'), query'[q].limit)
         /\ Planned(q)' /\ query'[q].count # -1 => Told(q)' = Reads!Answered("count", {}, query'[q].count, 0)
BY DEF Told, Awaits, Planned, Found, Reads!Said, Reads!Answered

(* A row that comes once is counted once.                                  *)
LEMMA EachOnce ==
  ASSUME TypeOK, NEW q \in Queries, Sound(q), query[q].step = "planned"
  PROVE  Cardinality(Read(q)) = Cardinality(Found(q))
<1> DEFINE P == Read(q)
           row == [x \in P |-> x[1]]
<1>1. P \in SUBSET (Rows \X (Files \cup {"inlined"})) BY DEF Read, TypeOK, QueryRecord
<1>2. \A x, y \in P : x[1] = y[1] => x = y BY DEF Read, Sound
<1>3. Found(q) = {x[1] : x \in P} BY DEF Found
<1>4. IsFiniteSet(P)
  <2>1. IsFiniteSet(Rows) BY ScanAssumption, PruningAssumption, FS_Subset
  <2>2. IsFiniteSet(Files \cup {"inlined"}) BY ScanAssumption, FS_AddElement
  <2>3. IsFiniteSet(Rows \X (Files \cup {"inlined"})) BY <2>1, <2>2, FS_Product
  <2> HIDE DEF P
  <2> QED BY <1>1, <2>3, FS_Subset
<1> HIDE DEF P
<1>5. row \in Bijection(P, Found(q)) BY <1>2, <1>3 DEF Bijection, Injection, Surjection, IsInjective
<1>6. ExistsBijection(P, Found(q)) BY <1>5 DEF ExistsBijection
<1>7. Cardinality(Found(q)) = Cardinality(P) BY <1>4, <1>6, FS_Bijection
<1> QED BY <1>7 DEF P

LEMMA SameCardinality == \A S : Reads!Cardinality(S) = Cardinality(S)
BY DEF Reads!Cardinality, Cardinality

(* What a planned query was told is right of the snapshot that it pinned.  *)
Right ==
  \A q \in Queries : query[q].step = "planned" =>
    /\ query[q].count = -1 =>
         /\ Found(q) \subseteq Answer(q) /\ Cardinality(Read(q)) = Cardinality(Found(q))
         /\ \/ Found(q) = Answer(q)
            \/ query[q].limit > 0 /\ Cardinality(Found(q)) >= query[q].limit
            \/ Racing /\ query[q].filtered
         /\ query[q].limit \in Limits \cup {0} /\ Answer(q) \subseteq Rows
    /\ query[q].count # -1 => ~query[q].filtered /\ query[q].count = Cardinality(RowsAt(query[q].pin))
    /\ query[q].pin \in 0..head

LEMMA ToldRight == Inv => Right
<1> SUFFICES ASSUME Inv, NEW q \in Queries, query[q].step = "planned"
             PROVE  /\ query[q].count = -1 =>
                         /\ Found(q) \subseteq Answer(q) /\ Cardinality(Read(q)) = Cardinality(Found(q))
                         /\ \/ Found(q) = Answer(q)
                            \/ query[q].limit > 0 /\ Cardinality(Found(q)) >= query[q].limit
                            \/ Racing /\ query[q].filtered
                         /\ query[q].limit \in Limits \cup {0} /\ Answer(q) \subseteq Rows
                    /\ query[q].count # -1 =>
                         ~query[q].filtered /\ query[q].count = Cardinality(RowsAt(query[q].pin))
                    /\ query[q].pin \in 0..head
  BY DEF Right
<1>1. Cardinality(Read(q)) = Cardinality(Found(q)) BY EachOnce DEF Inv
<1>2. Found(q) \subseteq Answer(q) BY DEF Inv, Sound, Found, Read, Answer
<1>3. query[q].limit \in Limits \cup {0} BY DEF Inv, TypeOK, QueryRecord
<1>4. query[q].count # -1 => ~query[q].filtered /\ query[q].count = Cardinality(RowsAt(query[q].pin))
  BY DEF Inv, Sound, Counted
<1>5. query[q].count = -1 =>
        \/ Answer(q) \subseteq Found(q)
        \/ query[q].limit > 0 /\ Cardinality(Found(q)) >= query[q].limit
        \/ Racing /\ query[q].filtered
  BY DEF Inv, Complete
<1>6. Answer(q) \subseteq Rows BY DEF Answer, RowsAt
<1>7. query[q].pin \in 0..head BY DEF Inv, Sound
<1> QED BY <1>1, <1>2, <1>3, <1>4, <1>5, <1>6, <1>7

(* A call that leaves a query its snapshot changes at most what it is told.*)
Stays(q) == Alone(q) /\ query'[q].pin = query[q].pin /\ query'[q].filtered = query[q].filtered

LEMMA BarsAlone ==
  ASSUME NEW q \in Queries, Alone(q)
  PROVE  /\ head' = head /\ historyBar' = historyBar
         /\ pinBar' = [pinBar EXCEPT ![q] = query'[q].pin]
         /\ filteredBar' = [filteredBar EXCEPT ![q] = query'[q].filtered]
         /\ answerBar' = [answerBar EXCEPT ![q] = Told(q)']
<1>1. head' = head /\ \A s : RowsAt(s)' = RowsAt(s) BY AloneRows DEF Alone
<1>2. historyBar' = historyBar BY <1>1 DEF historyBar
<1>3. \A p \in Queries : p # q => query'[p] = query[p] BY DEF Alone
<1>4. \A p \in Queries : p # q => Told(p)' = Told(p) BY <1>3 DEF Told, Planned, Read
<1> QED BY <1>1, <1>2, <1>3, <1>4 DEF pinBar, filteredBar, answerBar

LEMMA TellStep ==
  ASSUME NEW q \in Queries, Stays(q), Told(q) = Reads!Said("open")
  PROVE  Reads!Tell(q, Told(q)')
<1>1. pinBar' = pinBar /\ filteredBar' = filteredBar
  BY BarsAlone DEF Stays, pinBar, filteredBar
<1>2. answerBar[q] = Reads!Said("open") BY DEF answerBar
<1> QED BY <1>1, <1>2, BarsAlone DEF Stays, Reads!Tell, historyBar, pinBar, filteredBar, answerBar

LEMMA MuteStep ==
  ASSUME NEW q \in Queries, Stays(q), Told(q)' = Told(q)
  PROVE  UNCHANGED Reads!vars
<1>1. pinBar' = pinBar /\ filteredBar' = filteredBar /\ answerBar' = answerBar
  BY BarsAlone DEF Stays, pinBar, filteredBar, answerBar
<1> QED BY <1>1, BarsAlone DEF Stays, Reads!vars, historyBar, pinBar, filteredBar, answerBar

(* The step after which a query has both its plan and its properties.      *)
LEMMA AnswerStep ==
  ASSUME NEW q \in Queries, Stays(q), Awaits(q), Planned(q)', Right'
  PROVE  \/ \E R \in SUBSET Rows, limit \in Limits \cup {0} : Reads!TellRows(q, R, limit)
         \/ Reads!TellCount(q)
<1> DEFINE s == query[q].pin
<1>1. Reads!Tell(q, Told(q)') BY ToldIs, TellStep
<1>2. query'[q].step = "planned" BY DEF Planned
<1>3. s \in 0..head /\ RowsAt(query[q].pin)' = RowsAt(s) /\ historyBar[s] = RowsAt(s)
  BY <1>2, AloneRows DEF Right, Stays, Alone, catalog, historyBar, RowsAt, VisibleAt
<1>4. Answer(q)' = IF query[q].filtered THEN RowsAt(s) \cap Matching ELSE RowsAt(s)
  BY <1>3 DEF Answer, Stays
<1>5. Reads!Wanted(q) = Answer(q)'
  BY <1>3, <1>4 DEF Reads!Wanted, historyBar
<1>6. CASE query'[q].count = -1
  <2> DEFINE R == Found(q)'
             limit == query'[q].limit
  <2>1. /\ R \subseteq Answer(q)' /\ Cardinality(Read(q)') = Cardinality(R)
        /\ R = Answer(q)' \/ (limit > 0 /\ Cardinality(R) >= limit) \/ (Racing /\ query[q].filtered)
        /\ limit \in Limits \cup {0} /\ R \subseteq Rows
    BY <1>2, <1>6 DEF Right, Stays
  <2>2. Told(q)' = Reads!Answered("rows", R, Cardinality(Read(q)'), limit)
    BY <1>6, ToldNext
  <2> HIDE DEF R, limit
  <2>3. Reads!Tell(q, Reads!Answered("rows", R, Cardinality(R), limit)) BY <1>1, <2>1, <2>2
  <2>4. filteredBar[q] = query[q].filtered BY DEF filteredBar
  <2>5. Reads!TellRows(q, R, limit) BY <1>5, <2>1, <2>3, <2>4, SameCardinality DEF Reads!TellRows, filteredBar
  <2> QED BY <2>1, <2>5
<1>7. CASE query'[q].count # -1
  <2>1. ~query[q].filtered /\ query'[q].count = Cardinality(RowsAt(s))
    BY <1>2, <1>3, <1>7 DEF Right, Stays
  <2>2. Told(q)' = Reads!Answered("count", {}, Cardinality(RowsAt(s)), 0)
    BY <1>7, <2>1, ToldNext
  <2>3. pinBar[q] = s /\ filteredBar[q] = query[q].filtered BY DEF pinBar, filteredBar
  <2> QED BY <1>1, <1>3, <2>1, <2>2, <2>3, SameCardinality DEF Reads!TellCount, historyBar, pinBar, filteredBar
<1> QED BY <1>6, <1>7

(* Every step is a step of SnapshotReads or leaves its state alone.        *)
LEMMA StepRefines == Inv /\ Right' /\ [Next]_vars => [Reads!Next]_(Reads!vars)
<1> SUFFICES ASSUME Inv, Right', [Next]_vars PROVE Reads!Next \/ UNCHANGED Reads!vars OBVIOUS
<1> USE DEF Inv
<1>1. ASSUME UNCHANGED vars PROVE UNCHANGED Reads!vars
  <2>1. UNCHANGED catalog /\ query' = query BY <1>1 DEF vars
  <2>2. historyBar' = historyBar /\ head' = head BY <2>1, AloneRows DEF historyBar
  <2>3. answerBar' = answerBar BY <2>1 DEF answerBar, Told, Planned, Read
  <2> QED BY <2>1, <2>2, <2>3 DEF Reads!vars, historyBar, answerBar
<1>2. ASSUME Engines PROVE Reads!Commit
  <2>1. query' = query /\ head' = head + 1 /\ head \in Nat /\ \A s \in 0..head : RowsAt(s)' = RowsAt(s)
    BY <1>2, EngineStep
  <2> DEFINE R == RowsAt(head)'
  <2>2. R \in SUBSET Rows BY DEF RowsAt
  <2>3. historyBar' = [s \in 0..head + 1 |-> IF s = head + 1 THEN R ELSE historyBar[s]]
    <3>1. historyBar' = [s \in 0..head + 1 |-> RowsAt(s)'] BY <2>1 DEF historyBar, RowsAt, VisibleAt
    <3>2. \A s \in 0..head + 1 : RowsAt(s)' = IF s = head + 1 THEN R ELSE historyBar[s]
      <4> TAKE s \in 0..head + 1
      <4>1. CASE s = head + 1 BY <2>1, <4>1 DEF RowsAt, VisibleAt
      <4>2. CASE s # head + 1
        <5>1. s \in 0..head BY <2>1, <4>2
        <5> QED BY <2>1, <4>2, <5>1 DEF historyBar
      <4> QED BY <4>1, <4>2
    <3> QED BY <3>1, <3>2
  <2>4. answerBar' = answerBar BY <2>1 DEF answerBar, Told, Planned, Read
  <2> HIDE DEF R
  <2> QED BY <2>1, <2>2, <2>3, <2>4 DEF Reads!Commit, historyBar, answerBar
<1>3. ASSUME NEW q \in Queries, Planning(q) PROVE Reads!Next \/ UNCHANGED Reads!vars
  <2>1. ASSUME NEW f \in Filtered, NEW served \in InlinedReads, GetTableHandle(q, f, served) PROVE Reads!Begin(q)
    <3>1. /\ Alone(q) /\ query[q].step = "idle" /\ query'[q].step = "handle" /\ query'[q].pin = head
          /\ query'[q].filtered \in BOOLEAN
      BY <2>1, GetTableHandleEffect DEF TypeOK, QueryRecord
    <3>2. Told(q) = Reads!Said("unasked") BY <3>1, ToldIs
    <3>3. Told(q)' = Reads!Said("open") BY <3>1, ToldNext DEF Awaits, Planned
    <3>4. answerBar[q] = Told(q) BY DEF answerBar
    <3> QED BY <3>1, <3>2, <3>3, <3>4, BarsAlone DEF Reads!Begin, historyBar, pinBar, filteredBar, answerBar
  <2>2. ASSUME NEW s \in Snapshots, ApplySnapshot(q, s) PROVE Reads!Next
    <3>1. /\ Alone(q) /\ query[q].step = "handle" /\ query'[q].step = "handle" /\ query'[q].pin = s
          /\ s \in 0..head /\ query'[q].filtered = query[q].filtered
      BY <2>2, ApplySnapshotEffect
    <3>2. Told(q) = Reads!Said("open") BY <3>1, ToldIs DEF Awaits, Planned
    <3>3. Told(q)' = Reads!Said("open") BY <3>1, ToldNext DEF Awaits, Planned
    <3>4. answerBar[q] = Told(q) BY DEF answerBar
    <3>5. filteredBar' = filteredBar /\ answerBar' = answerBar
      BY <3>1, <3>2, <3>3, BarsAlone DEF filteredBar, answerBar
    <3>6. Reads!TravelTo(q, s)
      BY <3>1, <3>2, <3>4, <3>5, BarsAlone DEF Reads!TravelTo, historyBar, pinBar, filteredBar, answerBar
    <3> QED BY <3>1, <3>6 DEF Reads!Next
  <2>3. ASSUME Stays(q), Awaits(q), query'[q].step \notin {"idle", "refused"} PROVE Reads!Next \/ UNCHANGED Reads!vars
    <3>1. CASE Planned(q)' BY <2>3, <3>1, AnswerStep DEF Reads!Next
    <3>2. CASE ~Planned(q)'
      <4>1. Told(q)' = Reads!Said("open") BY <2>3, <3>2, ToldNext DEF Awaits
      <4> QED BY <2>3, <4>1, ToldIs, MuteStep
    <3> QED BY <3>1, <3>2
  <2>4. ASSUME Alone(q), Refuses(q), Awaits(q) PROVE Reads!Refuse(q)
    <3>1. Stays(q) BY <2>4 DEF Stays, Refuses
    <3>2. Told(q)' = Reads!Said("refused") BY <2>4, ToldNext DEF Refuses
    <3> QED BY <2>4, <3>1, <3>2, ToldIs, TellStep DEF Reads!Refuse
  <2>5. ASSUME PruneFirst(q) \/ PruneNext(q) \/ NothingPushable(q) PROVE Reads!Next \/ UNCHANGED Reads!vars
    <3>1. \E pruned : Alone(q) /\ Prunes(q, pruned) BY <2>5, PruneFirstEffect, PruneNextEffect, NothingPushableEffect
    <3>2. query[q].step \in {"handle", "statsA"} /\ query'[q].step \in {"statsA", "filtered"}
      BY <2>5, PruneFirstEffect, PruneNextEffect, NothingPushableEffect
    <3>3. Stays(q) /\ Awaits(q) BY <3>1, <3>2 DEF Stays, Prunes, Awaits, Planned
    <3> QED BY <2>3, <3>2, <3>3
  <2>6. Ready(q) => Awaits(q) BY DEF Ready, Awaits, Planned
  <2>7. CASE RefuseScan(q)
    <3>1. Alone(q) /\ Refuses(q) /\ Ready(q) BY <2>7, RefusedEffect DEF RefuseScan
    <3> QED BY <2>4, <2>6, <3>1 DEF Reads!Next
  <2>8. CASE PlanCount(q)
    <3>1. Stays(q) /\ Ready(q) /\ query'[q].step = "planned" BY <2>8, PlanCountEffect DEF Stays
    <3> QED BY <2>3, <2>6, <3>1
  <2>9. ASSUME NEW limit \in Limits, PlanScan(q, limit) PROVE Reads!Next \/ UNCHANGED Reads!vars
    <3>1. Stays(q) /\ Ready(q) /\ query'[q].step = "planned" BY <2>9, PlanScanEffect DEF Stays
    <3> QED BY <2>3, <2>6, <3>1
  <2>10. CASE ReadProperties(q)
    <3>1. Alone(q) /\ query[q].keys = "unread" /\ (Ready(q) \/ query[q].step = "planned")
      BY <2>10, ReadPropertiesEffect
    <3>2. Awaits(q) BY <2>6, <3>1 DEF Awaits, Planned
    <3>3. CASE Refuses(q) BY <2>4, <3>1, <3>2, <3>3 DEF Reads!Next
    <3>4. CASE ~Refuses(q)
      <4>1. Stays(q) /\ query'[q].step = query[q].step BY <2>10, <3>4, ReadPropertiesEffect DEF Stays
      <4> QED BY <2>3, <3>2, <4>1 DEF Awaits
    <3> QED BY <3>3, <3>4
  <2> QED BY <1>3, <2>1, <2>2, <2>5, <2>7, <2>8, <2>9, <2>10 DEF Planning, Reads!Next
<1> QED BY <1>1, <1>2, <1>3 DEF Next, Reads!Next

(* Whatever other engines do between the calls of a query, it is answered  *)
(* from one committed snapshot, exactly; only a filter can lose rows, and  *)
(* only where a rewrite may run between its reads.                         *)
THEOREM ImplementsSnapshotReads == Spec => ReadsOfSnapshots
<1>1. Init => Reads!Init
  <2> SUFFICES ASSUME Init PROVE Reads!Init OBVIOUS
  <2>1. head = 0 /\ \A q \in Queries : query[q] = IdleQuery BY DEF Init
  <2>2. \A q \in Queries : query[q].step = "idle" /\ query[q].pin = 0 /\ query[q].filtered = FALSE
    BY <2>1 DEF IdleQuery
  <2>3. \A q \in Queries : Told(q) = Reads!Said("unasked") BY <2>2, ToldIs
  <2>4. RowsAt(0) = {} BY DEF Init, RowsAt, VisibleAt
  <2>5. historyBar = [s \in {0} |-> {}]
    <3>1. 0..head = {0} BY <2>1
    <3> QED BY <2>4, <3>1 DEF historyBar
  <2> QED BY <2>1, <2>2, <2>3, <2>5 DEF Reads!Init, historyBar
<1> QED BY <1>1, Invariant, ToldRight, StepRefines, PTL DEF Spec, ReadsOfSnapshots, Reads!Spec
=============================================================================
