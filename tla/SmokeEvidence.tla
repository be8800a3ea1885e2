--------------------------- MODULE SmokeEvidence ---------------------------
(***************************************************************************)
(* How smoke_checks.py judges one required case of the smoke: the rows the *)
(* FE answers against the native reference, and what the three procedures  *)
(* that remove things report against what the catalog and the object store *)
(* then say.  The store is asked through mc, whose reply may be an error.  *)
(*                                                                         *)
(* The other cases of REQUIRED are judged like one of these.  A case is    *)
(* "right" when the system really is as the case demands; the judgement is *)
(* "passed", "failed", or "raises" when nothing gets recorded.             *)
(***************************************************************************)
EXTENDS Integers, Sequences, FiniteSets

Cases == {"rows", "expiry", "cleanup", "orphans", "fixture_cleanup"}
Judgements == {"passed", "failed", "raises"}
Judge(ok) == IF ok THEN "passed" ELSE "failed"

-----------------------------------------------------------------------------
(* THE OBJECT STORE                                                        *)
Objects == {"present", "gone"}
(* mc stat: success; exit code 0 without success; an error with the code   *)
(* of a missing key; the error without a code that mc makes of it; others. *)
(* mc ls, asked when the stat failed: empty, not empty, or an error.       *)
Stats == {"success", "odd", "missing", "normalized", "error"}
Listings == {"empty", "some", "failed"}

(* What mc may say of an object: only its message without a code and its   *)
(* errors can be said of any.                                              *)
Replies(object) ==
  {r \in [stat: Stats, listing: Listings] :
     /\ (r.stat = "success" \/ r.listing = "some") => object = "present"
     /\ (r.stat = "missing" \/ r.listing = "empty") => object = "gone"}

(* Mutants of object_state: the message alone is believed; any failed stat *)
(* is an absent object.                                                    *)
StateByMessage(r) ==
  IF r.stat = "success" THEN "present"
  ELSE IF r.stat \in {"missing", "normalized"} THEN "gone" ELSE "unknown"
StateByExitCode(r) == IF r.stat = "success" THEN "present" ELSE "gone"
object_state(r) ==
  IF r.stat = "success" THEN "present"
  ELSE IF r.stat = "missing" \/ (r.stat = "normalized" /\ r.listing = "empty") THEN "gone"
  ELSE "unknown"

(* An object and what the driver gets to know of it.                       *)
Sights == UNION {{[is |-> o, seen |-> object_state(r)] : r \in Replies(o)} : o \in Objects}

-----------------------------------------------------------------------------
(* THE CASES                                                               *)
(* A value has a type: 1, 1.0 and true are not the same, though Python     *)
(* takes them for equal.                                                   *)
Values == [value: {1, 2}, type: {"int", "other"}]
SameValue(a, e) == a.value = e.value
exact(a, e) == a.type = e.type /\ a.value = e.value

(* The reference may be malformed, which validate_policy refuses.          *)
RowsJudged ==
  UNION {{[right |-> a = e, as |-> IF e.type = "int" THEN Judge(exact(a, e)) ELSE "raises"]
            : a \in Values} : e \in Values}

(* expire_snapshots: the row it returns is of a real run; the ids are told *)
(* once each; as many snapshots have gone from the catalog.                *)
Ids(row) == {row.ids[i] : i \in DOMAIN row.ids}
procedure(row) == ~row.dry /\ row.count = Len(row.ids) /\ row.count = Cardinality(Ids(row))
ProcedureByCount(row) == ~row.dry /\ row.count = Len(row.ids)
Expired(expired, before, after) == expired >= 1 /\ after >= 1 /\ before - after = expired
ExpiryRows == [dry: BOOLEAN, count: 0..2, ids: {<<>>, <<1>>, <<1, 1>>, <<1, 2>>}]
ExpiryJudged ==
  {[right |-> ~w.row.dry /\ Ids(w.row) # {} /\ w.after >= 1 /\ w.before - w.after = Cardinality(Ids(w.row)),
    as |-> IF procedure(w.row) THEN Judge(Expired(w.row.count, w.before, w.after)) ELSE "raises"]
     : w \in [row: ExpiryRows, before: 1..3, after: 0..3]}

(* cleanup_old_files and remove_orphan_files return how many files they    *)
(* deleted and how many they failed to; neither count is believed alone.   *)
Counts == [deleted: 0..1, failed: 0..1]
Done(n) == n.deleted >= 1 /\ n.failed = 0
CleanedUp(n, blob, schedule) == Done(n) /\ blob = "gone" /\ schedule = 0
CleanupJudged ==
  {[right |-> w.blob.is = "gone" /\ w.schedule = 0,
    as |-> IF w.blob.seen = "unknown" THEN "raises" ELSE Judge(CleanedUp(w.n, w.blob.seen, w.schedule))]
     : w \in [n: Counts, blob: Sights, schedule: 0..1]}

(* Objects that are no orphans, for lack of a managed name, must stay.     *)
SweptClean(n, orphan, success, foreign) ==
  Done(n) /\ orphan = "gone" /\ success = "present" /\ foreign = "present"
OrphansJudged ==
  {[right |-> w.orphan.is = "gone" /\ w.success.is = "present" /\ w.foreign.is = "present",
    as |-> IF "unknown" \in {w.orphan.seen, w.success.seen, w.foreign.seen} THEN "raises"
           ELSE Judge(SweptClean(w.n, w.orphan.seen, w.success.seen, w.foreign.seen))]
     : w \in [n: Counts, orphan: Sights, success: Sights, foreign: Sights]}

(* The markers of the smoke itself are removed; one that is not seen to be *)
(* gone ends the driver.                                                   *)
FixtureJudged ==
  {[right |-> \A i \in 1..3 : marker[i].is = "gone",
    as |-> IF \A i \in 1..3 : marker[i].seen = "gone" THEN "passed" ELSE "raises"]
     : marker \in [1..3 -> Sights]}

(* What an observation of a case may be, and how it is judged.             *)
Observations ==
  [c \in Cases |-> CASE c = "rows" -> RowsJudged
                     [] c = "expiry" -> ExpiryJudged
                     [] c = "cleanup" -> CleanupJudged
                     [] c = "orphans" -> OrphansJudged
                     [] c = "fixture_cleanup" -> FixtureJudged]
=============================================================================
