---------------------------- MODULE SnapshotReads ----------------------------
(***************************************************************************)
(* What a query is promised, with no files, statistics or inlined data in  *)
(* sight: a history of snapshots of which none ever changes, and an answer *)
(* that is made of one of them.                                            *)
(***************************************************************************)
EXTENDS Naturals, FiniteSets

CONSTANTS
  Rows,      \* the rows that are ever inserted
  Queries,
  Matching,  \* the rows for which the filter is true
  Limits,    \* LIMIT values, 0 for none
  Lossy      \* whether an answer to a filter may be incomplete

VARIABLES
  head,      \* the latest snapshot
  history,   \* history[s]: the rows of snapshot s
  pin,       \* pin[q]: the snapshot that query q reads
  filtered,  \* filtered[q]: whether it has the filter
  answer     \* answer[q]: what it was told

vars == <<head, history, pin, filtered, answer>>

(* size: how many rows the backend gets, which counts what comes twice.    *)
Answered(is, rows, size, limit) == [is |-> is, rows |-> rows, size |-> size, limit |-> limit]
Said(is) == Answered(is, {}, 0, 0)

Init ==
  /\ head = 0 /\ history = [s \in {0} |-> {}]
  /\ pin = [q \in Queries |-> 0]
  /\ filtered = [q \in Queries |-> FALSE]
  /\ answer = [q \in Queries |-> Said("unasked")]

(* Other engines append snapshots; those there are stay as they are.       *)
Commit ==
  /\ head' = head + 1
  /\ \E R \in SUBSET Rows :
       history' = [s \in 0..head + 1 |-> IF s = head + 1 THEN R ELSE history[s]]
  /\ UNCHANGED <<pin, filtered, answer>>

(* A query begins at the latest snapshot, which time travel may change.    *)
Begin(q) ==
  /\ answer[q] = Said("unasked")
  /\ \E f \in BOOLEAN : filtered' = [filtered EXCEPT ![q] = f]
  /\ pin' = [pin EXCEPT ![q] = head]
  /\ answer' = [answer EXCEPT ![q] = Said("open")]
  /\ UNCHANGED <<head, history>>

TravelTo(q, s) ==
  /\ answer[q] = Said("open")
  /\ pin' = [pin EXCEPT ![q] = s]
  /\ UNCHANGED <<head, history, filtered, answer>>

Tell(q, told) ==
  /\ answer[q] = Said("open")
  /\ answer' = [answer EXCEPT ![q] = told]
  /\ UNCHANGED <<head, history, pin, filtered>>

Wanted(q) == IF filtered[q] THEN history[pin[q]] \cap Matching ELSE history[pin[q]]

(* The rows of the snapshot, each once: all of them, or enough for a limit.*)
TellRows(q, R, limit) ==
  /\ Tell(q, Answered("rows", R, Cardinality(R), limit))
  /\ R \subseteq Wanted(q)
  /\ R = Wanted(q) \/ (limit > 0 /\ Cardinality(R) >= limit) \/ (Lossy /\ filtered[q])

TellCount(q) ==
  /\ ~filtered[q]
  /\ Tell(q, Answered("count", {}, Cardinality(history[pin[q]]), 0))

Refuse(q) == Tell(q, Said("refused"))

Next ==
  \/ Commit
  \/ \E q \in Queries :
       \/ Begin(q)
       \/ \E s \in 0..head : TravelTo(q, s)
       \/ TellCount(q)
       \/ Refuse(q)
       \/ \E R \in SUBSET Rows, limit \in Limits \cup {0} : TellRows(q, R, limit)

Spec == Init /\ [][Next]_vars
=============================================================================
