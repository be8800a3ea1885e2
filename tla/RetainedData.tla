---------------------------- MODULE RetainedData ----------------------------
(***************************************************************************)
(* What retention promises, with no schedule, sessions, sweeps or clock in *)
(* sight: snapshots come and go but are never changed, a file may leave    *)
(* the store only when no snapshot that is left has it and no query whose  *)
(* grace is not over still plans to read it.                               *)
(***************************************************************************)
EXTENDS Naturals

CONSTANTS
  Files,
  Queries

VARIABLES
  head,     \* the latest snapshot
  content,  \* content[s]: the files of a retained snapshot s
  stored,   \* the files that are in the store
  plan,     \* plan[q]: the files that query q has yet to read
  fresh     \* the queries whose grace is not over

vars == <<head, content, stored, plan, fresh>>

Init ==
  /\ head = 0 /\ content = [s \in {0} |-> {}]
  /\ stored = {}
  /\ plan = [q \in Queries |-> {}] /\ fresh = {}

Write ==
  /\ UNCHANGED <<head, content, plan, fresh>>
  /\ \E new \in SUBSET Files : stored' = stored \cup new

(* A commit adds a snapshot of files that are there.                       *)
Commit ==
  /\ UNCHANGED <<stored, plan, fresh>>
  /\ head' = head + 1
  /\ \E F \in SUBSET stored :
       content' = [s \in DOMAIN content \cup {head + 1} |->
                     IF s = head + 1 THEN F ELSE content[s]]

(* Any snapshots but the latest may go.                                    *)
Expire ==
  /\ UNCHANGED <<head, stored, plan, fresh>>
  /\ \E S \in SUBSET (DOMAIN content \ {head}) :
       content' = [s \in DOMAIN content \ S |-> content[s]]

Needed == (UNION {content[s] : s \in DOMAIN content}) \cup (UNION {plan[q] : q \in fresh})

Reclaim ==
  /\ UNCHANGED <<head, content, plan, fresh>>
  /\ \E F \in SUBSET stored : F \cap Needed = {} /\ stored' = stored \ F

Plan(q) ==
  /\ UNCHANGED <<head, content, stored>>
  /\ plan[q] = {}
  /\ \E s \in DOMAIN content : plan' = [plan EXCEPT ![q] = content[s]]
  /\ fresh' = fresh \cup {q}

Finish(q) ==
  /\ plan' = [plan EXCEPT ![q] = {}]
  /\ fresh' = fresh \ {q}
  /\ UNCHANGED <<head, content, stored>>

(* Time passes, and with it the grace of some queries.                     *)
Age ==
  /\ fresh' \in SUBSET fresh
  /\ UNCHANGED <<head, content, stored, plan>>

Next ==
  \/ Write \/ Commit \/ Expire \/ Reclaim \/ Age
  \/ \E q \in Queries : Plan(q) \/ Finish(q)

Spec == Init /\ [][Next]_vars
=============================================================================
