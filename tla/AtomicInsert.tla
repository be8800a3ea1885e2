---------------------------- MODULE AtomicInsert ----------------------------
(***************************************************************************)
(* What an INSERT promises: its files appear in the table all at once or   *)
(* never; a client that was told of success sees them, one that was told   *)
(* of failure never will, and one left in doubt may see either.            *)
(***************************************************************************)
CONSTANTS
  Stmts,    \* INSERT statements
  Output    \* Output[s]: the files statement s writes

VARIABLES
  visible,  \* visible[s]: the files of s that the table has
  told      \* told[s]: what the client of s knows

vars == <<visible, told>>

Init ==
  /\ visible = [s \in Stmts |-> {}]
  /\ told = [s \in Stmts |-> "open"]

Publish(s) ==
  /\ told[s] \in {"open", "doubt"} /\ visible[s] = {}
  /\ visible' = [visible EXCEPT ![s] = Output[s]]
  /\ UNCHANGED told

Tell(s, answer) ==
  /\ told[s] = "open"
  /\ told' = [told EXCEPT ![s] = answer]
  /\ UNCHANGED visible

Succeed(s) == visible[s] = Output[s] /\ Tell(s, "ok")
Refuse(s) == visible[s] = {} /\ Tell(s, "failed")

(* The front end dies and leaves all its clients in doubt.                 *)
LeaveInDoubt ==
  /\ \E S \in SUBSET {s \in Stmts : told[s] = "open"} :
       told' = [s \in Stmts |-> IF s \in S THEN "doubt" ELSE told[s]]
  /\ UNCHANGED visible

Next == (\E s \in Stmts : Publish(s) \/ Succeed(s) \/ Refuse(s)) \/ LeaveInDoubt

Spec == Init /\ [][Next]_vars
=============================================================================
