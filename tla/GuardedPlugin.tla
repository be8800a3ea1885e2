---------------------------- MODULE GuardedPlugin ----------------------------
(***************************************************************************)
(* What deployments and teardowns of one front end promise, with no        *)
(* containers, helpers or requests in sight: one owner at a time, files    *)
(* that change only while nothing is served, nothing served but the        *)
(* owner's whole build, and no owner that leaves something unvouched for   *)
(* behind it.                                                              *)
(***************************************************************************)
CONSTANTS
  Owners,
  Nobody,
  BuildOf    \* BuildOf[d]: the build that owner d installs

VARIABLES
  owner,
  files,     \* what is installed
  serving,   \* what the front end that runs has loaded, if one runs
  vouched    \* whether that is known to be right, or is that of before

vars == <<owner, files, serving, vouched>>

Init ==
  /\ owner = Nobody /\ vouched = TRUE
  /\ \/ files = "absent" /\ serving = "nothing"
     \/ files = "old" /\ serving \in {"nothing", "old"}

Acquire(d) ==
  /\ owner = Nobody /\ owner' = d
  /\ UNCHANGED <<files, serving, vouched>>

(* In between, the files may be anything but another owner's.              *)
Change(d) ==
  /\ owner = d /\ serving = "nothing"
  /\ files' \in {"absent", "empty", "torn", BuildOf[d]}
  /\ UNCHANGED <<owner, serving, vouched>>

Serve(d) ==
  /\ owner = d /\ serving = "nothing" /\ files = BuildOf[d]
  /\ serving' = files /\ vouched' = FALSE
  /\ UNCHANGED <<owner, files>>

Vouch(d) ==
  /\ owner = d /\ serving = BuildOf[d]
  /\ vouched' = TRUE
  /\ UNCHANGED <<owner, files, serving>>

(* It is stopped, removed, or dies.                                        *)
Stop ==
  /\ serving' = "nothing" /\ vouched' = TRUE
  /\ UNCHANGED <<owner, files>>

Release(d) ==
  /\ owner = d /\ vouched
  /\ owner' = Nobody
  /\ UNCHANGED <<files, serving, vouched>>

Next ==
  \/ \E d \in Owners : Acquire(d) \/ Change(d) \/ Serve(d) \/ Vouch(d) \/ Release(d)
  \/ Stop

Spec == Init /\ [][Next]_vars
=============================================================================
