----------------------------- MODULE MCSmokeRun -----------------------------
(* One case of each kind, one of them with an expected failure.            *)
EXTENDS SmokeRun
MCRequired == <<"rows", "expiry", "cleanup", "orphans", "fixture_cleanup">>
=============================================================================
