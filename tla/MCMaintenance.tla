--------------------------- MODULE MCMaintenance ---------------------------
(***************************************************************************)
(* Instances of DuckLakeMaintenance for TLC.                               *)
(***************************************************************************)
EXTENDS DuckLakeMaintenance, TLC

(* "a", "b": two managed objects; "a3": the s3a:// alias of "a", which is  *)
(* how the catalog stores it; "p": an object with an ordinary name.        *)
MCUris     == {"a", "a3", "b", "p"}
MCIdentity == [u \in MCUris |-> IF u = "a3" THEN "a" ELSE u]
MCManaged  == {"a", "a3", "b"}
MCInside   == [u \in MCUris |-> {}]
MCRoots    == {{"a", "p"}, {"a", "b", "p"}}
OneRoot    == {{"a", "b", "p"}}

ManagedUris == 1 :> "a3" @@ 2 :> "b"
(* Two file ids that resolve to one object.                                *)
AliasedUris == 1 :> "a3" @@ 2 :> "a3"
(* Sessions are interchangeable.                                           *)
SessionSymmetry == Permutations(Ops)
=============================================================================
