------------------------- MODULE MCInsertTransaction -------------------------
(* Statements of two files, of one and of none.                            *)
EXTENDS InsertTransaction, TLC

CONSTANTS s1, s2, s3, f1, f2, f3
Statements == {s1, s2, s3}
TwoOneNone == (s1 :> {f1, f2}) @@ (s2 :> {f3}) @@ (s3 :> {})
=============================================================================
