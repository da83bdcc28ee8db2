----------------------- MODULE MCConversionDispatch -----------------------
(* Instance of ConversionDispatch for TLC: a user ingestion of two files and
   two jobs of a connector, the second of them with a large file. *)
EXTENDS ConversionDispatch, TLC

CONSTANTS j1, j2, j3, t1, t2, t3, t4, c1

MCJobOf == (t1 :> j1) @@ (t2 :> j1) @@ (t3 :> j2) @@ (t4 :> j3)
MCLaneOf == (t1 :> "ingestion") @@ (t2 :> "ingestion") @@ (t3 :> c1)
              @@ (t4 :> c1)
=============================================================================
