--------------------------- MODULE MCDatasources ---------------------------
(* Instance of Datasources for TLC: the requests on a datasource. *)
EXTENDS Datasources

CONSTANTS s1, u1, u2, k1, k2, d1, x1
=============================================================================
