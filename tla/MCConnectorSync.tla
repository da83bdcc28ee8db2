------------------------- MODULE MCConnectorSync -------------------------
(* Instance of ConnectorSync for TLC: a connector that syncs once and one
   that syncs twice, loses a file and is deleted. *)
EXTENDS ConnectorSync, TLC

CONSTANTS c1, c2, x, y

Twice == (c1 :> 1) @@ (c2 :> 2)
Once == (c1 :> 0) @@ (c2 :> 1)
=============================================================================
