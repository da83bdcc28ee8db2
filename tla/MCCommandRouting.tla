-------------------------- MODULE MCCommandRouting --------------------------
(* Instance of CommandRouting for TLC. *)
EXTENDS CommandRouting, TLC
=============================================================================
