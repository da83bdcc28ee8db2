------------------------ MODULE MCApplicationLifecycle ------------------------
(* Instance of ApplicationLifecycle for TLC. *)
EXTENDS ApplicationLifecycle, TLC
CONSTANTS c1, s1, d1, d2

Requests == Permutations({d1, d2})
=============================================================================
