-------------------------- MODULE MCWorkerRegistry --------------------------
(* Instance of WorkerRegistry for TLC. *)
EXTENDS WorkerRegistryClaims, TLC

Symmetry ==
  Permutations(Entries) \cup Permutations(Rows) \cup Permutations(Tokens)
    \cup Permutations(Streams) \cup Permutations(Joins) \cup Permutations(Admins)
=============================================================================
