--------------------------- MODULE MCWorkerStream ---------------------------
(* Instance of WorkerStream for TLC. *)
EXTENDS WorkerStream, TLC

Symmetry == Permutations(Commands)
=============================================================================
