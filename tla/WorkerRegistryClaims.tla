------------------------- MODULE WorkerRegistryClaims -------------------------
(***************************************************************************)
(* What comments and documents of the repository say of the registry and   *)
(* its handlers, where the handlers' interleavings do otherwise.           *)
(***************************************************************************)
EXTENDS WorkerRegistry

(* "If the worker is currently connected its gRPC stream is also cleaned   *)
(* up." (worker_handler.go DeleteWorker)  A stream that serves a worker    *)
(* whose row was deleted ends.                                             *)
ServesDeleted(s) ==
  /\ stream[s].pc = "serving" /\ stream[s].up
  /\ entry[stream[s].entry].dbid # None
  /\ ~Exists(entry[stream[s].entry].dbid)

DeregisterEndsStream ==
  \A s \in Streams : ServesDeleted(s) ~> ~ServesDeleted(s)
=============================================================================
