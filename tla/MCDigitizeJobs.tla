-------------------------- MODULE MCDigitizeJobs --------------------------
(* Instances of DigitizeJobs for TLC: a job of each operation, and an
   ingestion of two files. *)
EXTENDS DigitizeJobs, TLC

CONSTANTS j1, j2, t1, t2

MCJobOf == [t \in Tasks |-> IF t = t1 THEN j1 ELSE j2]
MCLaneOf == [t \in Tasks |-> IF t = t1 THEN "ingestion" ELSE "digitization"]

OneJobOf == [t \in Tasks |-> j1]
OneLaneOf == [t \in Tasks |-> "ingestion"]
=============================================================================
