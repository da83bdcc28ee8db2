-------------------------- MODULE ConversionSlots --------------------------
(***************************************************************************)
(* What the conversion queue promises, however its rows, lanes, turns and  *)
(* promotions bring it about: a task is converted at most once, also       *)
(* across cancellations, lost writes and restarts, and a conversion begins *)
(* only when it fits next to those under way.                              *)
(***************************************************************************)
EXTENDS Naturals, FiniteSets

CONSTANTS Tasks, Large, Capacity

VARIABLE phase

Init == phase = [t \in Tasks |-> "waiting"]

In(p) == {t \in Tasks : phase[t] = p}
Units(S) == Cardinality(S) + Cardinality(S \cap Large)
Over(S) == phase' = [t \in Tasks |-> IF t \in S THEN "over" ELSE phase[t]]

Start(t) ==
  /\ t \in In("waiting") /\ Units(In("converting") \cup {t}) <= Capacity
  /\ phase' = [phase EXCEPT ![t] = "converting"]

Finish(t) == t \in In("converting") /\ Over({t})

(* Cancelled before it began *)
Withdraw(S) == S \subseteq In("waiting") /\ Over(S)

(* The service restarts: what was under way is not taken up again. *)
Abandon(S) == S \subseteq In("waiting") /\ Over(S \cup In("converting"))

Next ==
  \/ \E t \in Tasks : Start(t) \/ Finish(t)
  \/ \E S \in SUBSET Tasks : Withdraw(S) \/ Abandon(S)

Spec == Init /\ [][Next]_phase
=============================================================================
