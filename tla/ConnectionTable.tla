--------------------------- MODULE ConnectionTable ---------------------------
(***************************************************************************)
(* What the worker registry promises about connections, without its        *)
(* handlers and without the database.  A connection is attached to at most *)
(* one name and only to a name that is free; once evicted it never comes   *)
(* back; its command channel is closed at most once and only after it was  *)
(* evicted, when nobody can look it up any more.                           *)
(***************************************************************************)
CONSTANTS Workers, Entries, None

VARIABLES
  slot,   \* name -> the connection attached to it, None when free
  life    \* life cycle of each connection

Live == {slot[n] : n \in Workers} \ {None}

Init ==
  /\ slot = [n \in Workers |-> None]
  /\ life = [e \in Entries |-> "new"]

Attach(n, e) ==
  /\ slot[n] = None
  /\ life[e] = "new"
  /\ slot' = [slot EXCEPT ![n] = e]
  /\ life' = [life EXCEPT ![e] = "attached"]

Detach(n) ==
  /\ slot[n] # None
  /\ slot' = [slot EXCEPT ![n] = None]
  /\ life' = [life EXCEPT ![slot[n]] = "evicted"]

Close(e) ==
  /\ life[e] = "evicted"
  /\ life' = [life EXCEPT ![e] = "closed"]
  /\ UNCHANGED slot

(* The control plane restarts.                                             *)
DetachAll ==
  /\ slot' = [n \in Workers |-> None]
  /\ life' = [e \in Entries |-> IF life[e] = "attached" THEN "evicted"
                                ELSE life[e]]

Next ==
  \/ \E n \in Workers, e \in Entries : Attach(n, e)
  \/ \E n \in Workers : Detach(n)
  \/ \E e \in Entries : Close(e)
  \/ DetachAll

Spec == Init /\ [][Next]_<<slot, life>>
=============================================================================
