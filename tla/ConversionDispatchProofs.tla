---------------------- MODULE ConversionDispatchProofs ----------------------
(***************************************************************************)
(* Theorems about ConversionDispatch, for any jobs, tasks, lanes,          *)
(* capacities, quotas and bounds: rows and conversions agree, outcomes are *)
(* final, the semaphore's units are accounted for, and the queue           *)
(* implements ConversionSlots.                                             *)
(***************************************************************************)
EXTENDS ConversionDispatch, FiniteSetTheorems, SequenceTheorems, TLAPS

Marked(t) == status[t] \in {"running", "cancel_pending"}

(* Neither property is inductive.  What is needed besides: a task that
   waits for its units is not converted yet, the dispatcher that holds one
   does nothing else, and a candidate for promotion is one that is pending
   or was cancelled since, so that the update by task_id alone meets no
   other row. *)
DispatchInv ==
  /\ status \in [Tasks -> Statuses]
  /\ conv \in [Tasks -> {"none", "started", "cleared", "working",
                         "converted"}]
  /\ mishaps \in Nat
  /\ RowsMatchConversions
  /\ held # None => at = "acquiring" /\ held \in Tasks /\ conv[held] = "none"
  /\ \A t \in picked \cap Tasks : status[t] \in {"pending", "cancelled"}

(* What a step may do to the rows, as far as the properties go: rows of
   tasks under way stay marked or end with their conversion, all others
   change as admission, promotion and cancellation do. *)
KeepsOutcomes ==
  \A t \in Tasks :
    status[t] \in {"completed", "failed"} => status'[t] = status[t]
-----------------------------------------------------------------------------
LEMMA DispatchInvInit == DispatchInit => DispatchInv
<1> SUFFICES ASSUME DispatchInit
             PROVE  DispatchInv
  OBVIOUS
<1>1. /\ status = [t \in Tasks |-> "none"] /\ conv = [t \in Tasks |-> "none"]
      /\ mishaps = 0 /\ held = None /\ picked = {}
  BY DEF DispatchInit
<1>2. \A t \in Tasks : status[t] = "none" /\ conv[t] = "none" /\ held # t
  BY <1>1, DispatchAssumption
<1>3. RowsMatchConversions
  BY <1>2 DEF RowsMatchConversions
<1> QED
  BY <1>1, <1>3 DEF DispatchInv, Statuses

LEMMA EnqueueKeeps ==
  ASSUME DispatchInv, NEW j \in Jobs, Enqueue(j)
  PROVE  DispatchInv' /\ KeepsOutcomes
<1>1. PICK Q : status' = [t \in Tasks |-> IF t \in Q THEN "queued"
                                 ELSE IF t \in TasksOf(j) THEN "pending"
                                 ELSE status[t]]
               /\ Q \subseteq TasksOf(j)
  BY DEF Enqueue, kSubset
<1>2. /\ \A t \in TasksOf(j) : status[t] = "none"
      /\ UNCHANGED <<at, held, picked, conv, mishaps>>
  BY DEF Enqueue, loopVars
<1>3. status' \in [Tasks -> Statuses]
  BY <1>1 DEF DispatchInv, Statuses
<1>4. \A t \in Tasks : \/ status'[t] = status[t]
                       \/ status[t] = "none" /\ status'[t] \in {"queued", "pending"}
  BY <1>1, <1>2
<1> QED
  BY <1>2, <1>3, <1>4 DEF DispatchInv, RowsMatchConversions, KeepsOutcomes

LEMMA CancelKeeps ==
  ASSUME DispatchInv, NEW j \in Jobs, CancelTasks(j)
  PROVE  DispatchInv' /\ KeepsOutcomes
<1>1. /\ status' = [t \in Tasks |-> IF t \in TasksOf(j)
                                    THEN CancelledStatus(status[t])
                                    ELSE status[t]]
      /\ UNCHANGED <<at, held, picked, conv, mishaps>>
  BY DEF CancelTasks, loopVars
<1>2. \A t \in Tasks :
        \/ status'[t] = status[t]
        \/ status[t] \in {"pending", "queued"} /\ status'[t] = "cancelled"
        \/ status[t] = "running" /\ status'[t] = "cancel_pending"
  BY <1>1 DEF CancelledStatus
<1>3. status' \in [Tasks -> Statuses]
  BY <1>1, <1>2 DEF DispatchInv, Statuses, Terminal
<1> QED
  BY <1>1, <1>2, <1>3 DEF DispatchInv, RowsMatchConversions, KeepsOutcomes
-----------------------------------------------------------------------------
(* The dispatcher *)

(* A promotion follows the tick and leaves no held task. *)
LEMMA DispatchPart ==
  ASSUME DispatchInv, NEW t \in Tasks, Dispatch(t),
         status' \in [Tasks -> Statuses], status'[t] \in {"running", "cancel_pending"},
         \A u \in Tasks \ {t} : status'[u] = status[u],
         status[t] \in {"queued", "running", "cancel_pending"},
         held \in {t, None},
         UNCHANGED <<picked, mishaps>>
  PROVE  DispatchInv' /\ KeepsOutcomes
<1>1. held' = None /\ conv' = [conv EXCEPT ![t] = "started"]
  BY DEF Dispatch
<1>2. conv' \in [Tasks -> {"none", "started", "cleared", "working",
                           "converted"}]
  BY <1>1 DEF DispatchInv
<1>3. \A u \in Tasks : conv'[u] = IF u = t THEN "started" ELSE conv[u]
  BY <1>1 DEF DispatchInv
<1>4. RowsMatchConversions'
  BY <1>1, <1>3, DispatchAssumption DEF DispatchInv, RowsMatchConversions
<1>5. \A u \in picked' \cap Tasks : status'[u] \in {"pending", "cancelled"}
  BY DEF DispatchInv
<1> QED
  BY <1>1, <1>2, <1>4, <1>5 DEF DispatchInv, KeepsOutcomes

LEMMA ClaimKeeps ==
  ASSUME DispatchInv, Claim
  PROVE  DispatchInv' /\ KeepsOutcomes
<1>0. held = None
  BY DEF DispatchInv, Claim
<1>1. CASE QueuedIn(lane) = {} /\ UNCHANGED <<status, held, conv>>
  BY <1>0, <1>1 DEF Claim, DispatchInv, RowsMatchConversions, KeepsOutcomes
<1>2. ASSUME NEW t \in Heads(QueuedIn(lane)),
             status' = [status EXCEPT ![t] = "running"]
      PROVE  /\ t \in Tasks /\ status[t] = "queued" /\ conv[t] = "none"
             /\ status' \in [Tasks -> Statuses]
             /\ \A u \in Tasks :
                  status'[u] = IF u = t THEN "running" ELSE status[u]
  <2>1. t \in Tasks /\ status[t] = "queued"
    BY DEF Heads, QueuedIn, Rows
  <2>2. conv[t] = "none"
    BY <2>1 DEF DispatchInv, RowsMatchConversions
  <2> QED
    BY <1>2, <2>1, <2>2 DEF DispatchInv, Statuses
<1>3. ASSUME NEW t \in Heads(QueuedIn(lane)),
             status' = [status EXCEPT ![t] = "running"],
             Dispatch(t)
      PROVE  DispatchInv' /\ KeepsOutcomes
  <2>1. UNCHANGED <<picked, mishaps>>
    BY DEF Claim
  <2> QED
    BY <1>0, <1>2, <1>3, <2>1, DispatchPart
<1>4. ASSUME NEW t \in Heads(QueuedIn(lane)),
             status' = [status EXCEPT ![t] = "running"],
             at' = "acquiring", held' = t, UNCHANGED conv
      PROVE  DispatchInv' /\ KeepsOutcomes
  <2>1. UNCHANGED <<picked, mishaps>>
    BY DEF Claim
  <2>2. RowsMatchConversions'
    BY <1>0, <1>2, <1>4, <2>1, DispatchAssumption
       DEF DispatchInv, RowsMatchConversions
  <2> QED
    BY <1>2, <1>4, <2>1, <2>2 DEF DispatchInv, KeepsOutcomes
<1> QED
  BY <1>1, <1>3, <1>4 DEF Claim

LEMMA AcquireKeeps ==
  ASSUME DispatchInv, Acquire
  PROVE  DispatchInv' /\ KeepsOutcomes
<1>1. Dispatch(held) /\ UNCHANGED <<status, picked, mishaps>>
  BY DEF Acquire
<1>2. CASE held = None
  <2>1. /\ held' = None /\ conv' = [conv EXCEPT ![held] = "started"]
    BY <1>1 DEF Dispatch
  <2>2. held \notin Tasks
    BY <1>2, DispatchAssumption
  <2>3. conv' = conv
    BY <2>1, <2>2 DEF DispatchInv
  <2> QED
    BY <1>1, <1>2, <2>1, <2>3 DEF DispatchInv, RowsMatchConversions,
                                  KeepsOutcomes
<1>3. CASE held # None
  <2>1. held \in Tasks /\ status[held] \in {"running", "cancel_pending"}
    BY <1>3 DEF DispatchInv, RowsMatchConversions
  <2>2. status' \in [Tasks -> Statuses]
    BY <1>1 DEF DispatchInv
  <2> QED
    BY <1>1, <2>1, <2>2, DispatchPart
<1> QED
  BY <1>2, <1>3

LEMMA SelectKeeps ==
  ASSUME DispatchInv, NEW op \in UserLanes, Select(op)
  PROVE  DispatchInv' /\ KeepsOutcomes
<1>1. held = None
  BY DEF DispatchInv, Select, Promoting
<1>2. PICK C \in Candidates(op) : picked' = C
  BY DEF Select
<1>3. \A t \in C : t \in Tasks /\ status[t] = "pending"
  BY DEF Candidates, Oldest, kSubset, Pending, Rows
<1>4. UNCHANGED <<status, conv, held, mishaps>>
  BY DEF Select
<1> QED
  BY <1>1, <1>2, <1>3, <1>4 DEF DispatchInv, RowsMatchConversions,
                                KeepsOutcomes

LEMMA UpdateKeeps ==
  ASSUME DispatchInv, NEW op \in UserLanes, Update(op)
  PROVE  DispatchInv' /\ KeepsOutcomes
<1>1. held = None
  BY DEF DispatchInv, Update, Updating
<1>2. /\ status' = [t \in Tasks |-> IF t \in picked THEN "queued"
                                    ELSE status[t]]
      /\ picked' = {} /\ UNCHANGED <<conv, held, mishaps>>
  BY DEF Update
<1>3. \A t \in Tasks :
        \/ status'[t] = status[t]
        \/ status[t] \in {"pending", "cancelled"} /\ status'[t] = "queued"
  BY <1>2 DEF DispatchInv
<1>4. status' \in [Tasks -> Statuses]
  BY <1>2 DEF DispatchInv, Statuses
<1> QED
  BY <1>1, <1>2, <1>3, <1>4 DEF DispatchInv, RowsMatchConversions,
                                KeepsOutcomes
-----------------------------------------------------------------------------
(* The conversions *)

(* A lost write is a mishap, so that a row may then stay marked. *)
LEMMA WrittenRow ==
  ASSUME DispatchInv, NEW t \in Tasks, NEW s \in Statuses, Written(t, s)
  PROVE  /\ status' \in [Tasks -> Statuses] /\ mishaps' \in Nat
         /\ \A u \in Tasks \ {t} : status'[u] = status[u]
         /\ \/ status'[t] = s /\ mishaps' = mishaps
            \/ status'[t] = status[t] /\ mishaps' > 0
         /\ mishaps > 0 => mishaps' > 0
  BY DEF Written, DispatchInv

(* A task that is being converted is not the one that waits for units. *)
LEMMA UnderWayIsMarked ==
  ASSUME DispatchInv, NEW t \in Tasks, conv[t] # "none"
  PROVE  Marked(t) /\ held # t
<1>1. Marked(t)
  BY DEF DispatchInv, RowsMatchConversions, Marked
<1>2. CASE held = None
  BY <1>1, <1>2, DispatchAssumption
<1>3. CASE held # None
  BY <1>1, <1>3 DEF DispatchInv
<1> QED
  BY <1>2, <1>3

LEMMA SettleKeeps ==
  ASSUME DispatchInv, NEW t \in Tasks, conv[t] # "none",
         NEW s \in Terminal, Settle(t, s)
  PROVE  DispatchInv' /\ KeepsOutcomes
<1>1. /\ conv' = [conv EXCEPT ![t] = "none"] /\ Written(t, s)
      /\ UNCHANGED <<at, held, picked>>
  BY DEF Settle, Release, loopVars
<1>2. /\ status' \in [Tasks -> Statuses] /\ mishaps' \in Nat
      /\ \A u \in Tasks \ {t} : status'[u] = status[u]
      /\ \/ status'[t] = s /\ mishaps' = mishaps
         \/ status'[t] = status[t] /\ mishaps' > 0
      /\ mishaps > 0 => mishaps' > 0
  BY <1>1, WrittenRow DEF Statuses
<1>3. /\ conv' \in [Tasks -> {"none", "started", "cleared", "working",
                              "converted"}]
      /\ \A u \in Tasks : conv'[u] = IF u = t THEN "none" ELSE conv[u]
  BY <1>1 DEF DispatchInv
<1>4. Marked(t) /\ held # t
  BY UnderWayIsMarked
<1>5. RowsMatchConversions'
  BY <1>1, <1>2, <1>3, <1>4 DEF DispatchInv, RowsMatchConversions, Marked,
                                Terminal
<1>6. \A u \in picked' \cap Tasks : status'[u] \in {"pending", "cancelled"}
  BY <1>1, <1>2, <1>4 DEF DispatchInv, Marked
<1> QED
  BY <1>1, <1>2, <1>3, <1>4, <1>5, <1>6 DEF DispatchInv, KeepsOutcomes,
                                            Marked

LEMMA ProceedKeeps ==
  ASSUME DispatchInv, NEW t \in Tasks, conv[t] # "none",
         NEW place \in {"cleared", "working", "converted"},
         Proceed(t, place),
         UNCHANGED <<status, mishaps>> \/ Written(t, "running")
  PROVE  DispatchInv' /\ KeepsOutcomes
<1>1. /\ conv' = [conv EXCEPT ![t] = place]
      /\ UNCHANGED <<at, held, picked>>
  BY DEF Proceed, loopVars
<1>2. Marked(t) /\ held # t
  BY UnderWayIsMarked
<1>3. /\ status' \in [Tasks -> Statuses] /\ mishaps' \in Nat
      /\ \A u \in Tasks \ {t} : status'[u] = status[u]
      /\ status'[t] \in {"running", "cancel_pending"}
      /\ mishaps > 0 => mishaps' > 0
  <2>1. CASE UNCHANGED <<status, mishaps>>
    BY <1>2, <2>1 DEF DispatchInv, Marked
  <2>2. CASE Written(t, "running")
    BY <1>2, <2>2, WrittenRow DEF Statuses, Marked
  <2> QED
    BY <2>1, <2>2
<1>4. /\ conv' \in [Tasks -> {"none", "started", "cleared", "working",
                              "converted"}]
      /\ \A u \in Tasks : conv'[u] = IF u = t THEN place ELSE conv[u]
  BY <1>1 DEF DispatchInv
<1>5. RowsMatchConversions'
  BY <1>1, <1>3, <1>4 DEF DispatchInv, RowsMatchConversions
<1>6. \A u \in picked' \cap Tasks : status'[u] \in {"pending", "cancelled"}
  BY <1>1, <1>2, <1>3 DEF DispatchInv, Marked
<1> QED
  BY <1>1, <1>2, <1>3, <1>4, <1>5, <1>6 DEF DispatchInv, KeepsOutcomes,
                                            Marked

LEMMA ConversionKeeps ==
  ASSUME DispatchInv, NEW t \in Tasks, FileMissing(t) \/ ConversionStep(t)
  PROVE  DispatchInv' /\ KeepsOutcomes
<1>1. conv[t] # "none"
  BY DEF FileMissing, ConversionStep, FirstCheck, MarkRunning,
         ConversionRaises, SecondCheck, MarkCompleted
<1>2. \/ \E s \in Terminal : Settle(t, s)
      \/ \E place \in {"cleared", "working", "converted"} :
           /\ Proceed(t, place)
           /\ UNCHANGED <<status, mishaps>> \/ Written(t, "running")
  BY DEF FileMissing, ConversionStep, FirstCheck, MarkRunning,
         ConversionRaises, SecondCheck, MarkCompleted, Terminal
<1> QED
  BY <1>1, <1>2, SettleKeeps, ProceedKeeps

(* Recovery fails what a pipeline could still have waited for, and leaves
   outcomes alone. *)
LEMMA RestartKeeps ==
  ASSUME DispatchInv, Restart
  PROVE  DispatchInv' /\ KeepsOutcomes
<1>1. /\ status' = [t \in Tasks |-> RecoveredStatus(status[t])]
      /\ conv' = [t \in Tasks |-> "none"] /\ held' = None /\ picked' = {}
      /\ mishaps' = mishaps + 1
  BY DEF Restart, Reset
<1>2. mishaps' \in Nat /\ mishaps' > 0
  BY <1>1 DEF DispatchInv
<1>3. /\ status' \in [Tasks -> Statuses]
      /\ \A t \in Tasks : status[t] \in Terminal => status'[t] = status[t]
  BY <1>1 DEF DispatchInv, RecoveredStatus, Statuses, Terminal
<1>4. RowsMatchConversions'
  BY <1>1, <1>2, DispatchAssumption DEF RowsMatchConversions
<1> QED
  BY <1>1, <1>2, <1>3, <1>4 DEF DispatchInv, KeepsOutcomes, Terminal

LEMMA DispatchInvStep ==
  ASSUME DispatchInv, [DispatchNext]_dispatchVars
  PROVE  DispatchInv' /\ KeepsOutcomes
<1>1. ASSUME NEW j \in Jobs, Admit(j)
      PROVE  UNCHANGED <<status, conv, mishaps, held, at, picked>>
  BY <1>1 DEF Admit, loopVars
<1>2. CASE Peek
  <2>1. /\ UNCHANGED <<status, conv, mishaps, held, picked>>
        /\ at = "asleep"
    BY <1>2 DEF Peek
  <2> QED
    BY <2>1 DEF DispatchInv, RowsMatchConversions, KeepsOutcomes
<1>3. CASE UNCHANGED dispatchVars
  BY <1>3 DEF dispatchVars, loopVars, DispatchInv, RowsMatchConversions,
              KeepsOutcomes
<1>4. ASSUME NEW j \in Jobs, Admit(j)
      PROVE  DispatchInv' /\ KeepsOutcomes
  BY <1>1, <1>4 DEF DispatchInv, RowsMatchConversions, KeepsOutcomes
<1> QED
  BY <1>2, <1>3, <1>4, EnqueueKeeps, CancelKeeps, ClaimKeeps, AcquireKeeps,
     SelectKeeps, UpdateKeeps, ConversionKeeps, RestartKeeps
     DEF DispatchNext, DispatcherStep

(* Whatever jobs do to the queue, a task under way has a row that says so,
   and no other row says so, up to a lost write or a restart: no task is
   converted twice at once. *)
THEOREM RowsAgree == DispatchSpec => []RowsMatchConversions
<1>1. DispatchInv => RowsMatchConversions
  BY DEF DispatchInv
<1>2. DispatchInv /\ [DispatchNext]_dispatchVars => DispatchInv'
  BY DispatchInvStep
<1> QED
  BY <1>1, <1>2, DispatchInvInit, PTL DEF DispatchSpec

(* What a pipeline reads as completed or failed is the last word: no
   cancellation, promotion, late write or recovery comes over it. *)
THEOREM OutcomesStay == DispatchSpec => OutcomeIsFinal
<1>1. DispatchInv /\ [DispatchNext]_dispatchVars => DispatchInv'
  BY DispatchInvStep
<1>2. DispatchInv /\ [DispatchNext]_dispatchVars => [KeepsOutcomes]_status
  BY DispatchInvStep
<1> QED
  BY <1>1, <1>2, DispatchInvInit, PTL
     DEF DispatchSpec, OutcomeIsFinal, KeepsOutcomes

-----------------------------------------------------------------------------
(* The semaphore *)

(* SemaphoreAccounted and what its induction needs: the conversions are
   finitely many at any time (however many tasks there are), and a
   dispatcher that waits for units does so for a task. *)
SemaphoreInv ==
  /\ free \in Nat /\ IsFiniteSet(Converting)
  /\ SemaphoreAccounted
  /\ at = "acquiring" => held \in Tasks

LEMMA CapacityIsNat == Capacity \in Nat
  BY DispatchAssumption

LEMMA CountsAreNat ==
  ASSUME IsFiniteSet(Converting)
  PROVE  /\ Cardinality(Converting) \in Nat
         /\ IsFiniteSet(Converting \cap Large)
         /\ Cardinality(Converting \cap Large) \in Nat
  BY FS_Subset, FS_CardinalityType

(* The units of a task are taken when its conversion starts ... *)
LEMMA TakeUnits ==
  ASSUME SemaphoreInv, DispatchInv, NEW t \in Tasks, conv[t] = "none",
         ~Blocked(t), Dispatch(t)
  PROVE  free' \in Nat /\ IsFiniteSet(Converting)' /\ SemaphoreAccounted'
<1>1. conv' = [conv EXCEPT ![t] = "started"] /\ free' = free - Weight(t)
  BY DEF Dispatch
<1>2. Converting' = Converting \cup {t} /\ t \notin Converting
  BY <1>1 DEF Converting, DispatchInv
<1>3. /\ IsFiniteSet(Converting)
      /\ Cardinality(Converting) \in Nat
      /\ IsFiniteSet(Converting \cap Large)
      /\ Cardinality(Converting \cap Large) \in Nat
  BY CountsAreNat DEF SemaphoreInv
<1>4. /\ IsFiniteSet(Converting')
      /\ Cardinality(Converting') = Cardinality(Converting) + 1
  BY <1>2, <1>3, FS_AddElement
<1>5. Cardinality(Converting' \cap Large) =
        IF t \in Large THEN Cardinality(Converting \cap Large) + 1
        ELSE Cardinality(Converting \cap Large)
  <2>1. CASE t \in Large
    <3>1. Converting' \cap Large = (Converting \cap Large) \cup {t}
      BY <1>2, <2>1
    <3> QED
      BY <1>2, <1>3, <2>1, <3>1, FS_AddElement
  <2>2. CASE t \notin Large
    <3>1. Converting' \cap Large = Converting \cap Large
      BY <1>2, <2>2
    <3> QED
      BY <2>2, <3>1
  <2> QED
    BY <2>1, <2>2
<1>6. free \in Nat /\ free >= Weight(t)
  BY DEF SemaphoreInv, Blocked, Weight
<1>7. free' \in Nat
  BY <1>1, <1>6 DEF Weight
<1>8. free' + Cardinality(Converting') + Cardinality(Converting' \cap Large)
        = Capacity
  BY <1>1, <1>3, <1>4, <1>5, <1>6, CapacityIsNat
     DEF Weight, SemaphoreInv, SemaphoreAccounted
<1> QED
  BY <1>4, <1>7, <1>8 DEF SemaphoreAccounted

(* ... and given back once, on whichever way it ends. *)
LEMMA GiveUnits ==
  ASSUME SemaphoreInv, DispatchInv, NEW t \in Tasks, conv[t] # "none",
         Release(t)
  PROVE  free' \in Nat /\ IsFiniteSet(Converting)' /\ SemaphoreAccounted'
<1>1. conv' = [conv EXCEPT ![t] = "none"] /\ free' = free + Weight(t)
  BY DEF Release
<1>2. Converting' = Converting \ {t} /\ t \in Converting
  BY <1>1 DEF Converting, DispatchInv
<1>3. /\ IsFiniteSet(Converting)
      /\ Cardinality(Converting) \in Nat
      /\ IsFiniteSet(Converting \cap Large)
      /\ Cardinality(Converting \cap Large) \in Nat
  BY CountsAreNat DEF SemaphoreInv
<1>4. /\ IsFiniteSet(Converting')
      /\ Cardinality(Converting') = Cardinality(Converting) - 1
  BY <1>2, <1>3, FS_RemoveElement
<1>5. Cardinality(Converting' \cap Large) =
        IF t \in Large THEN Cardinality(Converting \cap Large) - 1
        ELSE Cardinality(Converting \cap Large)
  <2>1. CASE t \in Large
    <3>1. Converting' \cap Large = (Converting \cap Large) \ {t}
      BY <1>2, <2>1
    <3> QED
      BY <1>2, <1>3, <2>1, <3>1, FS_RemoveElement
  <2>2. CASE t \notin Large
    <3>1. Converting' \cap Large = Converting \cap Large
      BY <1>2, <2>2
    <3> QED
      BY <2>2, <3>1
  <2> QED
    BY <2>1, <2>2
<1>6. free' \in Nat
  BY <1>1 DEF Weight, SemaphoreInv
<1>7. free' + Cardinality(Converting') + Cardinality(Converting' \cap Large)
        = Capacity
  <2>1. free \in Nat
    BY DEF SemaphoreInv
  <2> QED
    BY <1>1, <1>3, <1>4, <1>5, <2>1, CapacityIsNat
       DEF Weight, SemaphoreInv, SemaphoreAccounted
<1> QED
  BY <1>4, <1>6, <1>7 DEF SemaphoreAccounted

(* Every other step keeps the units and the set of conversions. *)
LEMMA SameUnits ==
  ASSUME SemaphoreInv, UNCHANGED free, Converting' = Converting,
         at' = "acquiring" => held' \in Tasks
  PROVE  SemaphoreInv'
  BY DEF SemaphoreInv, SemaphoreAccounted

(* The place after a dispatch is a promotion or the sleep. *)
LEMMA PromotesOrSleeps ==
  ASSUME PromoteNext \/ PromoteDigitization
  PROVE  at' # "acquiring"
  BY DEF PromoteNext, PromoteDigitization, Promoting

LEMMA ConversionUnits ==
  ASSUME SemaphoreInv, DispatchInv, NEW t \in Tasks,
         FileMissing(t) \/ ConversionStep(t)
  PROVE  SemaphoreInv'
<1>1. conv[t] # "none" /\ UNCHANGED <<at, held>>
  BY DEF FileMissing, ConversionStep, FirstCheck, MarkRunning, Settle, Proceed,
         ConversionRaises, SecondCheck, MarkCompleted, loopVars
<1>2. \/ Release(t)
      \/ \E place \in {"cleared", "working", "converted"} : Proceed(t, place)
  BY DEF FileMissing, ConversionStep, FirstCheck, MarkRunning, Settle,
         ConversionRaises, SecondCheck, MarkCompleted
<1>3. CASE Release(t)
  BY <1>1, <1>3, GiveUnits DEF SemaphoreInv
<1>4. ASSUME NEW place \in {"cleared", "working", "converted"},
             Proceed(t, place)
      PROVE  SemaphoreInv'
  <2>1. conv' = [conv EXCEPT ![t] = place] /\ UNCHANGED free
    BY <1>4 DEF Proceed
  <2>2. Converting' = Converting
    BY <1>1, <2>1 DEF Converting, DispatchInv
  <2> QED
    BY <1>1, <2>1, <2>2, SameUnits DEF SemaphoreInv
<1> QED
  BY <1>2, <1>3, <1>4

LEMMA DispatcherUnits ==
  ASSUME SemaphoreInv, DispatchInv, DispatcherStep
  PROVE  SemaphoreInv'
<1>1. CASE Peek
  <2>1. UNCHANGED <<free, conv>> /\ at' # "acquiring"
    BY <1>1, PromotesOrSleeps DEF Peek
  <2> QED
    BY <2>1, SameUnits DEF Converting
<1>2. ASSUME NEW op \in UserLanes, Select(op) \/ Update(op)
      PROVE  SemaphoreInv'
  <2>1. UNCHANGED <<free, conv>>
    BY <1>2 DEF Select, Update
  <2>2. at' # "acquiring"
    BY <1>2, PromotesOrSleeps
       DEF Select, Update, AfterPromotion, Updating
  <2> QED
    BY <2>1, <2>2, SameUnits DEF Converting
<1>3. CASE Acquire
  <2>1. held \in Tasks /\ conv[held] = "none"
    <3>1. held \in Tasks
      BY <1>3 DEF Acquire, SemaphoreInv
    <3> QED
      BY <3>1, DispatchAssumption DEF DispatchInv
  <2>2. ~Blocked(held) /\ Dispatch(held)
    BY <1>3 DEF Acquire
  <2>3. at' # "acquiring"
    BY <2>2, PromotesOrSleeps DEF Dispatch
  <2> QED
    BY <2>1, <2>2, <2>3, TakeUnits DEF SemaphoreInv
<1>4. CASE Claim
  <2>1. ASSUME NEW t \in Heads(QueuedIn(lane))
        PROVE  t \in Tasks /\ conv[t] = "none"
    <3>1. t \in Tasks /\ status[t] = "queued"
      BY DEF Heads, QueuedIn, Rows
    <3> QED
      BY <3>1 DEF DispatchInv, RowsMatchConversions
  <2>2. CASE PromoteNext /\ UNCHANGED <<free, conv>>
    BY <2>2, PromotesOrSleeps, SameUnits DEF Converting
  <2>3. ASSUME NEW t \in Heads(QueuedIn(lane)), held' = t,
               UNCHANGED <<free, conv>>
        PROVE  SemaphoreInv'
    BY <2>1, <2>3, SameUnits DEF Converting
  <2>4. ASSUME NEW t \in Heads(QueuedIn(lane)), ~Blocked(t), Dispatch(t)
        PROVE  SemaphoreInv'
    <3>1. at' # "acquiring"
      BY <2>4, PromotesOrSleeps DEF Dispatch
    <3> QED
      BY <2>1, <2>4, <3>1, TakeUnits DEF SemaphoreInv
  <2> QED
    BY <1>4, <2>2, <2>3, <2>4 DEF Claim
<1> QED
  BY <1>1, <1>2, <1>3, <1>4 DEF DispatcherStep

LEMMA SemaphoreStep ==
  SemaphoreInv /\ DispatchInv /\ [DispatchNext]_dispatchVars => SemaphoreInv'
<1> SUFFICES ASSUME SemaphoreInv, DispatchInv, [DispatchNext]_dispatchVars
             PROVE  SemaphoreInv'
  OBVIOUS
<1>1. CASE UNCHANGED <<free, conv, at, held>>
  BY <1>1, SameUnits DEF Converting, SemaphoreInv
<1>2. ASSUME NEW j \in Jobs, Admit(j) \/ Enqueue(j) \/ CancelTasks(j)
      PROVE  UNCHANGED <<free, conv, at, held>>
  BY <1>2 DEF Admit, Enqueue, CancelTasks, loopVars
<1>3. CASE Restart
  <2>1. free' = Capacity /\ Converting' = {} /\ at' = "asleep"
    BY <1>3 DEF Restart, Reset, Converting
  <2>2. (Converting \cap Large)' = {}
    BY <2>1
  <2> QED
    BY <2>1, <2>2, FS_EmptySet, CapacityIsNat
       DEF SemaphoreInv, SemaphoreAccounted
<1> QED
  BY <1>1, <1>2, <1>3, ConversionUnits, DispatcherUnits
     DEF DispatchNext, dispatchVars, loopVars

LEMMA SemaphoreInit == DispatchInit => SemaphoreInv
<1> SUFFICES ASSUME DispatchInit PROVE SemaphoreInv
  OBVIOUS
<1>1. free = Capacity /\ Converting = {} /\ at = "asleep"
  BY DEF DispatchInit, Converting
<1>2. Converting \cap Large = {}
  BY <1>1
<1> QED
  BY <1>1, <1>2, FS_EmptySet, CapacityIsNat
     DEF SemaphoreInv, SemaphoreAccounted

(* Whatever way a conversion ends, and whatever is cancelled or promoted
   meanwhile, the semaphore's units and those of the conversions under way
   make up doc_worker_size: none leaks, none is given back twice. *)
THEOREM UnitsAccounted == DispatchSpec => []SemaphoreAccounted
<1>1. SemaphoreInv => SemaphoreAccounted
  BY DEF SemaphoreInv
<1>2. DispatchInv /\ [DispatchNext]_dispatchVars => DispatchInv'
  BY DispatchInvStep
<1> QED
  BY <1>1, <1>2, DispatchInvInit, SemaphoreInit, SemaphoreStep, PTL
     DEF DispatchSpec

(* Why the head of a lane waits: what it waits for is being converted, and
   will give its units back.  This is the half of "no lane ever starving"
   (workers/conversion_dispatcher.py:17) that is no matter of fairness; it
   needs room for a large file, and settings.py:36 asks for one unit only. *)
BlockedOnlyByConversions ==
  \A t \in Tasks : Blocked(t) => Converting # {}

THEOREM HeadsFit ==
  ASSUME Capacity >= 2
  PROVE  DispatchSpec => []BlockedOnlyByConversions
<1>1. SemaphoreInv => BlockedOnlyByConversions
  <2> SUFFICES ASSUME SemaphoreInv, Converting = {}, NEW t \in Tasks
               PROVE  ~Blocked(t)
    BY DEF BlockedOnlyByConversions
  <2>1. Cardinality(Converting) = 0 /\ Converting \cap Large = {}
    BY FS_EmptySet
  <2>2. free = Capacity
    BY <2>1, FS_EmptySet, CapacityIsNat DEF SemaphoreInv, SemaphoreAccounted
  <2> QED
    BY <2>2, CapacityIsNat DEF Blocked, Weight
<1>2. DispatchInv /\ [DispatchNext]_dispatchVars => DispatchInv'
  BY DispatchInvStep
<1> QED
  BY <1>1, <1>2, DispatchInvInit, SemaphoreInit, SemaphoreStep, PTL
     DEF DispatchSpec
-----------------------------------------------------------------------------
(* Types: what is counted is finite, and the lists of connectors have a
   length, since there are finitely many tasks and connectors. *)

LEMMA CardinalityOfTasks ==
  ASSUME NEW S \in SUBSET Tasks
  PROVE  Cardinality(S) \in Nat /\ Cardinality(S) <= Cardinality(Tasks)
  BY FS_Subset, FS_CardinalityType, FiniteDispatch

(* Ranks are ranks: no more of them than tasks. *)
LEMMA StampTyped ==
  ASSUME NEW S, NEW time, Stamp(S, time)
  PROVE  queuedAt' \in [Tasks -> 0..Cardinality(Tasks)]
<1> DEFINE since == [t \in Tasks |-> IF t \in S THEN time ELSE queuedAt[t]]
           UpTo(t) == {v \in Tasks : since[v] \in 1..since[t]}
           Times(t) == {since[u] : u \in UpTo(t)}
<1>1. ASSUME NEW t \in Tasks
      PROVE  Cardinality(Times(t)) \in 0..Cardinality(Tasks)
  <2> DEFINE f == [u \in UpTo(t) |-> since[u]]
  <2>1. IsFiniteSet(UpTo(t)) /\ Cardinality(UpTo(t)) <= Cardinality(Tasks)
        /\ Cardinality(UpTo(t)) \in Nat
    BY FS_Subset, FS_CardinalityType, FiniteDispatch
  <2>2. f \in Surjection(UpTo(t), Times(t))
    <3>1. f \in [UpTo(t) -> Times(t)]
      OBVIOUS
    <3>2. \A x \in Times(t) : \E u \in UpTo(t) : f[u] = x
      OBVIOUS
    <3> QED
      BY <3>1, <3>2 DEF Surjection
  <2> HIDE DEF f, UpTo, Times
  <2>3. /\ IsFiniteSet(Times(t))
        /\ Cardinality(Times(t)) <= Cardinality(UpTo(t))
    BY <2>1, <2>2, FS_Surjection
  <2>4. Cardinality(Times(t)) \in Nat /\ Cardinality(Tasks) \in Nat
    BY <2>3, FS_CardinalityType, FiniteDispatch
  <2> QED
    BY <2>1, <2>3, <2>4
<1>2. queuedAt' = [t \in Tasks |-> Cardinality(Times(t))]
  BY DEF Stamp
<1> QED
  BY <1>1, <1>2

(* The lane of a turn is a lane, and the connectors' list has a length. *)
LEMMA TurnLaneTyped ==
  ASSUME rr \in Nat, NEW p \in TurnLanes
  PROVE  p[1] \in Lanes /\ p[2] \in Nat
<1>1. CASE turn \in {0, 1}
  BY <1>1 DEF TurnLanes, Lanes, UserLanes
<1>2. CASE turn \notin {0, 1}
  <2> DEFINE C == {c \in Connectors : QueuedIn(c) # {}}
             n == Cardinality(C)
  <2>1. n \in Nat
    BY FS_Subset, FS_CardinalityType, FiniteDispatch
  <2>2. PICK s \in ConnectorQueues :
               s # <<>> /\ p = <<s[(rr % Len(s)) + 1], Len(s)>>
    BY <1>2 DEF TurnLanes
  <2>3. s \in [1..n -> C]
    BY <2>2 DEF ConnectorQueues, SetToSeqs
  <2> HIDE DEF C, n
  <2>4. s \in Seq(C) /\ Len(s) = n
    <3>1. s \in Seq(C)
      BY <2>1, <2>3, SeqDef
    <3>2. Len(s) \in Nat /\ 1..Len(s) = 1..n
      BY <2>3, <3>1, LenProperties
    <3> QED
      BY <2>1, <3>1, <3>2
  <2>5. n > 0
    BY <2>1, <2>2, <2>4
  <2>6. (rr % n) + 1 \in 1..n
    BY <2>1, <2>5
  <2>7. s[(rr % n) + 1] \in C
    BY <2>3, <2>6
  <2> QED
    BY <2>1, <2>2, <2>4, <2>7 DEF C, Lanes
<1> QED
  BY <1>1, <1>2

(* What a tick changes at its end *)
LEMMA TurnTyped ==
  ASSUME turn \in 0..2, NEW blocked \in BOOLEAN, NextTurn(blocked)
  PROVE  turn' \in 0..2
  BY DEF NextTurn

LEMMA PlaceTyped ==
  ASSUME PromoteNext \/ PromoteDigitization
  PROVE  at' \in Places
  BY DEF PromoteNext, PromoteDigitization, Promoting, Places

LEMMA RoundTyped ==
  ASSUME rr \in Nat, size \in Nat,
         rr' = IF size > 0 THEN (rr + 1) % size ELSE rr
  PROVE  rr' \in Nat
<1>1. CASE size > 0
  <2>1. rr + 1 \in Int /\ size \in Nat \ {0}
    BY <1>1
  <2>2. (rr + 1) % size \in 0..(size - 1)
    BY <2>1
  <2> QED
    BY <1>1, <2>2
<1> QED
  BY <1>1

(* The dispatcher's own part of TypeOK *)
LoopTyped ==
  /\ at \in Places /\ turn \in 0..2 /\ rr \in Nat /\ size \in Nat
  /\ lane \in Lanes \cup {None} /\ held \in Tasks \cup {None}
  /\ picked \subseteq Tasks

LEMMA DispatchLoopTyped ==
  ASSUME LoopTyped, NEW t, Dispatch(t), UNCHANGED picked
  PROVE  LoopTyped'
<1>1. at' \in Places
  BY PlaceTyped DEF Dispatch
<1>2. turn' \in 0..2
  BY TurnTyped DEF Dispatch, LoopTyped
<1>3. rr' \in Nat
  BY RoundTyped DEF Dispatch, LoopTyped
<1> QED
  BY <1>1, <1>2, <1>3 DEF Dispatch, LoopTyped

LEMMA PeekTyped ==
  ASSUME LoopTyped, Peek
  PROVE  LoopTyped'
<1>1. UNCHANGED <<rr, held, picked>>
  BY DEF Peek
<1>2. ASSUME NEW blocked \in BOOLEAN, NextTurn(blocked), PromoteNext,
             UNCHANGED <<lane, size>>
      PROVE  LoopTyped'
  BY <1>1, <1>2, PlaceTyped, TurnTyped DEF LoopTyped
<1>3. ASSUME NEW p \in TurnLanes,
             lane' = p[1], size' = p[2], at' = "claiming", UNCHANGED turn
      PROVE  LoopTyped'
  <2>1. p[1] \in Lanes /\ p[2] \in Nat
    BY TurnLaneTyped DEF LoopTyped
  <2> QED
    BY <1>1, <1>3, <2>1 DEF LoopTyped, Places
<1> QED
  BY <1>2, <1>3 DEF Peek

LEMMA ClaimTyped ==
  ASSUME LoopTyped, Claim
  PROVE  LoopTyped'
<1>1. UNCHANGED picked
  BY DEF Claim
<1>2. CASE /\ NextTurn(FALSE) /\ PromoteNext
           /\ lane' = None /\ size' = 0 /\ UNCHANGED <<rr, held>>
  BY <1>1, <1>2, PlaceTyped, TurnTyped DEF LoopTyped
<1>3. ASSUME NEW t \in Heads(QueuedIn(lane)), at' = "acquiring", held' = t,
             UNCHANGED <<turn, rr, lane, size>>
      PROVE  LoopTyped'
  <2>1. t \in Tasks
    BY DEF Heads, QueuedIn, Rows
  <2> QED
    BY <1>1, <1>3, <2>1 DEF LoopTyped, Places
<1>4. ASSUME NEW t \in Heads(QueuedIn(lane)), Dispatch(t)
      PROVE  LoopTyped'
  BY <1>1, <1>4, DispatchLoopTyped
<1> QED
  BY <1>2, <1>3, <1>4 DEF Claim

LEMMA PromotionTyped ==
  ASSUME LoopTyped, NEW op \in UserLanes, Select(op) \/ Update(op)
  PROVE  LoopTyped'
<1>1. UNCHANGED <<turn, rr, lane, size, held>>
  BY DEF Select, Update
<1>2. at' \in Places
  <2>1. AfterPromotion(op) \/ at' = Updating(op)
    BY DEF Select, Update
  <2> QED
    BY <2>1, PlaceTyped DEF AfterPromotion, Updating, Places
<1>3. picked' \subseteq Tasks
  <2>1. CASE Update(op)
    BY <2>1 DEF Update
  <2>2. CASE Select(op)
    <3>1. PICK C \in Candidates(op) : picked' = C
      BY <2>2 DEF Select
    <3>2. C = {} \/ C \subseteq Pending(op)
      BY <3>1 DEF Candidates, Oldest, kSubset
    <3> QED
      BY <3>1, <3>2 DEF Pending, Rows
  <2> QED
    BY <2>1, <2>2
<1> QED
  BY <1>1, <1>2, <1>3 DEF LoopTyped

LEMMA LoopStepTyped ==
  ASSUME LoopTyped, [DispatchNext]_dispatchVars
  PROVE  LoopTyped'
<1>1. CASE UNCHANGED loopVars
  BY <1>1 DEF loopVars, LoopTyped
<1>2. ASSUME NEW j \in Jobs, Admit(j) \/ Enqueue(j) \/ CancelTasks(j)
      PROVE  UNCHANGED loopVars
  BY <1>2 DEF Admit, Enqueue, CancelTasks
<1>3. ASSUME NEW t \in Tasks, FileMissing(t) \/ ConversionStep(t)
      PROVE  UNCHANGED loopVars
  BY <1>3 DEF FileMissing, ConversionStep, FirstCheck, MarkRunning, Settle,
              Proceed, ConversionRaises, SecondCheck, MarkCompleted
<1>4. CASE Restart
  <2>1. /\ at' = "asleep" /\ turn' = 0 /\ rr' = 0
        /\ lane' = None /\ size' = 0 /\ held' = None /\ picked' = {}
    BY <1>4 DEF Restart, Reset
  <2>2. at' \in Places /\ turn' \in 0..2 /\ rr' \in Nat /\ size' \in Nat
    BY <2>1 DEF Places
  <2>3. /\ lane' \in Lanes \cup {None} /\ held' \in Tasks \cup {None}
        /\ picked' \subseteq Tasks
    BY <2>1
  <2> QED
    BY <2>2, <2>3 DEF LoopTyped
<1>5. CASE Acquire
  <2>1. Dispatch(held) /\ UNCHANGED picked
    BY <1>5 DEF Acquire
  <2> QED
    BY <2>1, DispatchLoopTyped
<1> QED
  BY <1>1, <1>2, <1>3, <1>4, <1>5, PeekTyped, ClaimTyped, PromotionTyped
     DEF DispatchNext, DispatcherStep, dispatchVars

(* The rest of TypeOK that no invariant above has *)
BooksTyped ==
  /\ queuedAt \in [Tasks -> 0..Cardinality(Tasks)]
  /\ room \in [Jobs -> 0..Quota]
  /\ mishaps \in 0..MaxMishaps

LEMMA AdmitTyped ==
  ASSUME BooksTyped, NEW j \in Jobs, Admit(j)
  PROVE  BooksTyped'
<1>1. UNCHANGED <<queuedAt, mishaps>>
  BY DEF Admit
<1>2. PICK t \in TasksOf(j) :
        /\ QueuedFor(OperationOf(t)) < Quota
        /\ room' = [room EXCEPT ![j] = Quota - QueuedFor(OperationOf(t))]
  BY DEF Admit, Gate
<1>3. QueuedFor(OperationOf(t)) \in Nat
  BY CardinalityOfTasks DEF QueuedFor, Rows
<1>4. Quota - QueuedFor(OperationOf(t)) \in 0..Quota
  BY <1>2, <1>3, DispatchAssumption
<1> QED
  BY <1>1, <1>2, <1>4 DEF BooksTyped

LEMMA BooksStepTyped ==
  ASSUME BooksTyped, [DispatchNext]_dispatchVars
  PROVE  BooksTyped'
<1>1. queuedAt' \in [Tasks -> 0..Cardinality(Tasks)]
  <2>1. \/ UNCHANGED queuedAt
        \/ \E S, time : Stamp(S, time)
        \/ queuedAt' = [t \in Tasks |-> 0]
    <3>1. ASSUME NEW j \in Jobs, Admit(j) \/ Enqueue(j) \/ CancelTasks(j)
          PROVE  UNCHANGED queuedAt \/ \E S, time : Stamp(S, time)
      BY <3>1 DEF Admit, Enqueue, CancelTasks, LeaveLine
    <3>2. ASSUME DispatcherStep
          PROVE  UNCHANGED queuedAt \/ \E S, time : Stamp(S, time)
      BY <3>2 DEF DispatcherStep, Peek, Claim, Acquire, Select, Update,
                  LeaveLine
    <3>3. ASSUME NEW t \in Tasks, FileMissing(t) \/ ConversionStep(t)
          PROVE  UNCHANGED queuedAt
      BY <3>3 DEF FileMissing, ConversionStep, FirstCheck, MarkRunning,
                  Settle, Proceed, ConversionRaises, SecondCheck,
                  MarkCompleted
    <3> QED
      BY <3>1, <3>2, <3>3 DEF DispatchNext, Restart, Reset, dispatchVars
  <2>2. Cardinality(Tasks) \in Nat
    BY FS_CardinalityType, FiniteDispatch
  <2> QED
    BY <2>1, <2>2, StampTyped DEF BooksTyped
<1>2. mishaps' \in 0..MaxMishaps
  <2>1. \/ UNCHANGED mishaps
        \/ mishaps < MaxMishaps /\ mishaps' = mishaps + 1
    <3>1. ASSUME NEW t \in Tasks, FileMissing(t) \/ ConversionStep(t)
          PROVE  \/ UNCHANGED mishaps
                 \/ mishaps < MaxMishaps /\ mishaps' = mishaps + 1
      BY <3>1 DEF FileMissing, ConversionStep, FirstCheck, MarkRunning,
                  ConversionRaises, SecondCheck, MarkCompleted, Settle, Written
    <3>2. ASSUME NEW j \in Jobs, Admit(j) \/ Enqueue(j) \/ CancelTasks(j)
          PROVE  UNCHANGED mishaps
      BY <3>2 DEF Admit, Enqueue, CancelTasks
    <3>3. ASSUME DispatcherStep
          PROVE  UNCHANGED mishaps
      BY <3>3 DEF DispatcherStep, Peek, Claim, Acquire, Select, Update
    <3>4. CASE Restart
      BY <3>4 DEF Restart
    <3>5. CASE UNCHANGED dispatchVars
      BY <3>5 DEF dispatchVars
    <3> QED
      BY <3>1, <3>2, <3>3, <3>4, <3>5 DEF DispatchNext
  <2>2. MaxMishaps \in Nat /\ mishaps \in 0..MaxMishaps
    BY DispatchAssumption DEF BooksTyped
  <2> QED
    BY <2>1, <2>2
<1>3. room' \in [Jobs -> 0..Quota]
  <2>1. ASSUME NEW j \in Jobs, room' = [room EXCEPT ![j] = 0]
        PROVE  room' \in [Jobs -> 0..Quota]
    BY <2>1, DispatchAssumption DEF BooksTyped
  <2>2. CASE room' = [j \in Jobs |-> 0]
    BY <2>2, DispatchAssumption
  <2>3. \/ UNCHANGED room
        \/ \E j \in Jobs : Admit(j) \/ room' = [room EXCEPT ![j] = 0]
        \/ room' = [j \in Jobs |-> 0]
    BY DEF DispatchNext, dispatchVars, Restart, Reset, Enqueue, CancelTasks,
           DispatcherStep, Peek, Claim, Acquire, Select, Update, FileMissing,
           ConversionStep, FirstCheck, MarkRunning, ConversionRaises,
           SecondCheck, MarkCompleted, Settle, Proceed
  <2> QED
    BY <2>1, <2>2, <2>3, AdmitTyped DEF BooksTyped
<1> QED
  BY <1>1, <1>2, <1>3 DEF BooksTyped

LEMMA TypesInit == DispatchInit => LoopTyped /\ BooksTyped
<1> SUFFICES ASSUME DispatchInit PROVE LoopTyped /\ BooksTyped
  OBVIOUS
<1>1. LoopTyped
  BY DEF DispatchInit, LoopTyped, Places
<1>2. Cardinality(Tasks) \in Nat
  BY FS_CardinalityType, FiniteDispatch
<1>3. BooksTyped
  BY <1>2, DispatchAssumption DEF DispatchInit, BooksTyped
<1> QED
  BY <1>1, <1>3

LEMMA TypesTogether ==
  DispatchInv /\ SemaphoreInv /\ LoopTyped /\ BooksTyped => TypeOK
<1> SUFFICES ASSUME DispatchInv, SemaphoreInv, LoopTyped, BooksTyped
             PROVE  TypeOK
  OBVIOUS
<1>1. free \in 0..Capacity
  BY CountsAreNat, CapacityIsNat DEF SemaphoreInv, SemaphoreAccounted
<1> QED
  BY <1>1 DEF DispatchInv, LoopTyped, BooksTyped, TypeOK

(* The queue keeps its types: the free units never exceed doc_worker_size,
   the index of the round-robin never leaves the list of connectors for
   something that is no lane, slots read at the gate never exceed the
   quota. *)
THEOREM DispatchTyped == DispatchSpec => []TypeOK
<1>1. DispatchInv /\ [DispatchNext]_dispatchVars => DispatchInv'
  BY DispatchInvStep
<1> QED
  BY <1>1, DispatchInvInit, SemaphoreInit, SemaphoreStep, TypesInit,
     LoopStepTyped, BooksStepTyped, TypesTogether, PTL DEF DispatchSpec
-----------------------------------------------------------------------------
(* ConversionSlots *)

LEMMA PhaseOf ==
  ASSUME NEW t \in Tasks
  PROVE  Phase[t] = IF conv[t] # "none" THEN "converting"
                    ELSE IF Waits(t) THEN "waiting" ELSE "over"
  BY DEF Phase

LEMMA PhaseOfNext ==
  ASSUME NEW t \in Tasks
  PROVE  Phase'[t] = IF conv'[t] # "none" THEN "converting"
                     ELSE IF Waits(t)' THEN "waiting" ELSE "over"
  BY DEF Phase

LEMMA ConvertingPhase == Slots!In("converting") = Converting
  BY PhaseOf DEF Slots!In, Converting

(* No conversion begins or ends: a task that no longer waits has been
   withdrawn, and what is over stays so. *)
LEMMA WithdrawStep ==
  ASSUME UNCHANGED conv,
         \A t \in Tasks : conv[t] = "none" /\ ~Waits(t) => ~Waits(t)'
  PROVE  Slots!Next
<1> DEFINE S == {t \in Tasks : Phase[t] = "waiting" /\ Phase'[t] = "over"}
<1>1. Phase' = [t \in Tasks |-> IF t \in S THEN "over" ELSE Phase[t]]
  <2>1. \A t \in Tasks : Phase'[t] = IF t \in S THEN "over" ELSE Phase[t]
    BY PhaseOf, PhaseOfNext
  <2> QED
    BY <2>1 DEF Phase
<1>2. S \subseteq Slots!In("waiting") /\ S \in SUBSET Tasks
  BY DEF Slots!In
<1> QED
  BY <1>1, <1>2 DEF Slots!Next, Slots!Withdraw, Slots!Over

(* A task of those that wait begins, and fits. *)
LEMMA StartStep ==
  ASSUME DispatchInv, SemaphoreInv, NEW t \in Tasks,
         conv[t] = "none", Waits(t), ~Blocked(t), Dispatch(t),
         \A u \in Tasks \ {t} : Waits(u)' <=> Waits(u)
  PROVE  Slots!Next
<1>1. conv' = [conv EXCEPT ![t] = "started"] /\ free' = free - Weight(t)
  BY DEF Dispatch
<1>2. Phase' = [Phase EXCEPT ![t] = "converting"]
  <2>1. \A u \in Tasks : conv'[u] = IF u = t THEN "started" ELSE conv[u]
    BY <1>1 DEF DispatchInv
  <2>2. \A u \in Tasks : Phase'[u] = IF u = t THEN "converting" ELSE Phase[u]
    BY <2>1, PhaseOf, PhaseOfNext
  <2> QED
    BY <2>2 DEF Phase
<1>3. t \in Slots!In("waiting")
  BY PhaseOf DEF Slots!In
<1>4. Converting' = Converting \cup {t}
  BY <1>1 DEF Converting, DispatchInv
<1>5. /\ free' >= 0
      /\ free' + Cardinality(Converting') + Cardinality(Converting' \cap Large)
           = Capacity
      /\ free' \in Nat /\ IsFiniteSet(Converting')
  BY TakeUnits DEF SemaphoreAccounted
<1>6. /\ Cardinality(Converting') \in Nat
      /\ Cardinality(Converting' \cap Large) \in Nat
  BY <1>5, FS_Subset, FS_CardinalityType
<1>7. Slots!Units(Slots!In("converting") \cup {t}) <= Capacity
  <2>1. Slots!In("converting") \cup {t} = Converting'
    BY <1>4, ConvertingPhase
  <2>2. Cardinality(Converting') + Cardinality(Converting' \cap Large)
          <= Capacity
    BY <1>5, <1>6, CapacityIsNat
  <2> QED
    BY <2>1, <2>2 DEF Slots!Units, Slots!Cardinality, Cardinality
<1> QED
  BY <1>2, <1>3, <1>7 DEF Slots!Next, Slots!Start

(* A conversion ends for good: its row is marked or has an outcome. *)
LEMMA FinishStep ==
  ASSUME DispatchInv, NEW t \in Tasks, conv[t] # "none",
         NEW s \in Terminal, Settle(t, s)
  PROVE  Slots!Next
<1>1. /\ conv' = [conv EXCEPT ![t] = "none"] /\ Written(t, s)
      /\ UNCHANGED <<held, picked>>
  BY DEF Settle, Release, loopVars
<1>2. Marked(t) /\ held # t
  BY UnderWayIsMarked
<1>3. /\ \A u \in Tasks \ {t} : status'[u] = status[u]
      /\ status'[t] \in Terminal \cup {"running", "cancel_pending"}
  <2>1. s \in Statuses
    BY DEF Statuses
  <2> QED
    BY <1>1, <1>2, <2>1, WrittenRow DEF Marked
<1>4. \A u \in Tasks : conv'[u] = IF u = t THEN "none" ELSE conv[u]
  BY <1>1 DEF DispatchInv
<1>5. t \notin picked
  BY <1>2 DEF DispatchInv, Marked
<1>6. ~Waits(t)'
  BY <1>1, <1>2, <1>3, <1>5 DEF Waits, Terminal
<1>7. \A u \in Tasks \ {t} : Waits(u)' <=> Waits(u)
  BY <1>1, <1>3 DEF Waits
<1>8. Phase' = [u \in Tasks |-> IF u \in {t} THEN "over" ELSE Phase[u]]
  <2>1. \A u \in Tasks : Phase'[u] = IF u \in {t} THEN "over" ELSE Phase[u]
    BY <1>4, <1>6, <1>7, PhaseOf, PhaseOfNext
  <2> QED
    BY <2>1 DEF Phase
<1>9. t \in Slots!In("converting")
  BY PhaseOf DEF Slots!In
<1> QED
  BY <1>8, <1>9 DEF Slots!Next, Slots!Finish, Slots!Over

(* A write of "running" leaves the conversion where it is. *)
LEMMA ProceedStep ==
  ASSUME DispatchInv, NEW t \in Tasks, conv[t] # "none",
         NEW place \in {"cleared", "working", "converted"},
         Proceed(t, place),
         UNCHANGED <<status, mishaps>> \/ Written(t, "running")
  PROVE  UNCHANGED Phase
<1>1. /\ conv' = [conv EXCEPT ![t] = place] /\ UNCHANGED <<held, picked>>
  BY DEF Proceed, loopVars
<1>2. \A u \in Tasks \ {t} : status'[u] = status[u]
  BY WrittenRow DEF Statuses
<1>3. \A u \in Tasks : conv'[u] = IF u = t THEN place ELSE conv[u]
  BY <1>1 DEF DispatchInv
<1>4. \A u \in Tasks \ {t} : Waits(u)' <=> Waits(u)
  BY <1>1, <1>2 DEF Waits
<1>5. \A u \in Tasks : Phase'[u] = Phase[u]
  BY <1>3, <1>4, PhaseOf, PhaseOfNext
<1> QED
  BY <1>5 DEF Phase

LEMMA ConversionSlotStep ==
  ASSUME DispatchInv, NEW t \in Tasks, FileMissing(t) \/ ConversionStep(t)
  PROVE  [Slots!Next]_Phase
<1>1. conv[t] # "none"
  BY DEF FileMissing, ConversionStep, FirstCheck, MarkRunning,
         ConversionRaises, SecondCheck, MarkCompleted
<1>2. \/ \E s \in Terminal : Settle(t, s)
      \/ \E place \in {"cleared", "working", "converted"} :
           /\ Proceed(t, place)
           /\ UNCHANGED <<status, mishaps>> \/ Written(t, "running")
  BY DEF FileMissing, ConversionStep, FirstCheck, MarkRunning,
         ConversionRaises, SecondCheck, MarkCompleted, Terminal
<1> QED
  BY <1>1, <1>2, FinishStep, ProceedStep

(* Restart: what was converted is over, and what was submitted, too. *)
LEMMA RestartSlotStep ==
  ASSUME DispatchInv, Restart
  PROVE  Slots!Next
<1>1. /\ status' = [t \in Tasks |-> RecoveredStatus(status[t])]
      /\ conv' = [t \in Tasks |-> "none"] /\ held' = None /\ picked' = {}
  BY DEF Restart, Reset
<1>2. \A t \in Tasks : Waits(t)' <=> status[t] = "none"
  BY <1>1, DispatchAssumption DEF Waits, RecoveredStatus, DispatchInv, Statuses,
                                  Terminal
<1>3. \A t \in Tasks : status[t] = "none" => conv[t] = "none" /\ Waits(t)
  BY DEF DispatchInv, RowsMatchConversions, Waits
<1> DEFINE S == {t \in Tasks : Phase[t] = "waiting" /\ Phase'[t] = "over"}
<1>4. S \subseteq Slots!In("waiting") /\ S \in SUBSET Tasks
  BY DEF Slots!In
<1>5. \A t \in Tasks : t \in Slots!In("converting") <=> conv[t] # "none"
  BY ConvertingPhase DEF Converting
<1>6. Phase' = [t \in Tasks |-> IF t \in S \cup Slots!In("converting")
                               THEN "over" ELSE Phase[t]]
  <2>1. \A t \in Tasks : Phase'[t] = IF status[t] = "none" THEN "waiting"
                                     ELSE "over"
    BY <1>1, <1>2, PhaseOfNext
  <2>2. \A t \in Tasks :
          Phase'[t] = IF t \in S \cup Slots!In("converting") THEN "over"
                      ELSE Phase[t]
    BY <1>3, <1>5, <2>1, PhaseOf
  <2> QED
    BY <2>2 DEF Phase
<1> QED
  BY <1>4, <1>6 DEF Slots!Next, Slots!Abandon, Slots!Over

LEMMA ClaimSlotStep ==
  ASSUME DispatchInv, SemaphoreInv, Claim
  PROVE  [Slots!Next]_Phase
<1>1. held = None /\ UNCHANGED picked
  BY DEF DispatchInv, Claim
<1>2. CASE UNCHANGED <<status, held, conv>>
  BY <1>1, <1>2, WithdrawStep DEF Waits
<1>3. ASSUME NEW t \in Heads(QueuedIn(lane)),
             status' = [status EXCEPT ![t] = "running"]
      PROVE  /\ t \in Tasks /\ status[t] = "queued" /\ conv[t] = "none"
             /\ \A u \in Tasks \ {t} : status'[u] = status[u]
  <2>1. t \in Tasks /\ status[t] = "queued"
    BY DEF Heads, QueuedIn, Rows
  <2>2. conv[t] = "none"
    BY <2>1 DEF DispatchInv, RowsMatchConversions
  <2> QED
    BY <1>3, <2>1, <2>2 DEF DispatchInv
<1>4. ASSUME NEW t \in Heads(QueuedIn(lane)),
             status' = [status EXCEPT ![t] = "running"],
             ~Blocked(t), Dispatch(t)
      PROVE  Slots!Next
  <2>1. held' = None
    BY <1>4 DEF Dispatch
  <2>2. \A u \in Tasks \ {t} : Waits(u)' <=> Waits(u)
    BY <1>1, <1>3, <1>4, <2>1 DEF Waits
  <2>3. t \in Tasks /\ conv[t] = "none" /\ Waits(t)
    BY <1>3, <1>4 DEF Waits
  <2> QED
    BY <1>4, <2>2, <2>3, StartStep
<1>5. ASSUME NEW t \in Heads(QueuedIn(lane)),
             status' = [status EXCEPT ![t] = "running"],
             held' = t, UNCHANGED conv
      PROVE  Slots!Next
  <2>1. \A u \in Tasks : ~Waits(u) => ~Waits(u)'
    BY <1>1, <1>3, <1>5 DEF Waits
  <2> QED
    BY <1>5, <2>1, WithdrawStep
<1> QED
  BY <1>2, <1>3, <1>4, <1>5 DEF Claim

LEMMA AcquireSlotStep ==
  ASSUME DispatchInv, SemaphoreInv, Acquire
  PROVE  Slots!Next
<1>1. /\ ~Blocked(held) /\ Dispatch(held) /\ held \in Tasks
      /\ UNCHANGED <<status, picked>>
  BY DEF Acquire, SemaphoreInv
<1>2. conv[held] = "none" /\ Waits(held)
  BY <1>1, DispatchAssumption DEF DispatchInv, Waits
<1>3. held' = None
  BY <1>1 DEF Dispatch
<1>4. \A u \in Tasks \ {held} : Waits(u)' <=> Waits(u)
  BY <1>1, <1>3, DispatchAssumption DEF Waits
<1> QED
  BY <1>1, <1>2, <1>4, StartStep

(* Promotion: candidates are pending, and the update takes back only what
   was cancelled since. *)
LEMMA PromotionSlotStep ==
  ASSUME DispatchInv, NEW op \in UserLanes, Select(op) \/ Update(op)
  PROVE  Slots!Next
<1>1. UNCHANGED <<conv, held>>
  BY DEF Select, Update
<1>2. CASE Update(op)
  <2>1. /\ \A t \in Tasks :
             status'[t] = IF t \in picked THEN "queued" ELSE status[t]
        /\ picked' = {}
    BY <1>2 DEF Update
  <2> QED
    BY <1>1, <2>1, WithdrawStep DEF Waits
<1>3. CASE Select(op)
  <2>1. PICK C \in Candidates(op) : picked' = C
    BY <1>3 DEF Select
  <2>2. \A t \in C : status[t] = "pending"
    BY <2>1 DEF Candidates, Oldest, kSubset, Pending, Rows
  <2>3. UNCHANGED status
    BY <1>3 DEF Select
  <2> QED
    BY <1>1, <2>1, <2>2, <2>3, WithdrawStep DEF Waits
<1> QED
  BY <1>2, <1>3

LEMMA JobSlotStep ==
  ASSUME DispatchInv, NEW j \in Jobs, Admit(j) \/ Enqueue(j) \/ CancelTasks(j)
  PROVE  Slots!Next
<1>1. UNCHANGED <<conv, held, picked>>
  BY DEF Admit, Enqueue, CancelTasks, loopVars
<1>2. \A t \in Tasks : ~Waits(t) => status'[t] \notin {"none", "pending", "queued"}
  <2>1. CASE Admit(j)
    BY <2>1 DEF Admit, Waits
  <2>2. CASE Enqueue(j)
    <3>1. PICK Q : /\ status' = [t \in Tasks |-> IF t \in Q THEN "queued"
                                  ELSE IF t \in TasksOf(j) THEN "pending"
                                  ELSE status[t]]
                   /\ Q \subseteq TasksOf(j)
      BY <2>2 DEF Enqueue, kSubset
    <3>2. \A t \in TasksOf(j) : status[t] = "none"
      BY <2>2 DEF Enqueue
    <3> QED
      BY <3>1, <3>2 DEF Waits
  <2>3. CASE CancelTasks(j)
    BY <2>3 DEF CancelTasks, CancelledStatus, Waits
  <2> QED
    BY <2>1, <2>2, <2>3
<1> QED
  BY <1>1, <1>2, WithdrawStep DEF Waits

LEMMA SlotStep ==
  DispatchInv /\ SemaphoreInv /\ [DispatchNext]_dispatchVars
    => [Slots!Next]_Phase
<1> SUFFICES ASSUME DispatchInv, SemaphoreInv, [DispatchNext]_dispatchVars
             PROVE  [Slots!Next]_Phase
  OBVIOUS
<1>1. CASE UNCHANGED <<status, conv, held, picked>>
  BY <1>1 DEF Phase, Waits
<1>2. CASE Peek
  BY <1>1, <1>2 DEF Peek
<1>3. CASE UNCHANGED dispatchVars
  BY <1>1, <1>3 DEF dispatchVars, loopVars
<1> QED
  BY <1>2, <1>3, JobSlotStep, ClaimSlotStep, AcquireSlotStep,
     PromotionSlotStep, ConversionSlotStep, RestartSlotStep
     DEF DispatchNext, DispatcherStep

LEMMA SlotInit == DispatchInit => Slots!Init
  BY DEF DispatchInit, Slots!Init, Phase, Waits

(* The queue implements ConversionSlots: whatever lanes, turns, promotions,
   cancellations, lost writes and restarts do, Docling begins at most once
   on a task, and only when the task fits. *)
THEOREM SlotRefinement == DispatchSpec => ImplementsSlots
<1>1. DispatchInv /\ [DispatchNext]_dispatchVars => DispatchInv'
  BY DispatchInvStep
<1> QED
  BY <1>1, DispatchInvInit, SemaphoreInit, SemaphoreStep, SlotInit, SlotStep,
     PTL DEF DispatchSpec, ImplementsSlots, Slots!Spec
=============================================================================
