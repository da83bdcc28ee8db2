------------------------ MODULE ConversionDispatch ------------------------
(***************************************************************************)
(* The conversion queue of the digitize service: the rows of the table     *)
(* conversion_tasks, the dispatcher that claims them lane by lane          *)
(* (workers/conversion_dispatcher.py), the weighted semaphore that bounds  *)
(* the conversions (workers/conversion_semaphore.py) and the statements on *)
(* the table (db/manager.py).  The jobs are an open environment here: any  *)
(* admitted job may enqueue its tasks once and cancel them at any time.    *)
(* DigitizeJobs puts the job API and the pipelines in its place.           *)
(*                                                                         *)
(* The dispatcher and the conversions are coroutines of one event loop and *)
(* run from one await to the next; the pipelines are threads and cancel at *)
(* any step.  EventLoopFree says that no coroutine is between two awaits.  *)
(***************************************************************************)
EXTENDS Integers, Sequences, SequencesExt, FiniteSets, FiniteSetsExt

CONSTANTS
  Jobs,        \* submitted jobs
  Tasks,       \* conversion tasks, one per file
  JobOf,       \* the job of each task
  LaneOf,      \* "ingestion" or "digitization" (user lanes), or a connector
  Connectors,
  Large,       \* the tasks of weight 2: page_count >= heavy_doc_page_threshold
  Capacity,    \* doc_worker_size
  Quota,       \* ingestion_queue_quota and digitization_queue_quota
  MaxMishaps,  \* bound: lost status writes and restarts
  None

UserLanes == {"ingestion", "digitization"}
Lanes == UserLanes \cup Connectors

ASSUME DispatchAssumption ==
  /\ Capacity \in Nat \ {0} /\ Quota \in Nat \ {0} /\ MaxMishaps \in Nat
  /\ JobOf \in [Tasks -> Jobs] /\ LaneOf \in [Tasks -> Lanes]
  /\ Large \subseteq Tasks
  /\ None \notin Tasks /\ Connectors \cap UserLanes = {}
\* Requests and configured connectors; rows are counted, lists have a length.
ASSUME FiniteDispatch == IsFiniteSet(Tasks) /\ IsFiniteSet(Connectors)

VARIABLES
  status,   \* conversion_tasks.status; "none" before the row exists
  queuedAt, \* conversion_tasks.queued_at of the tasks that wait, else 0: the
            \* how manyth of these times it is, equal within one insert
  free,     \* WeightedSemaphore._available
  at,       \* where dispatch_loop is
  turn,     \* _op_turn: 0 ingestion, 1 digitization, 2 connectors
  rr,       \* _connector_rr_index
  lane,     \* the lane whose head the dispatcher peeked
  size,     \* len(cids) of the connector turn
  held,     \* the claimed task that waits in acquire
  picked,   \* the candidates promote_pending selected
  conv,     \* where _run_conversion of a task is
  room,     \* free slots each admitted job read at the gate
  mishaps

loopVars == <<at, turn, rr, lane, size, held, picked>>
dispatchVars == <<status, queuedAt, free, loopVars, conv, room, mishaps>>

Terminal == {"completed", "failed", "cancelled"}
Statuses == {"none", "pending", "queued", "running", "cancel_pending"}
              \cup Terminal
Places == {"asleep", "claiming", "acquiring", "promoting ingestion",
           "updating ingestion", "promoting digitization",
           "updating digitization"}

TypeOK ==
  /\ status \in [Tasks -> Statuses]
  /\ queuedAt \in [Tasks -> 0..Cardinality(Tasks)]
  /\ free \in 0..Capacity
  /\ at \in Places /\ turn \in 0..2 /\ rr \in Nat /\ size \in Nat
  /\ lane \in Lanes \cup {None} /\ held \in Tasks \cup {None}
  /\ picked \subseteq Tasks
  /\ conv \in [Tasks -> {"none", "started", "cleared", "working", "converted"}]
  /\ room \in [Jobs -> 0..Quota]
  /\ mishaps \in 0..MaxMishaps

DispatchInit ==
  /\ status = [t \in Tasks |-> "none"] /\ queuedAt = [t \in Tasks |-> 0]
  /\ free = Capacity
  /\ at = "asleep" /\ turn = 0 /\ rr = 0
  /\ lane = None /\ size = 0 /\ held = None /\ picked = {}
  /\ conv = [t \in Tasks |-> "none"]
  /\ room = [j \in Jobs |-> 0] /\ mishaps = 0
-----------------------------------------------------------------------------
(* The table *)

TasksOf(j) == {t \in Tasks : JobOf[t] = j}
Rows(s) == {t \in Tasks : status[t] = s}
OperationOf(t) ==
  IF LaneOf[t] \in Connectors THEN "ingestion" ELSE LaneOf[t]
Weight(t) == IF t \in Large THEN 2 ELSE 1

QueuedIn(l) == {t \in Rows("queued") : LaneOf[t] = l}

(* ORDER BY queued_at LIMIT 1: rows of one batch have no order. *)
Heads(S) == {t \in S : \A u \in S : queuedAt[t] <= queuedAt[u]}

(* LIMIT n: the sets of n rows no other row of S precedes. *)
Oldest(n, S) ==
  {C \in kSubset(n, S) :
     \A t \in C, u \in S \ C : queuedAt[t] <= queuedAt[u]}

(* The tasks of S get a new queued_at; what is kept of it is the order. *)
Now == Cardinality(Tasks) + 1

Stamp(S, time) ==
  LET since == [t \in Tasks |-> IF t \in S THEN time ELSE queuedAt[t]]
  IN queuedAt' = [t \in Tasks |->
       Cardinality({since[u] : u \in {v \in Tasks : since[v] \in 1..since[t]}})]

(* They wait no more. *)
LeaveLine(S) == Stamp(S, 0)

(* update_task_status, which swallows a database error: the write is lost. *)
Written(t, s) ==
  \/ /\ status' = [status EXCEPT ![t] = s] /\ UNCHANGED mishaps
  \/ /\ mishaps < MaxMishaps /\ mishaps' = mishaps + 1 /\ UNCHANGED status

EventLoopFree ==
  /\ at \in {"asleep", "acquiring"}
  /\ \A t \in Tasks : conv[t] \notin {"cleared", "converted"}
-----------------------------------------------------------------------------
(* Admission and cancellation, as the job API and the pipelines use them *)

(* check_quota_atomic: all queued rows of the operation count, the
   connectors' too; a connector job passes no gate. *)
QueuedFor(op) == Cardinality({t \in Rows("queued") : OperationOf(t) = op})

Gate(j) ==
  \E t \in TasksOf(j) :
    /\ LaneOf[t] \in UserLanes
    /\ QueuedFor(OperationOf(t)) < Quota
    /\ room' = [room EXCEPT ![j] = Quota - QueuedFor(OperationOf(t))]

Admit(j) ==
  /\ EventLoopFree
  /\ room[j] = 0 /\ \A t \in TasksOf(j) : status[t] = "none"
  /\ Gate(j)
  /\ UNCHANGED <<status, queuedAt, free, loopVars, conv, mishaps>>

(* enqueue_conversion_tasks and create_conversion_tasks_batch: one
   transaction, one queued_at.  The slots are those read at the gate. *)
Enqueue(j) ==
  LET T == TasksOf(j)
      connector == \A t \in T : LaneOf[t] \in Connectors
      slots == IF connector \/ room[j] > Cardinality(T)
               THEN Cardinality(T) ELSE room[j]
  IN /\ EventLoopFree
     /\ connector \/ room[j] > 0
     /\ \A t \in T : status[t] = "none"
     /\ \E Q \in kSubset(slots, T) :
          status' = [t \in Tasks |-> IF t \in Q THEN "queued"
                                     ELSE IF t \in T THEN "pending"
                                     ELSE status[t]]
     /\ Stamp(T, Now)
     /\ room' = [room EXCEPT ![j] = 0]
     /\ UNCHANGED <<free, loopVars, conv, mishaps>>

(* Mutant: finished tasks are cancelled, too. *)
CancelledAll(s) == IF s = "none" THEN s ELSE "cancelled"

(* cancel_tasks_for_job *)
CancelledStatus(s) ==
  CASE s \in {"pending", "queued"} -> "cancelled"
    [] s = "running" -> "cancel_pending"
    [] OTHER -> s

CancelTasks(j) ==
  LET T == TasksOf(j)
  IN /\ status' = [t \in Tasks |-> IF t \in T THEN CancelledStatus(status[t])
                                   ELSE status[t]]
     /\ LeaveLine(T)
     /\ UNCHANGED <<free, loopVars, conv, room, mishaps>>
-----------------------------------------------------------------------------
(* dispatch_loop *)

(* get_connector_ids_with_queued_tasks, oldest head first *)
ConnectorQueues ==
  LET C == {c \in Connectors : QueuedIn(c) # {}}
      Before(c, d) == \E t \in Heads(QueuedIn(c)), u \in Heads(QueuedIn(d)) :
                        queuedAt[t] <= queuedAt[u]
  IN {s \in SetToSeqs(C) :
        \A i, k \in DOMAIN s : i < k => Before(s[i], s[k])}

(* The lane of the turn, and how many connectors had queued tasks. *)
TurnLanes ==
  CASE turn = 0 -> {<<"ingestion", 0>>}
    [] turn = 1 -> {<<"digitization", 0>>}
    [] OTHER -> {<<s[(rr % Len(s)) + 1], Len(s)>> :
                   s \in {q \in ConnectorQueues : q # <<>>}}

(* promote_pending runs for both operations before the sleep; without a
   pending row it does nothing, and none appears before the sleep. *)
Pending(op) == {t \in Rows("pending") : LaneOf[t] = op}

Promoting(op) ==
  IF op = "ingestion" THEN "promoting ingestion" ELSE "promoting digitization"
Updating(op) ==
  IF op = "ingestion" THEN "updating ingestion" ELSE "updating digitization"

PromoteDigitization ==
  at' = IF Pending("digitization") # {} THEN Promoting("digitization")
        ELSE "asleep"

PromoteNext ==
  IF Pending("ingestion") # {} THEN at' = Promoting("ingestion")
  ELSE PromoteDigitization

(* Mutant: the turn stays where it is. *)
NextTurnStays(blocked) == blocked \in BOOLEAN /\ turn' = turn

NextTurn(blocked) == turn' = IF blocked THEN turn ELSE (turn + 1) % 3
Blocked(t) == Weight(t) > free

(* The tick up to the peek: no lane, an empty one, a head that does not
   fit, or a head to claim. *)
Peek ==
  /\ at = "asleep" /\ EventLoopFree
  /\ \/ /\ \A p \in TurnLanes : QueuedIn(p[1]) = {}
        /\ NextTurn(FALSE) /\ PromoteNext
        /\ UNCHANGED <<lane, size>>
     \/ \E p \in TurnLanes : \E t \in Heads(QueuedIn(p[1])) :
          \/ /\ Blocked(t)
             /\ NextTurn(TRUE) /\ PromoteNext
             /\ UNCHANGED <<lane, size>>
          \/ /\ ~Blocked(t)
             /\ lane' = p[1] /\ size' = p[2] /\ at' = "claiming"
             /\ UNCHANGED turn
  /\ UNCHANGED <<status, queuedAt, free, rr, held, picked, conv, room, mishaps>>

(* _dispatch_one once acquire has returned *)
Dispatch(t) ==
  /\ free' = free - Weight(t)
  /\ conv' = [conv EXCEPT ![t] = "started"]
  /\ rr' = IF size > 0 THEN (rr + 1) % size ELSE rr
  /\ NextTurn(FALSE) /\ PromoteNext
  /\ lane' = None /\ size' = 0 /\ held' = None

(* claim_head, a second statement: a pipeline may have cancelled the head
   since the peek, and the next one may be heavier or not be there.  A
   task that does not fit keeps the dispatcher in acquire. *)
Claim ==
  /\ at = "claiming"
  /\ \/ /\ QueuedIn(lane) = {}
        /\ NextTurn(FALSE) /\ PromoteNext
        /\ lane' = None /\ size' = 0
        /\ UNCHANGED <<status, queuedAt, free, rr, held, conv>>
     \/ \E t \in Heads(QueuedIn(lane)) :
          /\ status' = [status EXCEPT ![t] = "running"]
          /\ LeaveLine({t})
          /\ IF Blocked(t)
             THEN /\ at' = "acquiring" /\ held' = t
                  /\ UNCHANGED <<free, turn, rr, lane, size, conv>>
             ELSE Dispatch(t)
  /\ UNCHANGED <<picked, room, mishaps>>

Acquire ==
  /\ at = "acquiring" /\ EventLoopFree
  /\ ~Blocked(held)
  /\ Dispatch(held)
  /\ UNCHANGED <<status, queuedAt, picked, room, mishaps>>

(* promote_pending: the queue's headroom and the candidates ... *)
AfterPromotion(op) ==
  IF op = "ingestion" THEN PromoteDigitization ELSE at' = "asleep"

Candidates(op) ==
  LET pending == Pending(op)
      headroom == Quota - Cardinality(QueuedIn(op))
      n == IF headroom < Cardinality(pending) THEN headroom
           ELSE Cardinality(pending)
  IN IF headroom <= 0 THEN {{}} ELSE Oldest(n, pending)

Select(op) ==
  /\ at = Promoting(op)
  /\ \E C \in Candidates(op) :
       /\ picked' = C
       /\ IF C = {} THEN AfterPromotion(op) ELSE at' = Updating(op)
  /\ UNCHANGED <<status, queuedAt, free, turn, rr, lane, size, held, conv, room,
                 mishaps>>

(* ... and the update, by task_id alone: also of a candidate that was
   cancelled in between. *)
Update(op) ==
  /\ at = Updating(op)
  /\ status' = [t \in Tasks |-> IF t \in picked THEN "queued" ELSE status[t]]
  /\ Stamp(picked, Now)
  /\ picked' = {}
  /\ AfterPromotion(op)
  /\ UNCHANGED <<free, turn, rr, lane, size, held, conv, room, mishaps>>

DispatcherStep ==
  \/ Peek \/ Claim \/ Acquire
  \/ \E op \in UserLanes : Select(op) \/ Update(op)
-----------------------------------------------------------------------------
(* _run_conversion *)

(* The finally block *)
Release(t) == free' = free + Weight(t) /\ conv' = [conv EXCEPT ![t] = "none"]

Settle(t, s) ==
  /\ Written(t, s) /\ Release(t)
  /\ UNCHANGED <<queuedAt, loopVars, room>>

Proceed(t, place) ==
  /\ conv' = [conv EXCEPT ![t] = place]
  /\ UNCHANGED <<queuedAt, free, loopVars, room>>

(* Mutant: a missing file ends the conversion without a word. *)
FileMissingSilently(t) ==
  /\ conv[t] = "started" /\ EventLoopFree /\ Release(t)
  /\ UNCHANGED <<status, queuedAt, loopVars, room, mishaps>>

(* The staged file is gone: its pipeline has ended without this task. *)
FileMissing(t) ==
  conv[t] = "started" /\ EventLoopFree /\ Settle(t, "failed")

(* Mutant: a cancelled conversion returns before the try block. *)
FirstCheckLeaks(t) ==
  /\ conv[t] = "started" /\ EventLoopFree
  /\ IF status[t] = "cancel_pending"
     THEN Written(t, "cancelled") /\ Proceed(t, "none")
     ELSE Proceed(t, "cleared") /\ UNCHANGED <<status, mishaps>>

(* Check 1: _cancel_if_pending *)
FirstCheck(t) ==
  /\ conv[t] = "started" /\ EventLoopFree
  /\ IF status[t] = "cancel_pending"
     THEN Settle(t, "cancelled")
     ELSE Proceed(t, "cleared") /\ UNCHANGED <<status, mishaps>>

(* The write that follows it, whatever the row says by then. *)
MarkRunning(t) ==
  conv[t] = "cleared" /\ Written(t, "running") /\ Proceed(t, "working")

(* The child process raises: JobCancelledError once it has seen
   cancel_pending between two chunks, or any other error. *)
ConversionRaises(t) ==
  /\ conv[t] = "working" /\ EventLoopFree
  /\ \/ status[t] = "cancel_pending" /\ Settle(t, "cancelled")
     \/ Settle(t, "failed")

(* It returns: check 2, and the write that follows it. *)
SecondCheck(t) ==
  /\ conv[t] = "working" /\ EventLoopFree
  /\ IF status[t] = "cancel_pending"
     THEN Settle(t, "cancelled")
     ELSE Proceed(t, "converted") /\ UNCHANGED <<status, mishaps>>

MarkCompleted(t) == conv[t] = "converted" /\ Settle(t, "completed")

ConversionStep(t) ==
  \/ FirstCheck(t) \/ MarkRunning(t) \/ ConversionRaises(t)
  \/ SecondCheck(t) \/ MarkCompleted(t)
-----------------------------------------------------------------------------
(* Mutant: what was running is queued again. *)
RequeuedStatus(s) ==
  CASE s = "running" -> "queued"
    [] s \in {"queued", "pending"} -> "failed"
    [] OTHER -> s

(* The service restarts: recover_conversion_tasks runs before the
   dispatcher and before any request. *)
RecoveredStatus(s) ==
  IF s \in {"running", "queued", "pending"} THEN "failed" ELSE s

Reset ==
  /\ status' = [t \in Tasks |-> RecoveredStatus(status[t])]
  /\ queuedAt' = [t \in Tasks |-> 0] /\ free' = Capacity
  /\ at' = "asleep" /\ turn' = 0 /\ rr' = 0
  /\ lane' = None /\ size' = 0 /\ held' = None /\ picked' = {}
  /\ conv' = [t \in Tasks |-> "none"] /\ room' = [j \in Jobs |-> 0]

Restart == mishaps < MaxMishaps /\ mishaps' = mishaps + 1 /\ Reset

DispatchNext ==
  \/ \E j \in Jobs : Admit(j) \/ Enqueue(j) \/ CancelTasks(j)
  \/ DispatcherStep
  \/ \E t \in Tasks : FileMissing(t) \/ ConversionStep(t)
  \/ Restart

DispatchSpec == DispatchInit /\ [][DispatchNext]_dispatchVars

(* The loop runs; a coroutine that is ready gets its turn although others
   are ready again and again (asyncio's ready queue is a FIFO); and a child
   process ends: nothing bounds its time, but Docling converts a finite
   file. *)
DispatchFairness ==
  /\ WF_dispatchVars(DispatcherStep)
  /\ \A t \in Tasks : SF_dispatchVars(ConversionStep(t))

FairDispatchSpec == DispatchSpec /\ DispatchFairness
-----------------------------------------------------------------------------
(* The semaphore's units are those of the conversions under way, two for a
   large one: none is lost when a task ends early, fails or is cancelled,
   and none is given twice, so that Docling never runs beyond
   doc_worker_size. *)
Converting == {t \in Tasks : conv[t] # "none"}

SemaphoreAccounted ==
  /\ free >= 0
  /\ free + Cardinality(Converting) + Cardinality(Converting \cap Large)
       = Capacity

(* A task under way, or claimed and waiting for its units, has a row that
   says so, and no other row says so: nothing is converted twice at once
   and nothing is left marked running, except by a lost write or a
   restart. *)
RowsMatchConversions ==
  \A t \in Tasks :
    LET underWay == conv[t] # "none" \/ held = t
        marked == status[t] \in {"running", "cancel_pending"}
    IN /\ underWay => marked
       /\ marked => underWay \/ mishaps > 0

(* A pipeline that has read "completed" or "failed" has read the last word:
   neither a late cancellation, a promotion, nor recovery rewrites it. *)
OutcomeIsFinal ==
  [][\A t \in Tasks :
       status[t] \in {"completed", "failed"} => status'[t] = status[t]]_status

(* Where a task is for ConversionSlots.  One that waits in acquire has not
   begun; a candidate that was cancelled comes back by the update. *)
Waits(t) ==
  status[t] \in {"none", "pending", "queued"} \/ held = t \/ t \in picked

Phase ==
  [t \in Tasks |-> IF conv[t] # "none" THEN "converting"
                   ELSE IF Waits(t) THEN "waiting" ELSE "over"]

(* A task is converted at most once, and only when it fits: neither the
   update by task_id alone, which brings cancelled candidates back, nor a
   lost write, a cancellation or recovery lets Docling begin again on a
   task that it has begun once. *)
Slots == INSTANCE ConversionSlots WITH phase <- Phase
ImplementsSlots == Slots!Spec

(* "with no lane ever starving" (conversion_dispatcher.py:17): what is
   queued or waits for the quota leaves the queue, also behind a heavy head
   and with the other lanes busy. *)
NoLaneStarves ==
  \A t \in Tasks :
    status[t] \in {"pending", "queued"} ~>
      status[t] \notin {"pending", "queued"}
=============================================================================
