--------------------------- MODULE DigitizeJobs ---------------------------
(***************************************************************************)
(* The jobs of the digitize service on top of ConversionDispatch: the job  *)
(* API (api/v1/jobs.py, utils/jobs.py), the pipeline of each job           *)
(* (pipeline/ingest.py, pipeline/digitize.py, processing/orchestrator.py), *)
(* the status manager (utils/db.py) and crash recovery.  Processing,       *)
(* chunking and indexing of a converted document are one future.           *)
(*                                                                         *)
(* API handlers are coroutines of the event loop the dispatcher runs in; a *)
(* pipeline is a thread of its own, and so is each future.  Only the last  *)
(* step of a cancelled pipeline is back in the event loop.                 *)
(***************************************************************************)
EXTENDS ConversionDispatch, Functions

CONSTANTS
  MaxCancels,   \* bound: cancel requests
  MaxSlips      \* bound: errors that are swallowed or only logged

ASSUME JobsAssumption ==
  /\ MaxCancels \in Nat /\ MaxSlips \in Nat
  /\ None \notin Jobs \cup Terminal \cup {"in_progress"}
\* create_job: "Only 1 file allowed for digitization."
ASSUME OneFileToDigitize ==
  \A t, u \in Tasks :
    LaneOf[t] = "digitization" /\ JobOf[u] = JobOf[t] => u = t

VARIABLES
  job,      \* jobs.status; "none" before the row exists
  doc,      \* documents.status of each task's document
  pipe,     \* where the pipeline of a job is
  latched,  \* is_cancelled of process_documents
  waiting,  \* pending_task_ids
  file,     \* the document process_documents takes a task for
  todo,     \* tasks the current poll cycle has still to look at
  future,   \* the downstream work on a converted document
  write,    \* the job status _update_job is about to write, after its read
  late,     \* futures about to write IN_PROGRESS, after their read
  api,      \* the job a cancel request has read and not yet written
  cancels,
  slips     \* errors of the database that db_manager swallowed (None, [],
            \* False or 0 for an answer), failures that were only logged

bounds == <<cancels, slips>>
jobVars == <<job, doc, pipe, latched, waiting, file, todo, future, write,
             late, api, bounds>>
vars == <<dispatchVars, jobVars>>

Ended == {"completed", "failed", "cancelled"}
Protected == Ended \cup {"cancel_pending"}

JobTypeOK ==
  /\ TypeOK
  /\ job \in [Jobs -> Protected \cup
                      {"none", "accepted", "in_progress", "deleted"}]
  /\ doc \in [Tasks -> Ended \cup
                       {"none", "accepted", "in_progress", "digitized"}]
  /\ pipe \in [Jobs -> {"none", "created", "starting", "checking", "polling",
                        "signalling", "phase 1", "later phase 1", "phase 2",
                        "later phase 2", "concluding", "raised", "ending",
                        "ended"}]
  /\ latched \in [Jobs -> BOOLEAN]
  /\ waiting \in [Jobs -> SUBSET Tasks] /\ file \in [Tasks -> Tasks]
  /\ todo \in [Jobs -> SUBSET Tasks]
  /\ future \in [Tasks -> BOOLEAN] /\ late \subseteq Tasks
  /\ write \in [Jobs -> Ended \cup {"in_progress", None}]
  /\ api \in Jobs \cup {None}
  /\ cancels \in 0..MaxCancels /\ slips \in 0..MaxSlips

Init ==
  /\ DispatchInit
  /\ job = [j \in Jobs |-> "none"] /\ doc = [t \in Tasks |-> "none"]
  /\ pipe = [j \in Jobs |-> "none"] /\ latched = [j \in Jobs |-> FALSE]
  /\ waiting = [j \in Jobs |-> {}] /\ todo = [j \in Jobs |-> {}]
  /\ file = [t \in Tasks |-> t]
  /\ future = [t \in Tasks |-> FALSE] /\ late = {}
  /\ write = [j \in Jobs |-> None] /\ api = None
  /\ cancels = 0 /\ slips = 0

Digitizes(j) == \A t \in TasksOf(j) : LaneOf[t] = "digitization"
HasRow(j) == job[j] \notin {"none", "deleted"}
(* An error of is_job_cancelled is a cancellation that comes a look later. *)
IsCancelled(j) == job[j] \in {"cancel_pending", "cancelled"}
(* Mutant: the loop ends with work on documents under way. *)
FuturesForgotten(j) == {t \in TasksOf(j) : FALSE}
Futures(j) == {t \in TasksOf(j) : future[t] \/ t \in late}
LoopFree == EventLoopFree /\ api = None

(* Rows found by job_id: deleting the job sets it to NULL. *)
Found(j) == IF HasRow(j) THEN TasksOf(j) ELSE {}

Go(j, place) == pipe' = [pipe EXCEPT ![j] = place]
SetDocs(S, s) == doc' = [t \in Tasks |-> IF t \in S THEN s ELSE doc[t]]

Slip == slips < MaxSlips /\ slips' = slips + 1 /\ UNCHANGED cancels

(* update_document answers an error with False: a warning is all that comes
   of it. *)
WriteDocs(S, s) ==
  \/ SetDocs(S, s) /\ UNCHANGED bounds
  \/ Slip /\ UNCHANGED doc

Stored(j, s) == [job EXCEPT ![j] = IF HasRow(j) THEN s ELSE @]

(* So does update_job, and _update_job gives up on a job it cannot read. *)
WriteJob(j, s) ==
  \/ job' = Stored(j, s) /\ UNCHANGED bounds
  \/ Slip /\ UNCHANGED job
-----------------------------------------------------------------------------
(* api/v1/jobs.py *)

(* create_job up to the gate; it then awaits the upload and its hashes. *)
CreateJob(j) ==
  pipe[j] = "none" /\ api = None /\ Admit(j) /\ UNCHANGED jobVars

(* initialize_job_state; enqueue_conversion_tasks then awaits page counts. *)
InitializeJobState(j) ==
  /\ LoopFree /\ pipe[j] = "none" /\ room[j] > 0
  /\ job' = [job EXCEPT ![j] = "accepted"]
  /\ SetDocs(TasksOf(j), "accepted")
  /\ Go(j, "created")
  /\ UNCHANGED <<dispatchVars, latched, waiting, todo, future, write, late,
                 api, file, bounds>>

(* The insert and the launch of the pipeline.  A page count may fail, and the
   insert, which without its job breaks the foreign key. *)
Launch(j) ==
  /\ pipe[j] = "created" /\ LoopFree
  /\ \/ HasRow(j) /\ Enqueue(j) /\ Go(j, "starting")
     \/ Go(j, "ended") /\ UNCHANGED dispatchVars
  /\ UNCHANGED <<job, doc, latched, waiting, todo, future, write, late, api,
                 file, bounds>>

(* cancel_job reads the status ... *)
CancelJob(j) ==
  /\ LoopFree /\ job[j] \in {"accepted", "in_progress"}
  /\ cancels < MaxCancels /\ cancels' = cancels + 1
  /\ api' = j
  /\ UNCHANGED <<dispatchVars, job, doc, pipe, latched, waiting, todo, future,
                 write, late, file, slips>>

(* ... and request_job_cancellation writes, whatever a pipeline wrote since. *)
RequestJobCancellation(j) ==
  /\ api = j
  /\ WriteJob(j, "cancel_pending")
  /\ api' = None
  /\ UNCHANGED <<dispatchVars, doc, pipe, latched, waiting, todo, future,
                 write, late, file>>

(* delete_job refuses active jobs; one in cancel_pending is none of them. *)
DeleteJob(j) ==
  /\ LoopFree /\ HasRow(j) /\ job[j] \notin {"accepted", "in_progress"}
  /\ job' = [job EXCEPT ![j] = "deleted"]
  /\ UNCHANGED <<dispatchVars, doc, pipe, latched, waiting, todo, future,
                 write, late, api, file, bounds>>
-----------------------------------------------------------------------------
(* DatabaseStatusManager._update_job: read the row, then write it *)

Report(j, s) ==
  write' = [write EXCEPT ![j] =
              IF ~HasRow(j) \/ (job[j] \in Protected /\ s \notin Protected)
              THEN None ELSE s]

FinishReport(j) ==
  /\ write[j] # None
  /\ WriteJob(j, write[j])
  /\ write' = [write EXCEPT ![j] = None]
  /\ UNCHANGED <<dispatchVars, doc, pipe, latched, waiting, todo, future, late,
                 api, file>>

At(j, place) == pipe[j] = place /\ write[j] = None
-----------------------------------------------------------------------------
(* ingest and process_documents *)

Ingests(j) == ~Digitizes(j)

(* The first update of the job's status *)
StartIngest(j) ==
  /\ At(j, "starting") /\ Ingests(j)
  /\ Report(j, "in_progress") /\ Go(j, "checking")
  /\ UNCHANGED <<dispatchVars, job, doc, latched, waiting, todo, future, late,
                 api, file, bounds>>

(* CHECK 1, which leaves the tasks alone.  The tasks, by queued_at, are
   zipped with the staged files, *.pdf before *.docx: the rows of a batch
   have no order, and neither order is that of the upload.  Tasks that
   cannot be read are none. *)
CheckOne(j) ==
  /\ At(j, "checking")
  /\ \/ /\ IsCancelled(j) /\ Go(j, "raised")
        /\ UNCHANGED <<waiting, file, bounds>>
     \/ /\ ~IsCancelled(j) /\ Go(j, "polling")
        /\ waiting' = [waiting EXCEPT ![j] = Found(j)]
        /\ \E f \in Bijection(Found(j), Found(j)) :
             file' = [t \in Tasks |-> IF t \in Found(j) THEN f[t] ELSE file[t]]
        /\ UNCHANGED bounds
     \/ /\ ~IsCancelled(j) /\ Go(j, "polling") /\ Slip
        /\ waiting' = [waiting EXCEPT ![j] = {}] /\ UNCHANGED file
  /\ UNCHANGED <<dispatchVars, job, doc, latched, todo, future, write, late,
                 api>>

Unended(j) == {t \in TasksOf(j) : doc[t] \notin Ended}

(* What ingest reads before (the endpoints of the models, the staging
   directory) raises: documents that have not ended fail, and so does the
   job; its tasks stay in the queue. *)
IngestRaises(j) ==
  /\ At(j, "checking")
  /\ WriteDocs(Unended(j), "failed")
  /\ Report(j, "failed") /\ Go(j, "ending")
  /\ UNCHANGED <<dispatchVars, job, latched, waiting, todo, future, late, api,
                 file>>

(* The top of a poll cycle, and the loop's condition *)
PollCycle(j) ==
  /\ At(j, "polling") /\ todo[j] = {}
  /\ IF waiting[j] \cup Futures(j) = {}
     THEN /\ Go(j, IF latched[j] THEN "raised" ELSE "concluding")
          /\ latched' = [latched EXCEPT ![j] = FALSE]
          /\ UNCHANGED todo
     ELSE /\ latched' = [latched EXCEPT ![j] = @ \/ IsCancelled(j)]
          /\ todo' = [todo EXCEPT ![j] = waiting[j]]
          /\ Go(j, IF IsCancelled(j) /\ ~latched[j] THEN "signalling"
                   ELSE "polling")
  /\ UNCHANGED <<dispatchVars, job, doc, waiting, future, write, late, api,
                 file, bounds>>

(* Mutant: one status for every task. *)
SignalAll(j) ==
  /\ At(j, "signalling")
  /\ status' = [t \in Tasks |-> IF JobOf[t] = j THEN "cancelled"
                               ELSE status[t]]
  /\ LeaveLine(TasksOf(j))
  /\ Go(j, IF Ingests(j) THEN "polling" ELSE "raised")
  /\ UNCHANGED <<free, loopVars, conv, room, mishaps, job, doc, latched,
                 waiting, todo, future, write, late, api, file, bounds>>

(* cancel_tasks_for_job, once per pipeline; it answers an error with 0. *)
Signal(j) ==
  /\ At(j, "signalling")
  /\ \/ HasRow(j) /\ CancelTasks(j) /\ UNCHANGED bounds
     \/ ~HasRow(j) /\ UNCHANGED <<dispatchVars, bounds>>
     \/ Slip /\ UNCHANGED dispatchVars
  /\ Go(j, IF Ingests(j) THEN "polling" ELSE "raised")
  /\ UNCHANGED <<job, doc, latched, waiting, todo, future, write, late, api,
                 file>>

Drop(j, t) == waiting' = [waiting EXCEPT ![j] = @ \ {t}]
Looked(j, t) == todo' = [todo EXCEPT ![j] = @ \ {t}]

(* Section A for one task, by the status its row has now *)
React(j, t) ==
  CASE latched[j] ->
         /\ IF status[t] = "cancel_pending" THEN UNCHANGED waiting
            ELSE Drop(j, t)
         /\ UNCHANGED <<doc, write, future, bounds>>
    [] ~latched[j] /\ status[t] = "running" ->
         /\ WriteDocs({file[t]}, "in_progress") /\ Report(j, "in_progress")
         /\ UNCHANGED <<waiting, future>>
    [] ~latched[j] /\ status[t] = "completed" ->
         /\ WriteDocs({file[t]}, "digitized") /\ Report(j, "in_progress")
         /\ Drop(j, t) /\ future' = [future EXCEPT ![t] = TRUE]
    [] ~latched[j] /\ status[t] = "failed" ->
         /\ WriteDocs({file[t]}, "failed") /\ Report(j, "in_progress")
         /\ Drop(j, t) /\ UNCHANGED future
    [] ~latched[j] /\ status[t] = "cancelled" ->
         Drop(j, t) /\ UNCHANGED <<doc, write, future, bounds>>
    [] OTHER -> UNCHANGED <<doc, write, waiting, future, bounds>>

Look(j, t) ==
  /\ At(j, "polling") /\ t \in todo[j]
  /\ React(j, t) /\ Looked(j, t)
  /\ UNCHANGED <<dispatchVars, job, pipe, latched, late, api, file>>

(* Mutant: there is no conversion_timeout_s. *)
DeadlineNeverPasses(j, t) ==
  t \in todo[j] /\ FALSE /\ UNCHANGED vars

(* conversion_timeout_s since the task was first seen *)
DeadlinePasses(j, t) ==
  /\ At(j, "polling") /\ t \in todo[j]
  /\ ~latched[j] /\ status[t] \notin Terminal
  /\ WriteDocs({file[t]}, "failed") /\ Report(j, "in_progress")
  /\ Drop(j, t) /\ Looked(j, t)
  /\ UNCHANGED <<dispatchVars, job, pipe, latched, future, late, api, file>>

(* get_conversion_task answers a database error with None, and the loop
   drops a task without a row. *)
ReadFails(j, t) ==
  /\ At(j, "polling") /\ t \in todo[j]
  /\ Slip /\ Drop(j, t) /\ Looked(j, t)
  /\ UNCHANGED <<dispatchVars, job, doc, pipe, latched, future, write, late,
                 api, file>>

(* Processing, chunking and indexing end with the document's outcome, or
   stop at the stop event, or end with none: an exception of the merge, of
   the submission of the indexing or of its future is only logged.  The
   callback reports through _update_job as the pipeline does. *)
FutureEnds(t) ==
  LET j == JobOf[t] IN
  /\ future[t]
  /\ \/ /\ \E s \in {"completed", "failed"} : WriteDocs({file[t]}, s)
        /\ late' = IF HasRow(j) /\ job[j] \notin Protected
                   THEN late \cup {t} ELSE late
     \/ latched[j] /\ UNCHANGED <<doc, late, bounds>>
     \/ Slip /\ UNCHANGED <<doc, late>>
  /\ future' = [future EXCEPT ![t] = FALSE]
  /\ UNCHANGED <<dispatchVars, job, pipe, latched, waiting, todo, write, api,
                 file>>

FutureReports(t) ==
  /\ t \in late
  /\ late' = late \ {t}
  /\ WriteJob(JobOf[t], "in_progress")
  /\ UNCHANGED <<dispatchVars, doc, pipe, latched, waiting, todo, future,
                 write, api, file>>

(* Mutant: failed documents do not count. *)
ConclusionBlind(j) == IF HasRow(j) THEN "completed" ELSE "failed"

(* CHECK 5, and the job's status from those of its documents *)
Conclusion(j) ==
  IF \E t \in Found(j) : doc[t] = "failed" THEN "failed" ELSE "completed"

(* Documents that cannot be read are none, and none has failed; a job that
   cannot be read raises. *)
Conclude(j) ==
  /\ At(j, "concluding")
  /\ \/ /\ IsCancelled(j) /\ Go(j, "raised")
        /\ UNCHANGED <<doc, write, bounds>>
     \/ /\ ~IsCancelled(j) /\ Go(j, "ending") /\ Report(j, Conclusion(j))
        /\ UNCHANGED <<doc, bounds>>
     \/ /\ ~IsCancelled(j) /\ Go(j, "ending") /\ Slip
        /\ \/ Report(j, "completed") /\ UNCHANGED doc
           \/ Report(j, "failed") /\ SetDocs(Unended(j), "failed")
  /\ UNCHANGED <<dispatchVars, job, latched, waiting, todo, future, late, api,
                 file>>
-----------------------------------------------------------------------------
(* digitize *)

Fail(j) ==
  /\ WriteDocs(TasksOf(j), "failed") /\ Report(j, "failed") /\ Go(j, "ending")

StartDigitize(j) ==
  /\ At(j, "starting") /\ Digitizes(j)
  /\ IF ~HasRow(j) THEN Fail(j)
     ELSE /\ Go(j, IF IsCancelled(j) THEN "signalling" ELSE "phase 1")
          /\ UNCHANGED <<doc, write, bounds>>
  /\ UNCHANGED <<dispatchVars, job, latched, waiting, todo, future, late, api,
                 file>>

(* _poll_until: the row is gone, the job is cancelled, or the task has the
   status the phase waits for; else it polls again.  The first look is at
   the task alone. *)
Again(phase) == IF phase = "phase 1" THEN "later phase 1" ELSE "later phase 2"

PollUntil(j, t, phase, wanted, Then) ==
  LET first == pipe[j] = phase IN
  /\ At(j, phase) \/ At(j, Again(phase))
  /\ t \in TasksOf(j)
  /\ \/ ~HasRow(j) /\ Fail(j)
     \/ /\ HasRow(j) /\ ~first /\ IsCancelled(j)
        /\ Go(j, "signalling") /\ UNCHANGED <<doc, write, bounds>>
     \/ /\ HasRow(j) /\ first /\ status[t] \notin wanted
        /\ Go(j, Again(phase)) /\ UNCHANGED <<doc, write, bounds>>
     \/ /\ HasRow(j) /\ (first \/ ~IsCancelled(j)) /\ status[t] \in wanted
        /\ Then
  /\ UNCHANGED <<dispatchVars, job, latched, waiting, todo, future, late, api,
                 file>>

Started == Terminal \cup {"running"}

PhaseOne(j, t) ==
  PollUntil(j, t, "phase 1", Started,
    /\ Go(j, "phase 2")
    /\ IF status[t] = "running"
       THEN WriteDocs({t}, "in_progress") /\ Report(j, "in_progress")
       ELSE UNCHANGED <<doc, write, bounds>>)

(* What is not failed counts as completed. *)
PhaseTwo(j, t) ==
  PollUntil(j, t, "phase 2", Terminal,
    IF status[t] = "failed" THEN Fail(j)
    ELSE /\ WriteDocs({t}, "completed") /\ Report(j, "completed")
         /\ Go(j, "ending"))

(* The deadline both phases share *)
DeadlineExceeded(j) ==
  /\ \E t \in TasksOf(j) :
       \/ /\ At(j, "phase 1") \/ At(j, Again("phase 1"))
          /\ status[t] \notin Started
       \/ /\ At(j, "phase 2") \/ At(j, Again("phase 2"))
          /\ status[t] \notin Terminal
  /\ Fail(j)
  /\ UNCHANGED <<dispatchVars, job, latched, waiting, todo, future, late, api,
                 file>>

(* A task that cannot be read is none. *)
TaskUnread(j) ==
  /\ Digitizes(j) /\ Slip
  /\ \E place \in {"starting", "phase 1", "later phase 1", "phase 2",
                   "later phase 2"} : At(j, place)
  /\ SetDocs(TasksOf(j), "failed") /\ Report(j, "failed") /\ Go(j, "ending")
  /\ UNCHANGED <<dispatchVars, job, latched, waiting, todo, future, late, api,
                 file>>
-----------------------------------------------------------------------------
(* launch_ingest_pipeline and launch_digitize_pipeline *)

EndPipeline(j) ==
  /\ At(j, "ending") /\ Go(j, "ended")
  /\ UNCHANGED <<dispatchVars, job, doc, latched, waiting, todo, future, write,
                 late, api, file, bounds>>

(* _cancel_job_docs after a JobCancelledError, back in the event loop.  The
   status manager reads and writes between two awaits. *)
CancelJobDocs(j) ==
  /\ At(j, "raised") /\ LoopFree
  /\ LET unended == Found(j) \cap Unended(j) IN
     \/ SetDocs(unended, "cancelled") /\ WriteJob(j, "cancelled")
     \/ WriteDocs(unended, "cancelled") /\ job' = Stored(j, "cancelled")
  /\ Go(j, "ended")
  /\ UNCHANGED <<dispatchVars, latched, waiting, todo, future, write, late,
                 api, file>>

(* The pipeline has removed its staging directory. *)
StagingGone(j) ==
  pipe[j] \in {"raised", "ended"} \/ (pipe[j] = "ending" /\ Digitizes(j))

Convert(t) ==
  /\ api = None
  /\ \/ StagingGone(JobOf[t]) /\ FileMissing(t)
     \/ ~(conv[t] = "started" /\ StagingGone(JobOf[t])) /\ ConversionStep(t)
  /\ UNCHANGED jobVars

(* Mutant: a pending cancellation survives the restart. *)
RecoveredPartly(j) ==
  IF job[j] \in {"accepted", "in_progress"} THEN "failed" ELSE job[j]

(* recover_zombie_jobs and recover_conversion_tasks, before any request *)
Recovered(j) ==
  CASE job[j] \in {"accepted", "in_progress"} -> "failed"
    [] job[j] = "cancel_pending" -> "cancelled"
    [] OTHER -> job[j]

RestartService ==
  /\ Restart
  /\ job' = [j \in Jobs |-> Recovered(j)]
  /\ doc' = [t \in Tasks |->
       IF t \in Found(JobOf[t]) /\ job[JobOf[t]] \notin Ended
            /\ doc[t] \notin Ended
       THEN Recovered(JobOf[t]) ELSE doc[t]]
  /\ pipe' = [j \in Jobs |-> IF pipe[j] = "none" THEN "none" ELSE "ended"]
  /\ latched' = [j \in Jobs |-> FALSE]
  /\ waiting' = [j \in Jobs |-> {}] /\ todo' = [j \in Jobs |-> {}]
  /\ future' = [t \in Tasks |-> FALSE] /\ late' = {}
  /\ write' = [j \in Jobs |-> None] /\ api' = None
  /\ UNCHANGED <<file, bounds>>
-----------------------------------------------------------------------------
Pipeline(j) ==
  \/ FinishReport(j) \/ StartIngest(j) \/ IngestRaises(j) \/ CheckOne(j)
  \/ PollCycle(j)
  \/ Signal(j) \/ Conclude(j) \/ StartDigitize(j) \/ EndPipeline(j)
  \/ CancelJobDocs(j) \/ DeadlineExceeded(j) \/ TaskUnread(j)
  \/ \E t \in TasksOf(j) :
       \/ Look(j, t) \/ DeadlinePasses(j, t) \/ ReadFails(j, t)
       \/ PhaseOne(j, t) \/ PhaseTwo(j, t)

Dispatcher == api = None /\ DispatcherStep /\ UNCHANGED jobVars

Next ==
  \/ \E j \in Jobs :
       \/ CreateJob(j) \/ InitializeJobState(j) \/ Launch(j)
       \/ CancelJob(j) \/ RequestJobCancellation(j) \/ DeleteJob(j)
       \/ Pipeline(j)
  \/ \E t \in Tasks : FutureEnds(t) \/ FutureReports(t) \/ Convert(t)
  \/ Dispatcher
  \/ RestartService

Spec == Init /\ [][Next]_vars

(* What ends: each of these steps is taken a bounded number of times, so
   that fairness to all of them together is fairness to each. *)
Coroutine ==
  \/ \E j \in Jobs : Launch(j) \/ CancelJobDocs(j)
  \/ \E t \in Tasks : Convert(t)

Deadline ==
  \E j \in Jobs :
    DeadlineExceeded(j) \/ \E t \in TasksOf(j) : DeadlinePasses(j, t)

Answer ==
  \/ \E j \in Jobs : RequestJobCancellation(j)
  \/ \E t \in Tasks : FutureEnds(t) \/ FutureReports(t)

(* Threads run; an accepted request goes on once its awaits are over; a
   coroutine that is ready again and again gets its turn.  A task polled
   again and again comes to its deadline.  Requests are free. *)
Fairness ==
  /\ WF_vars(Dispatcher) /\ \A j \in Jobs : WF_vars(Pipeline(j))
  /\ WF_vars(Answer) /\ SF_vars(Coroutine) /\ SF_vars(Deadline)

FairSpec == Spec /\ Fairness
-----------------------------------------------------------------------------
(* The composition uses the conversion queue as ConversionDispatch allows:
   nothing the API, the pipelines or recovery do to the rows goes beyond
   one insert per admitted job, cancel_tasks_for_job and the recovery. *)
ImplementsDispatch == DispatchSpec

(* "All documents completed successfully" (pipeline/ingest.py:281-288): a
   job is completed only when every one of its documents is.  Not so once an
   error was swallowed (a read of rows that answers with none, a write that
   answers with False) or only logged (an exception of the merge, of the
   submission of the indexing, or of its future): the pipeline then takes
   for completed what has merely not failed. *)
CompletedMeansConverted ==
  \A j \in Jobs : job[j] = "completed" /\ slips = 0 =>
    \A t \in TasksOf(j) : doc[t] = "completed" /\ status[t] = "completed"

(* A document is digitized or completed only by a conversion that is, and
   stays, completed: nothing the pipelines take for success is a cancelled,
   failed or timed-out task, also where digitize takes for completed what is
   not failed. *)
DocsFollowTasks ==
  \A t \in Tasks :
    doc[file[t]] \in {"digitized", "completed"} => status[t] = "completed"

(* A job that ended is not revived by a late report of a future or of its
   pipeline; only a racing cancel request may still touch it. *)
EndedJobStaysEnded ==
  [][\A j \in Jobs : job[j] \in Ended =>
       job'[j] \in {job[j], "deleted", "cancel_pending"}]_job

(* A pipeline ends whatever its conversions do, also by its deadline when
   the write that should have told it is lost, unless it drains a cancelled
   conversion whose last write was: no deadline bounds that wait. *)
PipelineEnds ==
  \A j \in Jobs :
    pipe[j] \notin {"none", "ended"} ~>
      \/ pipe[j] = "ended"
      \/ \E t \in TasksOf(j) : status[t] = "cancel_pending"
                                 /\ conv[t] = "none" /\ held # t
=============================================================================
