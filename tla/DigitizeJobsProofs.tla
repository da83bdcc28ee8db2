------------------------- MODULE DigitizeJobsProofs -------------------------
(***************************************************************************)
(* Theorems about DigitizeJobs, for any jobs, tasks, lanes and bounds: the *)
(* API, the pipelines and recovery use the conversion queue only as        *)
(* ConversionDispatch allows, and so inherit what is proved of it; the     *)
(* documents and jobs say no more than the conversions did, and a job that *)
(* ended is not revived.  JobsInv is the invariant behind the latter.      *)
(***************************************************************************)
EXTENDS DigitizeJobs, ConversionDispatchProofs

(* The requests and the pipeline's step that touch the queue *)
LEMMA QueueSteps ==
  ASSUME NEW j \in Jobs
  PROVE  /\ CreateJob(j) => Admit(j)
         /\ Launch(j) => Enqueue(j) \/ UNCHANGED dispatchVars
         /\ Signal(j) => CancelTasks(j) \/ UNCHANGED dispatchVars
  BY DEF CreateJob, Launch, Signal

(* Requests and the status manager leave the queue alone ... *)
LEMMA RequestsSpareQueue ==
  ASSUME NEW j \in Jobs,
         \/ InitializeJobState(j) \/ CancelJob(j) \/ RequestJobCancellation(j)
         \/ DeleteJob(j) \/ FinishReport(j)
  PROVE  UNCHANGED dispatchVars
  BY DEF InitializeJobState, CancelJob, RequestJobCancellation, DeleteJob,
         FinishReport

(* ... and so do the pipelines, which read the rows, except by Signal. *)
LEMMA PipelineSparesQueue ==
  ASSUME NEW j \in Jobs, Pipeline(j), ~Signal(j)
  PROVE  UNCHANGED dispatchVars
<1>1. CASE \/ StartIngest(j) \/ IngestRaises(j) \/ CheckOne(j) \/ PollCycle(j)
           \/ Conclude(j) \/ StartDigitize(j) \/ EndPipeline(j)
           \/ CancelJobDocs(j) \/ DeadlineExceeded(j) \/ TaskUnread(j)
  BY <1>1 DEF StartIngest, IngestRaises, CheckOne, PollCycle, Conclude,
              StartDigitize, EndPipeline, CancelJobDocs, DeadlineExceeded, TaskUnread
<1>2. ASSUME NEW t \in TasksOf(j),
             \/ Look(j, t) \/ DeadlinePasses(j, t) \/ ReadFails(j, t)
             \/ PhaseOne(j, t) \/ PhaseTwo(j, t)
      PROVE  UNCHANGED dispatchVars
  BY <1>2 DEF Look, DeadlinePasses, ReadFails, PhaseOne, PhaseTwo, PollUntil
<1> QED
  BY <1>1, <1>2, RequestsSpareQueue DEF Pipeline

LEMMA StepRefinement == [Next]_vars => [DispatchNext]_dispatchVars
<1> SUFFICES ASSUME [Next]_vars
             PROVE  [DispatchNext]_dispatchVars
  OBVIOUS
<1>1. ASSUME NEW j \in Jobs,
             \/ CreateJob(j) \/ InitializeJobState(j) \/ Launch(j)
             \/ CancelJob(j) \/ RequestJobCancellation(j) \/ DeleteJob(j)
             \/ Pipeline(j)
      PROVE  [DispatchNext]_dispatchVars
  <2>1. \/ Admit(j) \/ Enqueue(j) \/ CancelTasks(j) \/ UNCHANGED dispatchVars
    BY <1>1, QueueSteps, RequestsSpareQueue, PipelineSparesQueue
  <2> QED
    BY <2>1 DEF DispatchNext
<1>2. ASSUME NEW t \in Tasks, FutureEnds(t) \/ FutureReports(t) \/ Convert(t)
      PROVE  [DispatchNext]_dispatchVars
  <2>1. CASE FutureEnds(t) \/ FutureReports(t)
    BY <2>1 DEF FutureEnds, FutureReports
  <2>2. CASE Convert(t)
    BY <2>2 DEF Convert, DispatchNext
  <2> QED
    BY <1>2, <2>1, <2>2
<1>3. CASE Dispatcher
  BY <1>3 DEF Dispatcher, DispatchNext
<1>4. CASE RestartService
  BY <1>4 DEF RestartService, DispatchNext
<1>5. CASE UNCHANGED vars
  BY <1>5 DEF vars
<1> QED
  BY <1>1, <1>2, <1>3, <1>4, <1>5 DEF Next

(* The jobs of the digitize service, their pipelines, a restart's recovery
   and the dispatcher together implement the conversion queue. *)
THEOREM QueueRefinement == Spec => ImplementsDispatch
<1>1. Init => DispatchInit
  BY DEF Init
<1> QED
  BY <1>1, StepRefinement, PTL DEF Spec, ImplementsDispatch, DispatchSpec

(* Under the jobs, too, a task under way has a row that says so and no other
   row says so, up to a lost write or a restart. *)
THEOREM RowsAgreeUnderJobs == Spec => []RowsMatchConversions
  BY QueueRefinement, RowsAgree, PTL DEF ImplementsDispatch
-----------------------------------------------------------------------------
(* The invariant behind the properties of jobs and documents: one part for  *)
(* each concern, and for each job, which no other job's steps disturb.      *)

(* The types of the jobs' variables                                         *)
JobTypes ==
  /\ job \in [Jobs -> Protected \cup
                      {"none", "accepted", "in_progress", "deleted"}]
  /\ doc \in [Tasks -> Ended \cup
                       {"none", "accepted", "in_progress", "digitized"}]
  /\ pipe \in [Jobs -> {"none", "created", "starting", "checking", "polling",
                        "signalling", "phase 1", "later phase 1", "phase 2",
                        "later phase 2", "concluding", "raised", "ending",
                        "ended"}]
  /\ latched \in [Jobs -> BOOLEAN]
  /\ waiting \in [Jobs -> SUBSET Tasks] /\ file \in [Tasks -> Tasks]
  /\ todo \in [Jobs -> SUBSET Tasks]
  /\ future \in [Tasks -> BOOLEAN] /\ late \subseteq Tasks
  /\ write \in [Jobs -> Ended \cup {"in_progress", None}]
  /\ api \in Jobs \cup {None}
  /\ slips \in Nat

Unstarted == {"none", "created", "starting", "checking"}
Phases == {"phase 1", "later phase 1", "phase 2", "later phase 2"}
Loop == {"polling", "signalling"}
Cancelled == {"cancel_pending", "cancelled"}

(* Where a pipeline is, and the row of its job                              *)
PipeInv(j) ==
  /\ pipe[j] = "none" => job[j] = "none"
  /\ api = j => HasRow(j)
  /\ pipe[j] \in {"checking", "polling", "concluding"} => Ingests(j)
  /\ pipe[j] \in Phases => Digitizes(j)
  /\ pipe[j] \in Unstarted => ~latched[j] /\ todo[j] = {}
  /\ Digitizes(j) => ~latched[j]
  /\ pipe[j] = "signalling" /\ Ingests(j) => latched[j]
  /\ todo[j] \subseteq waiting[j]

(* Work on documents goes on in the poll loop only, and follows a completed
   conversion. *)
FutureInv(j) ==
  \A t \in TasksOf(j) :
    /\ future[t] \/ t \in late => Ingests(j) /\ pipe[j] \in Loop
    /\ future[t] => status[t] = "completed" /\ t \notin waiting[j]

(* Each task stands for one document of its job, digitize's for its own. *)
FileInv(j) ==
  /\ \A t \in TasksOf(j) : file[t] \in TasksOf(j)
  /\ \A t, u \in TasksOf(j) : file[t] = file[u] => t = u
  /\ \A u \in TasksOf(j) : \E t \in TasksOf(j) : file[t] = u
  /\ Digitizes(j) => \A t \in TasksOf(j) : file[t] = t

Successes == {"digitized", "completed"}

DocInv(j) ==
  /\ pipe[j] \in Unstarted => \A t \in TasksOf(j) : doc[t] \notin Successes
  /\ \A t \in TasksOf(j) : doc[file[t]] \in Successes => status[t] = "completed"

(* The tasks of a job are cancelled by its pipeline only, which has latched
   that by then or gives up at once. *)
CancelInv(j) ==
  pipe[j] \in Unstarted \cup Phases \cup Loop /\ ~latched[j]
    => \A t \in TasksOf(j) : status[t] \notin Cancelled

(* Nobody has anything left to report of a job that ended. *)
EndedInv(j) ==
  /\ job[j] \in Ended => write[j] = None /\ pipe[j] \in {"ending", "ended"}
  /\ write[j] \in Ended => pipe[j] = "ending"

AllConverted(j) ==
  \A t \in TasksOf(j) : doc[t] = "completed" /\ status[t] = "completed"

(* As long as no error was swallowed or only logged, a task that the pipeline has dropped is being
   worked on or its document has ended. *)
ConvertedInv(j) ==
  slips = 0 =>
    /\ write[j] = "completed" \/ job[j] = "completed" => AllConverted(j)
    /\ Ingests(j) /\ HasRow(j) /\ pipe[j] \in Loop /\ ~latched[j]
         => \A t \in TasksOf(j) : \/ t \in waiting[j] \/ future[t]
                                  \/ doc[file[t]] \in {"completed", "failed"}
    /\ HasRow(j) /\ pipe[j] = "concluding"
         => \A t \in TasksOf(j) : doc[file[t]] \in {"completed", "failed"}

JobInv(j) ==
  /\ PipeInv(j) /\ FutureInv(j) /\ FileInv(j) /\ DocInv(j) /\ CancelInv(j)
  /\ EndedInv(j) /\ ConvertedInv(j)

JobsInv == JobTypes /\ \A j \in Jobs : JobInv(j)

(* What the dispatch of conversions and its environment never do to a task:
   take back a completed conversion, or cancel one.                         *)
Undisturbed(t) ==
  /\ status[t] = "completed" => status'[t] = "completed"
  /\ status'[t] \in Cancelled => status[t] \in Cancelled

(* A step that leaves job k's part of the state alone                       *)
Spared(k) ==
  /\ job'[k] = job[k] /\ pipe'[k] = pipe[k] /\ latched'[k] = latched[k]
  /\ waiting'[k] = waiting[k] /\ todo'[k] = todo[k] /\ write'[k] = write[k]
  /\ \A t \in TasksOf(k) :
       /\ doc'[t] = doc[t] /\ file'[t] = file[t] /\ future'[t] = future[t]
       /\ t \in late' => t \in late
       /\ Undisturbed(t)
  /\ slips' = 0 => slips = 0
  /\ api' = k => api = k

(* What counts as an error that was swallowed, or only logged *)
Counted == slips' \in Nat /\ (slips' = 0 => slips = 0)

LEMMA NothingSwallowed ==
  ASSUME JobTypes, UNCHANGED bounds
  PROVE  Counted /\ slips' = slips
  BY DEF JobTypes, bounds, Counted

LEMMA SlipCounts ==
  ASSUME JobTypes, Slip
  PROVE  Counted /\ slips' # 0
<1>1. slips \in Nat
  BY DEF JobTypes
<1>2. slips' = slips + 1
  BY DEF Slip
<1> QED
  BY <1>1, <1>2 DEF Counted

(* A document's write that is lost leaves it as it was, and counts. *)
LEMMA DocsWritten ==
  ASSUME JobTypes, NEW S, NEW s, WriteDocs(S, s)
  PROVE  /\ Counted
         /\ SetDocs(S, s) \/ doc' = doc
         /\ slips' = 0 => SetDocs(S, s)
  BY NothingSwallowed, SlipCounts DEF WriteDocs

LEMMA DocWritten ==
  ASSUME JobTypes, NEW t \in Tasks,
         NEW s \in Ended \cup {"in_progress", "digitized"}, WriteDocs({t}, s)
  PROVE  /\ doc' \in [Tasks -> Ended \cup
                               {"none", "accepted", "in_progress", "digitized"}]
         /\ \A u \in Tasks : u # t => doc'[u] = doc[u]
         /\ doc'[t] \in {doc[t], s}
         /\ slips' = 0 => doc'[t] = s
         /\ Counted
<1>1. /\ Counted
      /\ SetDocs({t}, s) \/ doc' = doc
      /\ slips' = 0 => SetDocs({t}, s)
  BY DocsWritten
<1>2. doc \in [Tasks -> Ended \cup
                       {"none", "accepted", "in_progress", "digitized"}]
  BY DEF JobTypes
<1>3. CASE SetDocs({t}, s)
  BY <1>1, <1>2, <1>3 DEF SetDocs
<1>4. CASE doc' = doc /\ slips' # 0
  BY <1>1, <1>2, <1>4
<1> QED
  BY <1>1, <1>3, <1>4

LEMMA JobWritten ==
  ASSUME JobTypes, NEW j \in Jobs, NEW s, WriteJob(j, s)
  PROVE  Counted /\ job' \in {job, Stored(j, s)}
  BY NothingSwallowed, SlipCounts DEF WriteJob

LEMMA SparedKeeps ==
  ASSUME NEW k \in Jobs, JobInv(k), Spared(k)
  PROVE  JobInv(k)'
<1> USE DEF JobInv, Spared, Undisturbed, TasksOf, HasRow, Digitizes, Ingests
<1>1. \A t \in TasksOf(k) : file'[t] = file[t] /\ doc'[file'[t]] = doc[file[t]]
  BY DEF FileInv
<1>2. PipeInv(k)'
  BY <1>1 DEF PipeInv, Unstarted, Phases
<1>3. FutureInv(k)'
  BY <1>1 DEF FutureInv, Loop
<1>4. FileInv(k)'
  BY <1>1 DEF FileInv
<1>5. DocInv(k)'
  BY <1>1 DEF DocInv, Unstarted, Successes
<1>6. CancelInv(k)'
  BY <1>1 DEF CancelInv, Unstarted, Phases, Loop
<1>7. EndedInv(k)'
  BY <1>1 DEF EndedInv
<1>8. ConvertedInv(k)'
  BY <1>1 DEF ConvertedInv, AllConverted, Loop
<1> QED
  BY <1>2, <1>3, <1>4, <1>5, <1>6, <1>7, <1>8

LEMMA SoleMover ==
  ASSUME JobsInv, NEW j \in Jobs, JobTypes', JobInv(j)',
         \A k \in Jobs \ {j} : Spared(k)
  PROVE  JobsInv'
<1>1. ASSUME NEW k \in Jobs PROVE JobInv(k)'
  <2>1. CASE k = j
    BY <2>1
  <2>2. CASE k # j
    BY <2>2, SparedKeeps DEF JobsInv
  <2> QED
    BY <2>1, <2>2
<1> QED
  BY <1>1 DEF JobsInv
-----------------------------------------------------------------------------
(* No statement of the queue takes back a completed conversion or cancels a *)
(* task that is not, except cancel_tasks_for_job, and that for its own job. *)
LEMMA ConversionsCancelNothing ==
  ASSUME DispatchInv, NEW u \in Tasks, FileMissing(u) \/ ConversionStep(u),
         NEW t \in Tasks, status'[t] \in Cancelled
  PROVE  status[t] \in Cancelled
<1>1. \/ status' = status
      \/ status' = [status EXCEPT ![u] = "running"]
      \/ status' = [status EXCEPT ![u] = "failed"]
      \/ status' = [status EXCEPT ![u] = "completed"]
      \/ status[u] = "cancel_pending"
           /\ status' = [status EXCEPT ![u] = "cancelled"]
  BY DEF FileMissing, ConversionStep, FirstCheck, MarkRunning, Settle,
         ConversionRaises, SecondCheck, MarkCompleted, Written
<1> QED
  BY <1>1 DEF DispatchInv, Cancelled

LEMMA DispatcherCancelsNothing ==
  ASSUME DispatchInv, DispatcherStep, NEW t \in Tasks, status'[t] \in Cancelled
  PROVE  status[t] \in Cancelled
<1>1. CASE Peek \/ Acquire \/ \E op \in UserLanes : Select(op)
  BY <1>1 DEF Peek, Acquire, Select
<1>2. CASE Claim
  <2>1. \/ status' = status
        \/ \E u \in Heads(QueuedIn(lane)) :
             status' = [status EXCEPT ![u] = "running"]
    BY <1>2 DEF Claim
  <2> QED
    BY <2>1 DEF DispatchInv, Cancelled, Heads, QueuedIn, Rows
<1>3. CASE \E op \in UserLanes : Update(op)
  BY <1>3 DEF Update, Cancelled
<1> QED
  BY <1>1, <1>2, <1>3 DEF DispatcherStep

LEMMA DispatchSparesTasks ==
  ASSUME DispatchInv,
         \/ DispatcherStep \/ Restart
         \/ \E t \in Tasks : FileMissing(t) \/ ConversionStep(t)
         \/ \E j \in Jobs : Admit(j) \/ Enqueue(j)
  PROVE  \A t \in Tasks : Undisturbed(t)
<1>1. KeepsOutcomes
  BY DispatchInvStep DEF DispatchNext
<1>2. CASE Restart
  BY <1>1, <1>2 DEF Restart, Reset, RecoveredStatus, Undisturbed, Cancelled,
                    KeepsOutcomes
<1>3. ASSUME NEW j \in Jobs, Admit(j) \/ Enqueue(j)
      PROVE  \A t \in Tasks : Undisturbed(t)
  <2>1. CASE Admit(j)
    BY <2>1 DEF Admit, Undisturbed
  <2>2. CASE Enqueue(j)
    <3>1. PICK Q : status' = [t \in Tasks |-> IF t \in Q THEN "queued"
                                     ELSE IF t \in TasksOf(j) THEN "pending"
                                     ELSE status[t]]
      BY <2>2 DEF Enqueue
    <3> QED
      BY <1>1, <3>1 DEF KeepsOutcomes, Undisturbed, Cancelled
  <2> QED
    BY <1>3, <2>1, <2>2
<1> QED
  BY <1>1, <1>2, <1>3, DispatcherCancelsNothing, ConversionsCancelNothing
     DEF KeepsOutcomes, Undisturbed

LEMMA CancelSparesOthers ==
  ASSUME DispatchInv, NEW j \in Jobs, CancelTasks(j)
  PROVE  /\ \A t \in Tasks : t \notin TasksOf(j) => status'[t] = status[t]
         /\ \A t \in Tasks : status[t] = "completed" => status'[t] = "completed"
  BY DEF CancelTasks, CancelledStatus
-----------------------------------------------------------------------------
(* The requests                                                             *)

LEMMA CreateJobKeeps ==
  ASSUME DispatchInv, JobsInv, NEW j \in Jobs, CreateJob(j)
  PROVE  JobsInv'
<1>1. UNCHANGED <<job, doc, pipe, latched, waiting, file, todo, future, write,
                  late, api, slips>>
  BY DEF CreateJob, jobVars, bounds
<1>2. \A t \in Tasks : Undisturbed(t)
  BY DispatchSparesTasks DEF CreateJob
<1>3. \A k \in Jobs : Spared(k)
  BY <1>1, <1>2 DEF Spared, TasksOf
<1>4. JobTypes'
  BY <1>1 DEF JobsInv, JobTypes
<1> QED
  BY <1>3, <1>4, SparedKeeps DEF JobsInv

LEMMA InitializeKeeps ==
  ASSUME JobsInv, NEW j \in Jobs, InitializeJobState(j)
  PROVE  JobsInv'
<1>0. JobTypes /\ JobInv(j)
  BY DEF JobsInv
<1>1. /\ pipe[j] = "none" /\ job[j] = "none" /\ api = None
      /\ job' = [job EXCEPT ![j] = "accepted"]
      /\ doc' = [t \in Tasks |-> IF t \in TasksOf(j) THEN "accepted" ELSE doc[t]]
      /\ pipe' = [pipe EXCEPT ![j] = "created"]
      /\ UNCHANGED <<status, latched, waiting, file, todo, future, write,
                     late, api, slips>>
  BY <1>0 DEF InitializeJobState, SetDocs, Go, bounds, LoopFree, dispatchVars,
              JobInv, PipeInv
<1>2. JobTypes'
  BY <1>0, <1>1 DEF JobTypes
<1>3. \A k \in Jobs \ {j} : Spared(k)
  BY <1>0, <1>1 DEF Spared, Undisturbed, TasksOf, JobTypes
<1>4. job'[j] = "accepted" /\ pipe'[j] = "created"
  BY <1>0, <1>1 DEF JobTypes
<1>5. PipeInv(j)'
  BY <1>0, <1>1, <1>4 DEF JobInv, PipeInv, HasRow, Phases, Unstarted, Digitizes
<1>6. FutureInv(j)' /\ FileInv(j)'
  BY <1>0, <1>1, <1>4 DEF JobInv, FutureInv, FileInv, TasksOf, Loop, Digitizes
<1>7. DocInv(j)'
  BY <1>0, <1>1, <1>4 DEF JobInv, DocInv, FileInv, Successes, TasksOf
<1>8. CancelInv(j)' /\ EndedInv(j)'
  BY <1>0, <1>1, <1>4 DEF JobInv, CancelInv, EndedInv, TasksOf, Unstarted, Ended
<1>9. ConvertedInv(j)'
  BY <1>0, <1>1, <1>4 DEF JobInv, ConvertedInv, EndedInv, Loop, Ended
<1> QED
  BY <1>2, <1>3, <1>5, <1>6, <1>7, <1>8, <1>9, SoleMover DEF JobInv

LEMMA LaunchKeeps ==
  ASSUME DispatchInv, JobsInv, NEW j \in Jobs, Launch(j)
  PROVE  JobsInv'
<1>0. JobTypes /\ JobInv(j)
  BY DEF JobsInv
<1>1. /\ pipe[j] = "created"
      /\ \/ pipe' = [pipe EXCEPT ![j] = "starting"]
         \/ pipe' = [pipe EXCEPT ![j] = "ended"]
      /\ UNCHANGED <<job, doc, latched, waiting, file, todo, future, write,
                     late, api, slips>>
  BY DEF Launch, Go, bounds
<1>2. JobTypes'
  BY <1>0, <1>1 DEF JobTypes
<1>3. \A t \in Tasks : Undisturbed(t)
  <2>1. Enqueue(j) \/ status' = status
    BY DEF Launch, dispatchVars
  <2> QED
    BY <2>1, DispatchSparesTasks DEF Undisturbed
<1>4. \A k \in Jobs \ {j} : Spared(k)
  BY <1>0, <1>1, <1>3 DEF Spared, TasksOf, JobTypes
<1>5. \/ pipe'[j] = "starting"
      \/ pipe'[j] = "ended"
  BY <1>0, <1>1 DEF JobTypes
<1>6. PipeInv(j)'
  BY <1>0, <1>1, <1>5 DEF JobInv, PipeInv, HasRow, Phases, Unstarted,
                          Digitizes, Ingests
<1>7. FutureInv(j)' /\ FileInv(j)'
  BY <1>0, <1>1, <1>5 DEF JobInv, FutureInv, FileInv, TasksOf, Loop, Digitizes
<1>8. DocInv(j)'
  BY <1>0, <1>1, <1>3, <1>5 DEF JobInv, DocInv, FileInv, Successes, TasksOf,
                                Unstarted, Undisturbed
<1>9. CancelInv(j)' /\ EndedInv(j)'
  BY <1>0, <1>1, <1>3, <1>5 DEF JobInv, CancelInv, EndedInv, TasksOf,
                                Unstarted, Ended, Undisturbed, Phases, Loop
<1>10. ConvertedInv(j)'
  BY <1>0, <1>1, <1>5 DEF JobInv, ConvertedInv, EndedInv, Loop, Ended
<1> QED
  BY <1>2, <1>4, <1>6, <1>7, <1>8, <1>9, <1>10, SoleMover DEF JobInv

LEMMA CancelJobKeeps ==
  ASSUME JobsInv, NEW j \in Jobs, CancelJob(j)
  PROVE  JobsInv'
<1>0. JobTypes /\ JobInv(j)
  BY DEF JobsInv
<1>1. /\ HasRow(j) /\ api' = j
      /\ UNCHANGED <<job, doc, pipe, latched, waiting, file, todo, future,
                     write, late, slips, status>>
  BY DEF CancelJob, HasRow, dispatchVars
<1>2. JobTypes'
  BY <1>0, <1>1 DEF JobTypes
<1>3. \A k \in Jobs \ {j} : Spared(k)
  BY <1>1 DEF Spared, Undisturbed
<1>4. PipeInv(j)'
  BY <1>0, <1>1 DEF JobInv, PipeInv, HasRow, Digitizes, Ingests, TasksOf
<1>5. FutureInv(j)' /\ FileInv(j)' /\ DocInv(j)'
  BY <1>0, <1>1 DEF JobInv, FutureInv, FileInv, DocInv, TasksOf, Digitizes,
                    Ingests
<1>6. CancelInv(j)' /\ EndedInv(j)' /\ ConvertedInv(j)'
  BY <1>0, <1>1 DEF JobInv, CancelInv, EndedInv, ConvertedInv, TasksOf,
                    Digitizes, Ingests, HasRow, AllConverted
<1> QED
  BY <1>2, <1>3, <1>4, <1>5, <1>6, SoleMover DEF JobInv

(* The two requests that change the status of a job, other than to end it *)
LEMMA RequestKeeps ==
  ASSUME JobsInv, NEW j \in Jobs, HasRow(j),
         NEW s \in {"cancel_pending", "deleted"},
         job' \in {job, [job EXCEPT ![j] = s]}, Counted,
         s = "deleted" => api # j, api' \in {api, None},
         UNCHANGED <<doc, pipe, latched, waiting, file, todo, future, write,
                     late, status>>
  PROVE  JobsInv'
<1>0. JobTypes /\ JobInv(j)
  BY DEF JobsInv
<1>1. job'[j] \in {job[j], s} /\ pipe[j] # "none"
  BY <1>0 DEF JobTypes, JobInv, PipeInv, HasRow
<1>2. JobTypes'
  BY <1>0 DEF JobTypes, Protected, Counted
<1>3. \A k \in Jobs \ {j} : Spared(k)
  BY <1>0, JobsAssumption DEF Counted, Spared, Undisturbed, JobTypes
<1>4. PipeInv(j)'
  BY <1>0, <1>1, JobsAssumption
     DEF JobInv, PipeInv, HasRow, Digitizes, Ingests, TasksOf
<1>5. FutureInv(j)' /\ FileInv(j)' /\ DocInv(j)'
  BY <1>0, <1>1 DEF JobInv, FutureInv, FileInv, DocInv, TasksOf, Digitizes,
                    Ingests
<1>6. CancelInv(j)' /\ EndedInv(j)'
  BY <1>0, <1>1 DEF JobInv, CancelInv, EndedInv, TasksOf, Ended
<1>7. ConvertedInv(j)'
  BY <1>0, <1>1 DEF Counted, JobInv, ConvertedInv, TasksOf, Digitizes, Ingests, HasRow,
                    AllConverted
<1> QED
  BY <1>2, <1>3, <1>4, <1>5, <1>6, <1>7, SoleMover DEF JobInv

LEMMA RequestsKeep ==
  ASSUME JobsInv, NEW j \in Jobs, RequestJobCancellation(j) \/ DeleteJob(j)
  PROVE  JobsInv'
<1>1. CASE RequestJobCancellation(j)
  <2>1. JobTypes /\ HasRow(j)
    BY <1>1 DEF RequestJobCancellation, JobsInv, JobInv, PipeInv
  <2>2. Counted /\ job' \in {job, [job EXCEPT ![j] = "cancel_pending"]}
    BY <1>1, <2>1, JobWritten DEF RequestJobCancellation, Stored
  <2> QED
    BY <1>1, <2>1, <2>2, RequestKeeps DEF RequestJobCancellation, dispatchVars
<1>2. CASE DeleteJob(j)
  <2>1. JobTypes
    BY DEF JobsInv
  <2> QED
    BY <1>2, <2>1, NothingSwallowed, RequestKeeps, JobsAssumption
       DEF DeleteJob, dispatchVars, LoopFree
<1> QED
  BY <1>1, <1>2
-----------------------------------------------------------------------------
(* The status manager                                                       *)

LEMMA FinishReportKeeps ==
  ASSUME JobsInv, NEW j \in Jobs, FinishReport(j)
  PROVE  JobsInv'
<1>0. JobTypes /\ JobInv(j)
  BY DEF JobsInv
<1>1. /\ write[j] \in Ended \cup {"in_progress"}
      /\ job' \in {job, [job EXCEPT ![j] = IF HasRow(j) THEN write[j] ELSE @]}
      /\ write' = [write EXCEPT ![j] = None]
      /\ UNCHANGED <<doc, pipe, latched, waiting, file, todo, future, late,
                     api, status>>
      /\ Counted
  BY <1>0, JobWritten DEF FinishReport, Stored, dispatchVars, JobTypes
<1>2. /\ job'[j] \in {job[j], IF HasRow(j) THEN write[j] ELSE job[j]}
      /\ write'[j] = None
  BY <1>0, <1>1 DEF JobTypes
<1>3. JobTypes'
  <2>1. job' \in [Jobs -> Protected \cup
                          {"none", "accepted", "in_progress", "deleted"}]
    BY <1>0, <1>1 DEF JobTypes, Protected
  <2>2. write' \in [Jobs -> Ended \cup {"in_progress", None}]
    BY <1>0, <1>1 DEF JobTypes
  <2> QED
    BY <1>0, <1>1, <2>1, <2>2 DEF JobTypes, Counted
<1>4. \A k \in Jobs \ {j} : Spared(k)
  BY <1>0, <1>1 DEF Counted, Spared, Undisturbed, JobTypes
<1>5. HasRow(j)' = HasRow(j)
  BY <1>1, <1>2 DEF HasRow, Ended
<1>6. PipeInv(j)'
  BY <1>0, <1>1, <1>2, <1>5
     DEF JobInv, PipeInv, HasRow, Digitizes, Ingests, TasksOf
<1>7. FutureInv(j)' /\ FileInv(j)' /\ DocInv(j)'
  BY <1>0, <1>1 DEF JobInv, FutureInv, FileInv, DocInv, TasksOf, Digitizes,
                    Ingests
<1>8. CancelInv(j)' /\ EndedInv(j)'
  BY <1>0, <1>1, <1>2, JobsAssumption
     DEF JobInv, CancelInv, EndedInv, TasksOf, Ended, Terminal
<1>9. ConvertedInv(j)'
  BY <1>0, <1>1, <1>2, <1>5, JobsAssumption
     DEF Counted, JobInv, ConvertedInv, TasksOf, Digitizes, Ingests, AllConverted,
         Terminal
<1> QED
  BY <1>3, <1>4, <1>6, <1>7, <1>8, <1>9, SoleMover DEF JobInv

(* What a report of j's pipeline is about to write *)
LEMMA Reported ==
  ASSUME JobTypes, NEW j \in Jobs, NEW s \in Ended \cup {"in_progress"},
         Report(j, s)
  PROVE  /\ write' \in [Jobs -> Ended \cup {"in_progress", None}]
         /\ \A k \in Jobs \ {j} : write'[k] = write[k]
         /\ write'[j] \in {None, s}
         /\ job[j] \in Ended /\ s = "in_progress" => write'[j] = None
  BY DEF JobTypes, Report, Protected, Ended
-----------------------------------------------------------------------------
(* ingest                                                                   *)

LEMMA StartIngestKeeps ==
  ASSUME JobsInv, NEW j \in Jobs, StartIngest(j)
  PROVE  JobsInv'
<1>0. JobTypes /\ JobInv(j)
  BY DEF JobsInv
<1>1. /\ pipe[j] = "starting" /\ Ingests(j)
      /\ pipe' = [pipe EXCEPT ![j] = "checking"]
      /\ UNCHANGED <<job, doc, latched, waiting, file, todo, future, late,
                     api, slips, status>>
  BY DEF StartIngest, At, Go, bounds, dispatchVars
<1>2. /\ write' \in [Jobs -> Ended \cup {"in_progress", None}]
      /\ \A k \in Jobs \ {j} : write'[k] = write[k]
      /\ write'[j] \in {None, "in_progress"}
  BY <1>0, Reported DEF StartIngest
<1>3. pipe'[j] = "checking" /\ job[j] \notin Ended
  BY <1>0, <1>1 DEF JobTypes, JobInv, EndedInv
<1>4. JobTypes'
  BY <1>0, <1>1, <1>2 DEF JobTypes
<1>5. \A k \in Jobs \ {j} : Spared(k)
  BY <1>0, <1>1, <1>2 DEF Spared, Undisturbed, JobTypes
<1>6. PipeInv(j)'
  BY <1>0, <1>1, <1>3 DEF JobInv, PipeInv, HasRow, Digitizes, Ingests, TasksOf,
                          Unstarted, Phases
<1>7. FutureInv(j)' /\ FileInv(j)' /\ DocInv(j)'
  BY <1>0, <1>1, <1>3 DEF JobInv, FutureInv, FileInv, DocInv, TasksOf,
                          Digitizes, Ingests, Unstarted, Loop
<1>8. CancelInv(j)' /\ EndedInv(j)'
  BY <1>0, <1>1, <1>2, <1>3, JobsAssumption
     DEF JobInv, CancelInv, EndedInv, TasksOf, Ended, Terminal, Unstarted
<1>9. ConvertedInv(j)'
  BY <1>0, <1>1, <1>2, <1>3, JobsAssumption
     DEF JobInv, ConvertedInv, Terminal, Loop, Ended
<1> QED
  BY <1>4, <1>5, <1>6, <1>7, <1>8, <1>9, SoleMover DEF JobInv

LEMMA IngestRaisesKeeps ==
  ASSUME JobsInv, NEW j \in Jobs, IngestRaises(j)
  PROVE  JobsInv'
<1>0. JobTypes /\ JobInv(j)
  BY DEF JobsInv
<1>1. /\ pipe[j] = "checking"
      /\ \/ doc' = [t \in Tasks |-> IF t \in TasksOf(j) /\ doc[t] \notin Ended
                                    THEN "failed" ELSE doc[t]]
         \/ doc' = doc
      /\ pipe' = [pipe EXCEPT ![j] = "ending"]
      /\ UNCHANGED <<job, latched, waiting, file, todo, future, late,
                     api, status>>
      /\ Counted
  BY <1>0, DocsWritten DEF IngestRaises, At, Go, SetDocs, Unended, TasksOf,
                           dispatchVars
<1>2. /\ write' \in [Jobs -> Ended \cup {"in_progress", None}]
      /\ \A k \in Jobs \ {j} : write'[k] = write[k]
      /\ write'[j] \in {None, "failed"}
  BY <1>0, Reported DEF IngestRaises, Ended
<1>3. pipe'[j] = "ending" /\ job[j] \notin Ended
  BY <1>0, <1>1 DEF JobTypes, JobInv, EndedInv
<1>4. JobTypes'
  BY <1>0, <1>1, <1>2 DEF JobTypes, Ended, Counted
<1>5. \A k \in Jobs \ {j} : Spared(k)
  BY <1>0, <1>1, <1>2 DEF Counted, Spared, Undisturbed, JobTypes, TasksOf
<1>6. PipeInv(j)'
  BY <1>0, <1>1, <1>3 DEF JobInv, PipeInv, HasRow, Digitizes, Ingests, TasksOf,
                          Unstarted, Phases
<1>7. FutureInv(j)' /\ FileInv(j)'
  BY <1>0, <1>1, <1>3 DEF JobInv, FutureInv, FileInv, TasksOf,
                          Digitizes, Ingests, Loop
<1>8. DocInv(j)'
  BY <1>0, <1>1, <1>3 DEF JobInv, DocInv, FileInv, TasksOf, Unstarted,
                          Successes
<1>9. CancelInv(j)' /\ EndedInv(j)'
  BY <1>0, <1>1, <1>2, <1>3, JobsAssumption
     DEF JobInv, CancelInv, EndedInv, TasksOf, Ended, Terminal, Unstarted,
         Loop, Phases
<1>10. ConvertedInv(j)'
  BY <1>0, <1>1, <1>2, <1>3, JobsAssumption
     DEF Counted, JobInv, ConvertedInv, Terminal, Loop, Ended
<1> QED
  BY <1>4, <1>5, <1>6, <1>7, <1>8, <1>9, <1>10, SoleMover DEF JobInv

(* The tasks are zipped with the files one to one. *)
LEMMA CheckOneKeeps ==
  ASSUME JobsInv, NEW j \in Jobs, CheckOne(j)
  PROVE  JobsInv'
<1>0. JobTypes /\ JobInv(j)
  BY DEF JobsInv
<1>1. /\ pipe[j] = "checking" /\ Ingests(j) /\ write[j] = None
      /\ ~latched[j] /\ todo[j] = {} /\ job[j] \notin Ended
      /\ UNCHANGED <<job, doc, latched, todo, future, write, late,
                     api, status>>
      /\ Counted
  BY <1>0, NothingSwallowed, SlipCounts
     DEF CheckOne, At, dispatchVars, JobInv, PipeInv, Unstarted,
         EndedInv
<1>2. CASE pipe' = [pipe EXCEPT ![j] = "raised"] /\ UNCHANGED <<waiting, file>>
  <2>1. pipe'[j] = "raised"
    BY <1>0, <1>2 DEF JobTypes
  <2>2. JobTypes'
    BY <1>0, <1>1, <1>2 DEF JobTypes, Counted
  <2>3. \A k \in Jobs \ {j} : Spared(k)
    BY <1>0, <1>1, <1>2 DEF Counted, Spared, Undisturbed, JobTypes
  <2>4. PipeInv(j)' /\ EndedInv(j)'
    BY <1>0, <1>1, <1>2, <2>1, JobsAssumption
       DEF JobInv, PipeInv, HasRow, Digitizes, Ingests, TasksOf, Unstarted,
           Phases, EndedInv, Ended, Terminal
  <2>5. FutureInv(j)' /\ FileInv(j)' /\ DocInv(j)'
    BY <1>0, <1>1, <1>2, <2>1 DEF JobInv, FutureInv, FileInv, DocInv, TasksOf,
                                  Digitizes, Ingests, Unstarted, Loop
  <2>6. CancelInv(j)' /\ ConvertedInv(j)'
    BY <1>0, <1>1, <1>2, <2>1, JobsAssumption
       DEF JobInv, CancelInv, TasksOf, Ended, Terminal, Unstarted, Loop,
           Phases, ConvertedInv, Counted
  <2> QED
    BY <2>2, <2>3, <2>4, <2>5, <2>6, SoleMover DEF JobInv
<1>3. ASSUME NEW f \in Bijection(Found(j), Found(j)),
             pipe' = [pipe EXCEPT ![j] = "polling"],
             waiting' = [waiting EXCEPT ![j] = Found(j)],
             file' = [t \in Tasks |-> IF t \in Found(j) THEN f[t] ELSE file[t]]
      PROVE  JobsInv'
  <2>1. pipe'[j] = "polling" /\ waiting'[j] = Found(j)
    BY <1>0, <1>3 DEF JobTypes
  <2>2. /\ \A t \in Found(j) : f[t] \in Found(j)
        /\ \A t, u \in Found(j) : f[t] = f[u] => t = u
        /\ \A u \in Found(j) : \E t \in Found(j) : f[t] = u
    BY DEF Bijection, Injection, Surjection, IsInjective
  <2>3. Found(j) \subseteq TasksOf(j) /\ TasksOf(j) \subseteq Tasks
    BY DEF Found, TasksOf
  <2>4. JobTypes'
    <3>1. file' \in [Tasks -> Tasks]
      BY <1>0, <1>3, <2>2, <2>3 DEF JobTypes
    <3>2. waiting' \in [Jobs -> SUBSET Tasks]
      BY <1>0, <1>3, <2>3 DEF JobTypes
    <3>3. pipe' \in [Jobs -> {"none", "created", "starting", "checking",
                        "polling", "signalling", "phase 1", "later phase 1",
                        "phase 2", "later phase 2", "concluding", "raised",
                        "ending", "ended"}]
      BY <1>0, <1>3 DEF JobTypes
    <3> QED
      BY <1>0, <1>1, <3>1, <3>2, <3>3 DEF JobTypes, Counted
  <2>5. \A k \in Jobs \ {j} : Spared(k)
    BY <1>0, <1>1, <1>3, <2>3 DEF Counted, Spared, Undisturbed, JobTypes, TasksOf
  <2>6. PipeInv(j)' /\ EndedInv(j)'
    BY <1>0, <1>1, <1>3, <2>1, JobsAssumption
       DEF JobInv, PipeInv, HasRow, Digitizes, Ingests, TasksOf, Unstarted,
           Phases, EndedInv, Ended, Terminal
  <2>7. FutureInv(j)'
    BY <1>0, <1>1, <2>1 DEF JobInv, FutureInv, TasksOf, Digitizes, Ingests, Loop
  <2>8. FileInv(j)'
    <3>1. CASE HasRow(j)
      <4>1. \A t \in TasksOf(j) : file'[t] = f[t]
        BY <1>3, <3>1, <2>3 DEF Found
      <4> QED
        BY <1>1, <2>2, <3>1, <4>1 DEF FileInv, Found, TasksOf, Ingests, Digitizes
    <3>2. CASE ~HasRow(j)
      <4>1. \A t \in TasksOf(j) : file'[t] = file[t]
        BY <1>3, <3>2, <2>3 DEF Found
      <4> QED
        BY <1>0, <4>1 DEF JobInv, FileInv, TasksOf, Digitizes
    <3> QED
      BY <3>1, <3>2
  <2>9. \A t \in TasksOf(j) : doc[t] \notin Successes
    BY <1>0, <1>1 DEF JobInv, DocInv, Unstarted
  <2>10. DocInv(j)'
    BY <1>1, <2>1, <2>8, <2>9 DEF DocInv, FileInv, Unstarted, TasksOf
  <2>11. CancelInv(j)'
    BY <1>0, <1>1, <2>1 DEF JobInv, CancelInv, TasksOf, Unstarted, Loop, Phases
  <2>12. ConvertedInv(j)'
    BY <1>0, <1>1, <2>1, JobsAssumption
       DEF ConvertedInv, Found, HasRow, TasksOf, Ended, Terminal
  <2> QED
    BY <2>4, <2>5, <2>6, <2>7, <2>8, <2>10, <2>11, <2>12, SoleMover DEF JobInv
<1>4. CASE /\ pipe' = [pipe EXCEPT ![j] = "polling"]
           /\ waiting' = [waiting EXCEPT ![j] = {}]
           /\ UNCHANGED file /\ slips' # 0
  <2>1. pipe'[j] = "polling" /\ waiting'[j] = {}
    BY <1>0, <1>4 DEF JobTypes
  <2>2. JobTypes'
    BY <1>0, <1>1, <1>4 DEF JobTypes, Counted
  <2>3. \A k \in Jobs \ {j} : Spared(k)
    BY <1>0, <1>1, <1>4 DEF Counted, Spared, Undisturbed, JobTypes
  <2>4. PipeInv(j)' /\ EndedInv(j)'
    BY <1>0, <1>1, <2>1, JobsAssumption
       DEF JobInv, PipeInv, HasRow, Digitizes, Ingests, TasksOf, Unstarted,
           Phases, EndedInv, Ended, Terminal
  <2>5. FutureInv(j)' /\ FileInv(j)' /\ DocInv(j)'
    BY <1>0, <1>1, <1>4, <2>1 DEF JobInv, FutureInv, FileInv, DocInv, TasksOf,
                                  Digitizes, Ingests, Unstarted, Loop
  <2>6. CancelInv(j)' /\ ConvertedInv(j)'
    BY <1>0, <1>1, <1>4, <2>1
       DEF JobInv, CancelInv, TasksOf, Unstarted, Loop, Phases, ConvertedInv
  <2> QED
    BY <2>2, <2>3, <2>4, <2>5, <2>6, SoleMover DEF JobInv
<1> QED
  BY <1>0, <1>2, <1>3, <1>4, SlipCounts DEF CheckOne, Go

LEMMA PollCycleKeeps ==
  ASSUME JobsInv, NEW j \in Jobs, PollCycle(j)
  PROVE  JobsInv'
<1>0. JobTypes /\ JobInv(j)
  BY DEF JobsInv
<1>1. /\ pipe[j] = "polling" /\ write[j] = None /\ Ingests(j)
      /\ job[j] \notin Ended /\ todo[j] = {}
      /\ UNCHANGED <<job, doc, waiting, file, future, write, late, api,
                     slips, status>>
  BY <1>0 DEF PollCycle, At, bounds, dispatchVars, JobInv, PipeInv, EndedInv
<1>2. FileInv(j)' /\ DocInv(j)'
  <2>1. pipe'[j] \notin Unstarted
    BY <1>0 DEF PollCycle, Go, JobTypes, Unstarted
  <2> QED
    BY <1>0, <1>1, <2>1 DEF JobInv, FileInv, DocInv, TasksOf, Digitizes
<1>3. CASE /\ waiting[j] \cup Futures(j) = {}
           /\ pipe' = [pipe EXCEPT ![j] = IF latched[j] THEN "raised"
                                          ELSE "concluding"]
           /\ latched' = [latched EXCEPT ![j] = FALSE]
           /\ UNCHANGED todo
  <2>1. /\ pipe'[j] \in {"raised", "concluding"} /\ ~latched'[j]
        /\ pipe'[j] = "concluding" => ~latched[j]
    BY <1>0, <1>3 DEF JobTypes
  <2>2. \A t \in TasksOf(j) : t \notin waiting[j] /\ ~future[t] /\ t \notin late
    BY <1>3 DEF Futures
  <2>3. JobTypes'
    BY <1>0, <1>1, <1>3 DEF JobTypes
  <2>4. \A k \in Jobs \ {j} : Spared(k)
    BY <1>0, <1>1, <1>3 DEF Spared, Undisturbed, JobTypes
  <2>5. EndedInv(j)'
    BY <1>1, <2>1, JobsAssumption DEF EndedInv, Ended, Terminal
  <2>8. PipeInv(j)'
    <3>1. api = j => HasRow(j)
      BY <1>0 DEF JobInv, PipeInv
    <3> QED
      BY <1>1, <1>3, <2>1, <3>1
         DEF PipeInv, HasRow, Digitizes, Ingests, TasksOf, Unstarted, Phases
  <2>6. FutureInv(j)' /\ CancelInv(j)'
    BY <1>1, <2>1, <2>2 DEF FutureInv, CancelInv, TasksOf, Loop, Phases,
                            Unstarted
  <2>7. ConvertedInv(j)'
    BY <1>0, <1>1, <2>1, <2>2, JobsAssumption
       DEF JobInv, ConvertedInv, HasRow, TasksOf, Ended, Terminal, Loop
  <2> QED
    BY <1>2, <2>3, <2>4, <2>5, <2>6, <2>7, <2>8, SoleMover DEF JobInv
<1>4. CASE /\ latched' = [latched EXCEPT ![j] = @ \/ IsCancelled(j)]
           /\ todo' = [todo EXCEPT ![j] = waiting[j]]
           /\ pipe' = [pipe EXCEPT ![j] =
                         IF IsCancelled(j) /\ ~latched[j] THEN "signalling"
                         ELSE "polling"]
  <2>1. /\ pipe'[j] \in {"signalling", "polling"}
        /\ pipe'[j] = "signalling" => latched'[j]
        /\ latched[j] => latched'[j]
        /\ todo'[j] = waiting'[j]
    BY <1>0, <1>1, <1>4 DEF JobTypes
  <2>2. JobTypes'
    <3>1. /\ latched' \in [Jobs -> BOOLEAN]
          /\ todo' \in [Jobs -> SUBSET Tasks]
      BY <1>0, <1>1, <1>4 DEF JobTypes, IsCancelled
    <3> QED
      BY <1>0, <1>1, <1>4, <3>1 DEF JobTypes
  <2>3. \A k \in Jobs \ {j} : Spared(k)
    BY <1>0, <1>1, <1>4 DEF Spared, Undisturbed, JobTypes
  <2>4. PipeInv(j)' /\ EndedInv(j)'
    BY <1>0, <1>1, <2>1, JobsAssumption
       DEF JobInv, PipeInv, HasRow, Digitizes, Ingests, TasksOf, Unstarted,
           Phases, EndedInv, Ended, Terminal
  <2>5. FutureInv(j)' /\ CancelInv(j)'
    BY <1>0, <1>1, <2>1 DEF JobInv, FutureInv, CancelInv, TasksOf, Loop, Phases,
                            Unstarted, Ingests, Digitizes
  <2>6. ConvertedInv(j)'
    BY <1>0, <1>1, <2>1, JobsAssumption
       DEF JobInv, ConvertedInv, HasRow, TasksOf, Ended, Terminal, Loop,
           Ingests, Digitizes
  <2> QED
    BY <1>2, <2>2, <2>3, <2>4, <2>5, <2>6, SoleMover DEF JobInv
<1> QED
  BY <1>3, <1>4 DEF PollCycle, Go

LEMMA SignalKeeps ==
  ASSUME DispatchInv, JobsInv, NEW j \in Jobs, Signal(j)
  PROVE  JobsInv'
<1>0. JobTypes /\ JobInv(j)
  BY DEF JobsInv
<1>1. /\ pipe[j] = "signalling" /\ write[j] = None /\ job[j] \notin Ended
      /\ pipe' = [pipe EXCEPT ![j] = IF Ingests(j) THEN "polling" ELSE "raised"]
      /\ UNCHANGED <<job, doc, latched, waiting, file, todo, future, write,
                     late, api>>
      /\ Counted
  BY <1>0, NothingSwallowed, SlipCounts DEF Signal, At, Go, JobInv, EndedInv
<1>2. /\ \A t \in Tasks : t \notin TasksOf(j) => status'[t] = status[t]
      /\ \A t \in Tasks : status[t] = "completed" => status'[t] = "completed"
  BY CancelSparesOthers DEF Signal, dispatchVars
<1>3. /\ Ingests(j) => pipe'[j] = "polling" /\ latched'[j]
      /\ ~Ingests(j) => pipe'[j] = "raised" /\ ~latched'[j]
  BY <1>0, <1>1 DEF JobTypes, JobInv, PipeInv, Ingests
<1>4. JobTypes'
  BY <1>0, <1>1 DEF JobTypes, Counted
<1>5. \A k \in Jobs \ {j} : Spared(k)
  BY <1>0, <1>1, <1>2 DEF Counted, Spared, Undisturbed, JobTypes, TasksOf
<1>6. EndedInv(j)'
  BY <1>1, <1>3, JobsAssumption DEF EndedInv, Ended, Terminal
<1>11. PipeInv(j)'
  <2>1. (api = j => HasRow(j)) /\ todo[j] \subseteq waiting[j]
    BY <1>0 DEF JobInv, PipeInv
  <2> QED
    BY <1>1, <1>3, <2>1
       DEF PipeInv, HasRow, Digitizes, Ingests, TasksOf, Unstarted, Phases
<1>7. FutureInv(j)'
  BY <1>0, <1>1, <1>2, <1>3
     DEF JobInv, FutureInv, TasksOf, Loop, Ingests, Digitizes
<1>12. CancelInv(j)'
  BY <1>3 DEF CancelInv, TasksOf, Loop, Phases, Unstarted
<1>8. FileInv(j)'
  BY <1>0, <1>1 DEF JobInv, FileInv, TasksOf, Digitizes
<1>9. DocInv(j)'
  BY <1>0, <1>1, <1>2, <1>3 DEF JobInv, DocInv, TasksOf, Unstarted, FileInv
<1>10. ConvertedInv(j)'
  BY <1>0, <1>1, <1>3, JobsAssumption
     DEF Counted, JobInv, PipeInv, ConvertedInv, HasRow, TasksOf, Ended, Terminal, Loop,
         Ingests, Digitizes
<1> QED
  BY <1>4, <1>5, <1>6, <1>7, <1>8, <1>9, <1>10, <1>11, <1>12, SoleMover
     DEF JobInv

(* What a look at one task of the poll cycle comes to, in every branch of
   section A: the task is taken off the cycle, and may be dropped, but while
   no error was swallowed and nothing is cancelled only for its document. *)
Seen(j, t) ==
  /\ pipe[j] = "polling" /\ write[j] = None /\ t \in todo[j]
  /\ todo' = [todo EXCEPT ![j] = @ \ {t}]
  /\ waiting' \in {waiting, [waiting EXCEPT ![j] = @ \ {t}]}
  /\ write' \in [Jobs -> Ended \cup {"in_progress", None}]
  /\ \A k \in Jobs \ {j} : write'[k] = write[k]
  /\ write'[j] \in {None, "in_progress"}
  /\ future' \in {future, [future EXCEPT ![t] = TRUE]}
  /\ future' # future => status[t] = "completed" /\ t \notin waiting'[j]
  /\ \/ doc' = doc
     \/ \E s \in {"in_progress", "digitized", "failed"} :
          /\ SetDocs({file[t]}, s)
          /\ s = "digitized" => status[t] = "completed"
  /\ slips' = 0 /\ ~latched[j] =>
       t \in waiting'[j] \/ future'[t] \/ doc'[file[t]] = "failed"
  /\ slips' \in Nat /\ (slips' = 0 => slips = 0)
  /\ UNCHANGED <<job, pipe, latched, late, api, file, status>>

LEMMA SeenKeeps ==
  ASSUME JobsInv, NEW j \in Jobs, NEW t \in TasksOf(j), Seen(j, t)
  PROVE  JobsInv'
<1>0. JobTypes /\ JobInv(j)
  BY DEF JobsInv
<1>1. /\ pipe[j] = "polling" /\ Ingests(j) /\ job[j] \notin Ended
      /\ t \in waiting[j] /\ t \in Tasks
      /\ file[t] \in TasksOf(j) /\ file[t] \in Tasks
  BY <1>0 DEF Seen, JobInv, PipeInv, EndedInv, FileInv, TasksOf
<1>2. /\ todo'[j] = todo[j] \ {t}
      /\ waiting'[j] \in {waiting[j], waiting[j] \ {t}}
      /\ \A k \in Jobs \ {j} : todo'[k] = todo[k] /\ waiting'[k] = waiting[k]
  BY <1>0 DEF Seen, JobTypes
<1>3. /\ \A u \in Tasks \ {t} : future'[u] = future[u]
      /\ future[t] => future'[t]
      /\ future'[t] => status[t] = "completed" /\ t \notin waiting'[j]
  <2>1. future \in [Tasks -> BOOLEAN] /\ ~future[t]
    BY <1>0, <1>1 DEF JobTypes, JobInv, FutureInv
  <2>2. CASE future' = future
    BY <2>1, <2>2
  <2>3. CASE future' = [future EXCEPT ![t] = TRUE] /\ future' # future
    BY <1>1, <2>1, <2>3 DEF Seen
  <2> QED
    BY <2>2, <2>3 DEF Seen
<1>4. /\ \A u \in Tasks : u # file[t] => doc'[u] = doc[u]
      /\ doc'[file[t]] \in Successes => status[t] = "completed"
      /\ doc' \in [Tasks -> Ended \cup
                            {"none", "accepted", "in_progress", "digitized"}]
  <2>1. CASE doc' = doc
    BY <1>0, <1>1, <2>1 DEF JobTypes, JobInv, DocInv, Successes
  <2>2. ASSUME NEW s \in {"in_progress", "digitized", "failed"},
               SetDocs({file[t]}, s),
               s = "digitized" => status[t] = "completed"
        PROVE  /\ \A u \in Tasks : u # file[t] => doc'[u] = doc[u]
               /\ doc'[file[t]] \in Successes => status[t] = "completed"
               /\ doc' \in [Tasks -> Ended \cup {"none", "accepted",
                                                "in_progress", "digitized"}]
    BY <1>0, <1>1, <2>2 DEF JobTypes, SetDocs, Successes, Ended
  <2> QED
    BY <2>1, <2>2 DEF Seen
<1>5. JobTypes'
  <2>3. todo' \in [Jobs -> SUBSET Tasks]
    BY <1>0 DEF JobTypes, Seen
  <2>1. waiting' \in [Jobs -> SUBSET Tasks]
    <3>1. waiting \in [Jobs -> SUBSET Tasks]
      BY <1>0 DEF JobTypes
    <3>2. CASE waiting' = [waiting EXCEPT ![j] = @ \ {t}]
      BY <3>1, <3>2
    <3> QED
      BY <3>1, <3>2 DEF Seen
  <2>2. future' \in [Tasks -> BOOLEAN]
    BY <1>0 DEF JobTypes, Seen
  <2> QED
    BY <1>0, <1>4, <2>1, <2>2, <2>3 DEF JobTypes, Seen
<1>6. \A k \in Jobs \ {j} : Spared(k)
  BY <1>0, <1>1, <1>2, <1>3, <1>4 DEF Spared, Undisturbed, TasksOf, Seen
<1>7. PipeInv(j)' /\ EndedInv(j)'
  BY <1>0, <1>1, <1>2, JobsAssumption
     DEF Seen, JobInv, PipeInv, HasRow, Digitizes, Ingests, TasksOf, Unstarted,
         Phases, EndedInv, Ended, Terminal
<1>8. FutureInv(j)'
  BY <1>0, <1>1, <1>2, <1>3
     DEF Seen, JobInv, FutureInv, TasksOf, Loop, Ingests, Digitizes
<1>9. FileInv(j)' /\ CancelInv(j)'
  BY <1>0, <1>1 DEF Seen, JobInv, FileInv, CancelInv, TasksOf, Digitizes
<1>10. DocInv(j)'
  BY <1>0, <1>1, <1>4 DEF Seen, JobInv, DocInv, FileInv, TasksOf, Unstarted
<1>11. ConvertedInv(j)'
  <2> SUFFICES ASSUME slips' = 0
               PROVE  /\ ~(write'[j] = "completed" \/ job'[j] = "completed")
                      /\ HasRow(j)' /\ ~latched'[j]
                           => \A u \in TasksOf(j) :
                                \/ u \in waiting'[j] \/ future'[u]
                                \/ doc'[file[u]] \in {"completed", "failed"}
    BY <1>1 DEF ConvertedInv, Seen, TasksOf
  <2>1. ~(write'[j] = "completed" \/ job'[j] = "completed")
    BY <1>1, JobsAssumption DEF Seen, Ended, Terminal
  <2>2. ASSUME HasRow(j)', ~latched'[j], NEW u \in TasksOf(j)
        PROVE  \/ u \in waiting'[j] \/ future'[u]
               \/ doc'[file[u]] \in {"completed", "failed"}
    <3>1. CASE u = t
      BY <2>2, <3>1 DEF Seen
    <3>2. CASE u # t
      <4>1. file[u] \in TasksOf(j) /\ file[u] # file[t] /\ u \in Tasks
            /\ file[u] \in Tasks
        BY <1>0, <3>2 DEF JobInv, FileInv, TasksOf
      <4>2. \/ u \in waiting[j] \/ future[u]
            \/ doc[file[u]] \in {"completed", "failed"}
        BY <1>0, <1>1, <2>2 DEF Seen, JobInv, ConvertedInv, HasRow, Loop
      <4> QED
        BY <1>2, <1>3, <1>4, <3>2, <4>1, <4>2
    <3> QED
      BY <3>1, <3>2
  <2> QED
    BY <2>1, <2>2
<1> QED
  BY <1>5, <1>6, <1>7, <1>8, <1>9, <1>10, <1>11, SoleMover DEF JobInv

LEMMA LookIsSeen ==
  ASSUME JobsInv, NEW j \in Jobs, NEW t \in TasksOf(j),
         Look(j, t) \/ DeadlinePasses(j, t) \/ ReadFails(j, t)
  PROVE  Seen(j, t)
<1>0. JobTypes /\ JobInv(j) /\ t \in Tasks /\ file[t] \in Tasks
  BY DEF JobsInv, JobTypes, TasksOf
<1>1. /\ pipe[j] = "polling" /\ write[j] = None /\ t \in todo[j]
      /\ t \in waiting[j]
      /\ todo' = [todo EXCEPT ![j] = @ \ {t}]
      /\ UNCHANGED <<job, pipe, latched, late, api, file, status>>
  BY <1>0 DEF Look, DeadlinePasses, ReadFails, At, Looked, JobInv, PipeInv,
              dispatchVars
<1>2. waiting' = [waiting EXCEPT ![j] = @ \ {t}] => t \notin waiting'[j]
  BY <1>0 DEF JobTypes
<1>3. \A s \in {"in_progress", "digitized", "failed"} :
        SetDocs({file[t]}, s) => doc'[file[t]] = s
  BY <1>0 DEF SetDocs
<1>4. write' = write => /\ write' \in [Jobs -> Ended \cup {"in_progress", None}]
                        /\ \A k \in Jobs \ {j} : write'[k] = write[k]
                        /\ write'[j] \in {None, "in_progress"}
  BY <1>0, <1>1 DEF JobTypes
<1>5. Report(j, "in_progress") =>
        /\ write' \in [Jobs -> Ended \cup {"in_progress", None}]
        /\ \A k \in Jobs \ {j} : write'[k] = write[k]
        /\ write'[j] \in {None, "in_progress"}
  BY <1>0, Reported
<1>6. /\ UNCHANGED bounds => Counted /\ slips' = slips
      /\ Slip => Counted /\ slips' # 0
      /\ \A v \in {"in_progress", "digitized", "failed"} :
           WriteDocs({file[t]}, v) =>
             /\ Counted
             /\ SetDocs({file[t]}, v) \/ doc' = doc
             /\ slips' = 0 => SetDocs({file[t]}, v)
  BY <1>0, NothingSwallowed, SlipCounts, DocsWritten
<1> USE DEF Counted
<1>7. CASE Look(j, t)
  <2>0. React(j, t)
    BY <1>7 DEF Look
  <2>1. CASE latched[j]
    <3>1. /\ waiting' \in {waiting, [waiting EXCEPT ![j] = @ \ {t}]}
          /\ UNCHANGED <<doc, write, future, bounds>>
      BY <2>0, <2>1 DEF React, Drop
    <3> QED
      BY <1>1, <1>4, <1>6, <2>1, <3>1 DEF Seen
  <2>2. CASE ~latched[j] /\ status[t] = "running"
    <3>1. /\ WriteDocs({file[t]}, "in_progress") /\ Report(j, "in_progress")
          /\ UNCHANGED <<waiting, future>>
      BY <2>0, <2>2 DEF React
    <3> QED
      BY <1>1, <1>5, <1>6, <3>1 DEF Seen
  <2>3. CASE ~latched[j] /\ status[t] = "completed"
    <3>1. /\ WriteDocs({file[t]}, "digitized") /\ Report(j, "in_progress")
          /\ waiting' = [waiting EXCEPT ![j] = @ \ {t}]
          /\ future' = [future EXCEPT ![t] = TRUE]
      BY <2>0, <2>3 DEF React, Drop
    <3>2. future'[t]
      BY <1>0, <3>1 DEF JobTypes
    <3> QED
      BY <1>1, <1>2, <1>5, <1>6, <2>3, <3>1, <3>2 DEF Seen
  <2>4. CASE ~latched[j] /\ status[t] = "failed"
    <3>1. /\ WriteDocs({file[t]}, "failed") /\ Report(j, "in_progress")
          /\ waiting' = [waiting EXCEPT ![j] = @ \ {t}]
          /\ UNCHANGED future
      BY <2>0, <2>4 DEF React, Drop
    <3> QED
      BY <1>1, <1>3, <1>5, <1>6, <3>1 DEF Seen
  <2>5. CASE ~latched[j] /\ status[t] = "cancelled"
    BY <1>0, <1>1, <2>5 DEF JobInv, CancelInv, Loop, Cancelled
  <2>6. CASE ~latched[j] /\ status[t] \notin Terminal \cup {"running"}
    <3>1. UNCHANGED <<doc, write, waiting, future, bounds>>
      BY <2>0, <2>6 DEF React, Terminal
    <3> QED
      BY <1>1, <1>4, <1>6, <3>1 DEF Seen
  <2> QED
    BY <2>1, <2>2, <2>3, <2>4, <2>5, <2>6 DEF Terminal
<1>8. CASE DeadlinePasses(j, t)
  <2>1. /\ WriteDocs({file[t]}, "failed") /\ Report(j, "in_progress")
        /\ waiting' = [waiting EXCEPT ![j] = @ \ {t}]
        /\ UNCHANGED future
    BY <1>8 DEF DeadlinePasses, Drop
  <2> QED
    BY <1>1, <1>3, <1>5, <1>6, <2>1 DEF Seen
<1>9. CASE ReadFails(j, t)
  <2>1. /\ waiting' = [waiting EXCEPT ![j] = @ \ {t}]
        /\ Slip /\ UNCHANGED <<future, doc, write>>
    BY <1>9 DEF ReadFails, Drop
  <2> QED
    BY <1>1, <1>4, <1>6, <2>1 DEF Seen
<1> QED
  BY <1>7, <1>8, <1>9
-----------------------------------------------------------------------------
(* The end of a pipeline                                                    *)

LEMMA ConcludeKeeps ==
  ASSUME JobsInv, NEW j \in Jobs, Conclude(j)
  PROVE  JobsInv'
<1>0. JobTypes /\ JobInv(j)
  BY DEF JobsInv
<1>1. /\ pipe[j] = "concluding" /\ Ingests(j) /\ write[j] = None
      /\ job[j] \notin Ended
      /\ UNCHANGED <<job, latched, waiting, file, todo, future, late, api,
                     status>>
  BY <1>0 DEF Conclude, At, dispatchVars, JobInv, PipeInv, EndedInv
<1>3. Conclusion(j) \in {"failed", "completed"}
  BY DEF Conclusion
<1>2. /\ Counted
      /\ \/ pipe' = [pipe EXCEPT ![j] = "raised"] /\ UNCHANGED <<doc, write>>
         \/ /\ pipe' = [pipe EXCEPT ![j] = "ending"]
            /\ \E s \in {"failed", "completed"} :
                 Report(j, s) /\ (slips' = 0 => s = Conclusion(j))
            /\ \/ UNCHANGED doc
               \/ SetDocs(Unended(j), "failed") /\ slips' # 0
  BY <1>0, <1>3, NothingSwallowed, SlipCounts DEF Conclude, Go
<1>4. /\ write' \in [Jobs -> Ended \cup {"in_progress", None}]
      /\ \A k \in Jobs \ {j} : write'[k] = write[k]
      /\ write'[j] \in {None, "failed", "completed"}
      /\ slips' = 0 /\ write'[j] # None =>
           write'[j] = Conclusion(j) /\ HasRow(j)
      /\ write'[j] # None => pipe' = [pipe EXCEPT ![j] = "ending"]
  <2>1. CASE UNCHANGED write
    BY <1>0, <1>1, <2>1 DEF JobTypes
  <2>2. ASSUME pipe' = [pipe EXCEPT ![j] = "ending"],
               NEW s \in {"failed", "completed"}, Report(j, s),
               slips' = 0 => s = Conclusion(j)
        PROVE  <1>4
    <3>1. write'[j] # None => HasRow(j)
      BY <1>0, <2>2 DEF Report, JobTypes
    <3> QED
      BY <1>0, <2>2, <3>1, Reported DEF Ended
  <2> QED
    BY <1>2, <2>1, <2>2
<1>12. /\ doc' \in [Tasks -> Ended \cup
                             {"none", "accepted", "in_progress", "digitized"}]
       /\ \A u \in Tasks : u \notin TasksOf(j) => doc'[u] = doc[u]
       /\ \A u \in TasksOf(j) : doc'[u] \in {doc[u], "failed"}
       /\ slips' = 0 => doc' = doc
  <2>1. CASE doc' = doc
    BY <1>0, <2>1 DEF JobTypes
  <2>2. CASE SetDocs(Unended(j), "failed") /\ slips' # 0
    BY <1>0, <2>2 DEF SetDocs, Unended, JobTypes, TasksOf, Ended
  <2> QED
    BY <1>2, <2>1, <2>2
<1>5. /\ pipe'[j] \in {"raised", "ending"}
      /\ write'[j] # None => pipe'[j] = "ending"
  BY <1>0, <1>2, <1>4 DEF JobTypes
<1>6. JobTypes'
  <2>1. pipe' \in [Jobs -> {"none", "created", "starting", "checking",
                        "polling", "signalling", "phase 1", "later phase 1",
                        "phase 2", "later phase 2", "concluding", "raised",
                        "ending", "ended"}]
    BY <1>0, <1>2 DEF JobTypes
  <2> QED
    BY <1>0, <1>1, <1>2, <1>4, <1>12, <2>1 DEF JobTypes, Counted
<1>7. \A k \in Jobs \ {j} : Spared(k)
  BY <1>0, <1>1, <1>2, <1>4, <1>12 DEF Counted, Spared, Undisturbed, JobTypes,
                                      TasksOf
<1>8. PipeInv(j)' /\ EndedInv(j)'
  BY <1>0, <1>1, <1>5, JobsAssumption
     DEF JobInv, PipeInv, HasRow, Digitizes, Ingests, TasksOf, Unstarted,
         Phases, EndedInv, Ended, Terminal
<1>9. FutureInv(j)' /\ FileInv(j)'
  BY <1>0, <1>1 DEF JobInv, FutureInv, FileInv, TasksOf, Digitizes, Loop
<1>10. DocInv(j)' /\ CancelInv(j)'
  BY <1>0, <1>1, <1>5, <1>12
     DEF JobInv, DocInv, FileInv, CancelInv, TasksOf, Unstarted, Loop, Phases,
         Successes
<1>11. ConvertedInv(j)'
  <2>1. ASSUME slips' = 0, write'[j] = "completed"
        PROVE  AllConverted(j)'
    <3>0. slips = 0 /\ doc' = doc
      BY <1>2, <1>12, <2>1 DEF Counted
    <3>1. HasRow(j) /\ Conclusion(j) = "completed"
      BY <1>4, <2>1, JobsAssumption DEF Terminal
    <3>2. \A u \in TasksOf(j) : doc[u] # "failed"
      BY <3>1 DEF Conclusion, Found
    <3>3. \A t \in TasksOf(j) : doc[file[t]] \in {"completed", "failed"}
      BY <1>0, <1>1, <3>0, <3>1 DEF JobInv, ConvertedInv
    <3>4. \A t \in TasksOf(j) : doc[file[t]] = "completed" /\ status[t] = "completed"
      BY <1>0, <3>2, <3>3 DEF JobInv, FileInv, DocInv, Successes
    <3>5. \A u \in TasksOf(j) : doc[u] = "completed"
      BY <1>0, <3>4 DEF JobInv, FileInv
    <3> QED
      BY <1>1, <3>0, <3>4, <3>5 DEF AllConverted, TasksOf
  <2> QED
    BY <1>1, <1>5, <2>1, JobsAssumption
       DEF ConvertedInv, TasksOf, Loop, Ended, Terminal
<1> QED
  BY <1>6, <1>7, <1>8, <1>9, <1>10, <1>11, SoleMover DEF JobInv

LEMMA EndPipelineKeeps ==
  ASSUME JobsInv, NEW j \in Jobs, EndPipeline(j)
  PROVE  JobsInv'
<1>0. JobTypes /\ JobInv(j)
  BY DEF JobsInv
<1>1. /\ pipe[j] = "ending" /\ write[j] = None
      /\ pipe' = [pipe EXCEPT ![j] = "ended"]
      /\ UNCHANGED <<job, doc, latched, waiting, file, todo, future, write,
                     late, api, slips, status>>
  BY DEF EndPipeline, At, Go, bounds, dispatchVars
<1>2. pipe'[j] = "ended"
  BY <1>0, <1>1 DEF JobTypes
<1>3. JobTypes'
  BY <1>0, <1>1 DEF JobTypes
<1>4. \A k \in Jobs \ {j} : Spared(k)
  BY <1>0, <1>1 DEF Spared, Undisturbed, JobTypes
<1>5. PipeInv(j)' /\ EndedInv(j)'
  BY <1>0, <1>1, <1>2, JobsAssumption
     DEF JobInv, PipeInv, HasRow, Digitizes, Ingests, TasksOf, Unstarted,
         Phases, EndedInv, Ended, Terminal
<1>6. FutureInv(j)' /\ FileInv(j)'
  BY <1>0, <1>1 DEF JobInv, FutureInv, FileInv, TasksOf, Digitizes, Loop
<1>7. DocInv(j)' /\ CancelInv(j)'
  BY <1>0, <1>1, <1>2 DEF JobInv, DocInv, CancelInv, TasksOf, Unstarted, Loop,
                          Phases
<1>8. ConvertedInv(j)'
  BY <1>0, <1>1, <1>2 DEF JobInv, ConvertedInv, AllConverted, TasksOf, Loop
<1> QED
  BY <1>3, <1>4, <1>5, <1>6, <1>7, <1>8, SoleMover DEF JobInv

LEMMA CancelJobDocsKeeps ==
  ASSUME JobsInv, NEW j \in Jobs, CancelJobDocs(j)
  PROVE  JobsInv'
<1>0. JobTypes /\ JobInv(j)
  BY DEF JobsInv
<1>1. /\ pipe[j] = "raised" /\ write[j] = None /\ job[j] \notin Ended
      /\ \/ SetDocs(Found(j) \cap Unended(j), "cancelled")
         \/ doc' = doc
      /\ job' \in {job, [job EXCEPT ![j] = IF HasRow(j) THEN "cancelled" ELSE @]}
      /\ pipe' = [pipe EXCEPT ![j] = "ended"]
      /\ UNCHANGED <<latched, waiting, file, todo, future, write,
                     late, api, status>>
      /\ Counted
  BY <1>0, DocsWritten, JobWritten
     DEF CancelJobDocs, At, Go, Stored, dispatchVars, JobInv, EndedInv
<1>2. /\ pipe'[j] = "ended" /\ job'[j] \in {job[j], "cancelled"}
      /\ Found(j) \subseteq TasksOf(j)
  BY <1>0, <1>1 DEF JobTypes, Found
<1>3. JobTypes'
  <2>1. job' \in [Jobs -> Protected \cup
                          {"none", "accepted", "in_progress", "deleted"}]
    BY <1>0, <1>1 DEF JobTypes, Protected, Ended
  <2>2. doc' \in [Tasks -> Ended \cup
                           {"none", "accepted", "in_progress", "digitized"}]
    BY <1>0, <1>1 DEF JobTypes, Ended, SetDocs
  <2> QED
    BY <1>0, <1>1, <2>1, <2>2 DEF JobTypes, Counted
<1>4. \A k \in Jobs \ {j} : Spared(k)
  BY <1>0, <1>1, <1>2 DEF Counted, Spared, Undisturbed, JobTypes, TasksOf,
                          SetDocs
<1>5. PipeInv(j)'
  BY <1>0, <1>1, <1>2
     DEF JobInv, PipeInv, HasRow, Digitizes, Ingests, TasksOf, Unstarted,
         Phases
<1>6. FutureInv(j)' /\ FileInv(j)' /\ EndedInv(j)'
  BY <1>0, <1>1, <1>2, JobsAssumption
     DEF JobInv, FutureInv, FileInv, TasksOf, Digitizes, Loop, EndedInv, Ended,
         Terminal
<1>7. DocInv(j)'
  BY <1>0, <1>1, <1>2 DEF JobInv, DocInv, FileInv, TasksOf, Unstarted, Successes,
                          SetDocs
<1>8. CancelInv(j)' /\ ConvertedInv(j)'
  BY <1>0, <1>1, <1>2, JobsAssumption
     DEF Counted, JobInv, CancelInv, ConvertedInv, TasksOf, Loop, Unstarted, Phases,
         Ended, Terminal
<1> QED
  BY <1>3, <1>4, <1>5, <1>6, <1>7, <1>8, SoleMover DEF JobInv
-----------------------------------------------------------------------------
(* digitize                                                                 *)

(* A step of digitize, to the place where: a success is a completed
   conversion, and the job is completed only with its documents while no
   error was swallowed. *)
Digitizing(j, where) ==
  /\ pipe[j] \in {"starting"} \cup Phases /\ Digitizes(j)
  /\ pipe' = [pipe EXCEPT ![j] = where]
  /\ doc' \in [Tasks -> Ended \cup
                        {"none", "accepted", "in_progress", "digitized"}]
  /\ \A t \in Tasks : t \notin TasksOf(j) => doc'[t] = doc[t]
  /\ \A t \in TasksOf(j) : doc'[t] \in Successes => status[t] = "completed"
  /\ write' \in [Jobs -> Ended \cup {"in_progress", None}]
  /\ \A k \in Jobs \ {j} : write'[k] = write[k]
  /\ write'[j] \in Ended => where = "ending"
  /\ slips' = 0 /\ write'[j] = "completed" =>
       \A t \in TasksOf(j) : doc'[t] = "completed" /\ status[t] = "completed"
  /\ Counted
  /\ UNCHANGED <<job, latched, waiting, file, todo, future, late, api, status>>

LEMMA DigitizingKeeps ==
  ASSUME JobsInv, NEW j \in Jobs,
         NEW where \in Phases \cup {"signalling", "ending"},
         Digitizing(j, where)
  PROVE  JobsInv'
<1>0. JobTypes /\ JobInv(j)
  BY DEF JobsInv
<1>1. pipe'[j] = where /\ job[j] \notin Ended /\ ~latched[j]
  BY <1>0 DEF Digitizing, JobTypes, JobInv, EndedInv, PipeInv, Phases
<1>2. JobTypes'
  <2>1. pipe' \in [Jobs -> {"none", "created", "starting", "checking",
                        "polling", "signalling", "phase 1", "later phase 1",
                        "phase 2", "later phase 2", "concluding", "raised",
                        "ending", "ended"}]
    BY <1>0 DEF Digitizing, JobTypes, Phases
  <2> QED
    BY <1>0, <2>1 DEF JobTypes, Digitizing, Counted
<1>3. \A k \in Jobs \ {j} : Spared(k)
  BY <1>0 DEF Digitizing, Counted, Spared, Undisturbed, JobTypes, TasksOf
<1>4. PipeInv(j)'
  BY <1>0, <1>1 DEF Digitizing, JobInv, PipeInv, HasRow, Digitizes, Ingests,
                    TasksOf, Unstarted, Phases
<1>5. FutureInv(j)' /\ FileInv(j)'
  BY <1>0, <1>1 DEF Digitizing, JobInv, FutureInv, FileInv, TasksOf, Digitizes,
                    Loop, Phases
<1>6. DocInv(j)'
  BY <1>0, <1>1 DEF Digitizing, JobInv, FileInv, DocInv, TasksOf, Unstarted,
                    Phases
<1>7. CancelInv(j)'
  BY <1>0, <1>1 DEF Digitizing, JobInv, CancelInv, TasksOf, Unstarted
<1>8. EndedInv(j)'
  BY <1>1 DEF Digitizing, EndedInv
<1>9. ConvertedInv(j)'
  BY <1>1 DEF Digitizing, ConvertedInv, AllConverted, TasksOf, Ingests,
              Digitizes, Phases, Ended
<1> QED
  BY <1>2, <1>3, <1>4, <1>5, <1>6, <1>7, <1>8, <1>9, SoleMover DEF JobInv

(* Whatever goes wrong, the documents of the job fail with it, or stay as
   they were. *)
LEMMA DigitizeFails ==
  ASSUME JobsInv, NEW j \in Jobs, Digitizes(j),
         pipe[j] \in {"starting"} \cup Phases,
         SetDocs(TasksOf(j), "failed") \/ doc' = doc, Counted,
         Report(j, "failed"), Go(j, "ending"),
         UNCHANGED <<job, latched, waiting, file, todo, future, late, api,
                     status>>
  PROVE  JobsInv'
<1>0. JobTypes /\ JobInv(j)
  BY DEF JobsInv
<1>1. pipe' = [pipe EXCEPT ![j] = "ending"]
  BY DEF Go
<1>2. /\ write' \in [Jobs -> Ended \cup {"in_progress", None}]
      /\ \A k \in Jobs \ {j} : write'[k] = write[k]
      /\ write'[j] \in {None, "failed"}
  BY <1>0, Reported DEF Ended
<1>3. /\ doc' \in [Tasks -> Ended \cup
                            {"none", "accepted", "in_progress", "digitized"}]
      /\ \A t \in Tasks : t \notin TasksOf(j) => doc'[t] = doc[t]
      /\ \A t \in TasksOf(j) : doc'[t] \in Successes => status[t] = "completed"
  <2>1. CASE SetDocs(TasksOf(j), "failed")
    BY <1>0, <2>1 DEF SetDocs, JobTypes, Ended, TasksOf, Successes
  <2>2. CASE doc' = doc
    BY <1>0, <2>2 DEF JobTypes, JobInv, FileInv, DocInv
  <2> QED
    BY <2>1, <2>2
<1>4. Digitizing(j, "ending")
  BY <1>1, <1>2, <1>3, JobsAssumption DEF Digitizing, Ended, Terminal
<1> QED
  BY <1>4, DigitizingKeeps

LEMMA FailKeeps ==
  ASSUME JobsInv, NEW j \in Jobs, Digitizes(j), Fail(j),
         pipe[j] \in {"starting"} \cup Phases,
         UNCHANGED <<job, latched, waiting, file, todo, future, late, api,
                     status>>
  PROVE  JobsInv'
<1>1. /\ SetDocs(TasksOf(j), "failed") \/ doc' = doc
      /\ Counted
  BY DocsWritten DEF Fail, JobsInv
<1> QED
  BY <1>1, DigitizeFails DEF Fail

(* A step that only moves on *)
LEMMA DigitizeGoesOn ==
  ASSUME JobsInv, NEW j \in Jobs, Digitizes(j), write[j] = None,
         NEW where \in Phases \cup {"signalling", "ending"},
         pipe[j] \in {"starting"} \cup Phases,
         pipe' = [pipe EXCEPT ![j] = where],
         UNCHANGED <<job, doc, write, latched, waiting, file, todo, future,
                     late, api, bounds, status>>
  PROVE  JobsInv'
<1>0. JobTypes /\ JobInv(j)
  BY DEF JobsInv
<1>1. \A t \in TasksOf(j) : doc[t] \in Successes => status[t] = "completed"
  BY <1>0 DEF JobInv, FileInv, DocInv
<1>2. Digitizing(j, where)
  BY <1>0, <1>1, NothingSwallowed, JobsAssumption DEF Digitizing, JobTypes, Terminal, Ended
<1> QED
  BY <1>2, DigitizingKeeps

LEMMA StartDigitizeKeeps ==
  ASSUME JobsInv, NEW j \in Jobs, StartDigitize(j)
  PROVE  JobsInv'
<1>1. /\ pipe[j] = "starting" /\ write[j] = None /\ Digitizes(j)
      /\ UNCHANGED <<job, latched, waiting, file, todo, future, late, api,
                     status>>
  BY DEF StartDigitize, At, dispatchVars
<1>2. \/ Fail(j)
      \/ \E where \in {"signalling", "phase 1"} :
           /\ pipe' = [pipe EXCEPT ![j] = where]
           /\ UNCHANGED <<doc, write, bounds>>
  BY DEF StartDigitize, Go
<1> QED
  BY <1>1, <1>2, FailKeeps, DigitizeGoesOn DEF Phases

LEMMA PhaseOneKeeps ==
  ASSUME JobsInv, NEW j \in Jobs, NEW t \in TasksOf(j), PhaseOne(j, t)
  PROVE  JobsInv'
<1>0. JobTypes /\ JobInv(j) /\ t \in Tasks
  BY DEF JobsInv, TasksOf
<1>1. /\ pipe[j] \in Phases /\ write[j] = None /\ Digitizes(j)
      /\ UNCHANGED <<job, latched, waiting, file, todo, future, late, api,
                     status>>
  BY <1>0 DEF PhaseOne, PollUntil, At, Again, dispatchVars, JobInv,
              PipeInv, Phases
<1>2. \/ Fail(j)
      \/ \E where \in {"signalling", "later phase 1", "phase 2"} :
           /\ pipe' = [pipe EXCEPT ![j] = where]
           /\ UNCHANGED <<doc, write, bounds>>
      \/ /\ pipe' = [pipe EXCEPT ![j] = "phase 2"]
         /\ WriteDocs({t}, "in_progress") /\ Report(j, "in_progress")
  BY DEF PhaseOne, PollUntil, Go, Again
<1>3. ASSUME pipe' = [pipe EXCEPT ![j] = "phase 2"],
             WriteDocs({t}, "in_progress"), Report(j, "in_progress")
      PROVE  JobsInv'
  <2>1. /\ write' \in [Jobs -> Ended \cup {"in_progress", None}]
        /\ \A k \in Jobs \ {j} : write'[k] = write[k]
        /\ write'[j] \in {None, "in_progress"}
    BY <1>0, <1>3, Reported
  <2>2. /\ doc' \in [Tasks -> Ended \cup
                              {"none", "accepted", "in_progress", "digitized"}]
        /\ \A u \in Tasks : u # t => doc'[u] = doc[u]
        /\ doc'[t] \in {doc[t], "in_progress"}
        /\ Counted
    BY <1>0, <1>3, DocWritten
  <2>3. \A u \in TasksOf(j) : doc[u] \in Successes => status[u] = "completed"
    BY <1>0, <1>1 DEF JobInv, FileInv, DocInv
  <2>4. \A u \in TasksOf(j) : doc'[u] \in Successes => status[u] = "completed"
    BY <2>2, <2>3 DEF Successes, TasksOf
  <2>5. Digitizing(j, "phase 2")
    BY <1>1, <1>3, <2>1, <2>2, <2>4, JobsAssumption
       DEF Digitizing, Terminal, Ended
  <2> QED
    BY <2>5, DigitizingKeeps DEF Phases
<1> QED
  BY <1>1, <1>2, <1>3, FailKeeps, DigitizeGoesOn DEF Phases

(* What is neither failed nor running is completed: the task of a job that
   is not cancelled is not, either, and it is the only one. *)
LEMMA PhaseTwoKeeps ==
  ASSUME JobsInv, NEW j \in Jobs, NEW t \in TasksOf(j), PhaseTwo(j, t)
  PROVE  JobsInv'
<1>0. JobTypes /\ JobInv(j) /\ t \in Tasks /\ JobOf[t] = j
  BY DEF JobsInv, TasksOf
<1>1. /\ pipe[j] \in Phases /\ write[j] = None /\ Digitizes(j)
      /\ UNCHANGED <<job, latched, waiting, file, todo, future, late, api,
                     status>>
  BY <1>0 DEF PhaseTwo, PollUntil, At, Again, dispatchVars, JobInv,
              PipeInv, Phases
<1>2. \/ Fail(j)
      \/ \E where \in {"signalling", "later phase 2"} :
           /\ pipe' = [pipe EXCEPT ![j] = where]
           /\ UNCHANGED <<doc, write, bounds>>
      \/ /\ status[t] \in Terminal /\ status[t] # "failed"
         /\ pipe' = [pipe EXCEPT ![j] = "ending"]
         /\ WriteDocs({t}, "completed") /\ Report(j, "completed")
  BY DEF PhaseTwo, PollUntil, Go, Again
<1>3. ASSUME status[t] \in Terminal, status[t] # "failed",
             pipe' = [pipe EXCEPT ![j] = "ending"],
             WriteDocs({t}, "completed"), Report(j, "completed")
      PROVE  JobsInv'
  <2>1. /\ write' \in [Jobs -> Ended \cup {"in_progress", None}]
        /\ \A k \in Jobs \ {j} : write'[k] = write[k]
        /\ write'[j] \in {None, "completed"}
    BY <1>0, <1>3, Reported DEF Ended
  <2>2. /\ doc' \in [Tasks -> Ended \cup
                              {"none", "accepted", "in_progress", "digitized"}]
        /\ \A u \in Tasks : u # t => doc'[u] = doc[u]
        /\ doc'[t] \in {doc[t], "completed"}
        /\ slips' = 0 => doc'[t] = "completed"
        /\ Counted
    BY <1>0, <1>3, DocWritten DEF Ended
  <2>3. status[t] = "completed"
    BY <1>0, <1>1, <1>3 DEF JobInv, PipeInv, CancelInv, Terminal, Cancelled
  <2>4. TasksOf(j) = {t}
    BY <1>0, <1>1, OneFileToDigitize DEF Digitizes, TasksOf
  <2>5. Digitizing(j, "ending")
    BY <1>1, <1>3, <2>1, <2>2, <2>3, <2>4 DEF Digitizing
  <2> QED
    BY <2>5, DigitizingKeeps
<1> QED
  BY <1>1, <1>2, <1>3, FailKeeps, DigitizeGoesOn DEF Phases

LEMMA DeadlineKeeps ==
  ASSUME JobsInv, NEW j \in Jobs, DeadlineExceeded(j)
  PROVE  JobsInv'
<1>1. /\ pipe[j] \in Phases /\ Digitizes(j) /\ Fail(j)
      /\ UNCHANGED <<job, latched, waiting, file, todo, future, late, api,
                     status>>
  BY DEF DeadlineExceeded, At, Again, dispatchVars, JobsInv, JobInv,
         PipeInv, Phases
<1> QED
  BY <1>1, FailKeeps

LEMMA TaskUnreadKeeps ==
  ASSUME JobsInv, NEW j \in Jobs, TaskUnread(j)
  PROVE  JobsInv'
<1>1. /\ pipe[j] \in {"starting"} \cup Phases
      /\ UNCHANGED <<job, latched, waiting, file, todo, future, late, api,
                     status>>
  BY DEF TaskUnread, At, dispatchVars, Phases
<1>2. Counted
  BY SlipCounts DEF TaskUnread, JobsInv
<1> QED
  BY <1>1, <1>2, DigitizeFails DEF TaskUnread
-----------------------------------------------------------------------------
(* The downstream work, the dispatcher and recovery                         *)

LEMMA FutureEndsKeeps ==
  ASSUME JobsInv, NEW t \in Tasks, FutureEnds(t)
  PROVE  JobsInv'
<1> DEFINE j == JobOf[t]
<1>0. /\ j \in Jobs /\ JobTypes /\ JobInv(j) /\ t \in TasksOf(j)
      /\ file[t] \in TasksOf(j) /\ file[t] \in Tasks
  BY DispatchAssumption DEF JobsInv, TasksOf, JobInv, FileInv
<1>1. /\ future[t] /\ Ingests(j) /\ pipe[j] \in Loop /\ job[j] \notin Ended
      /\ status[t] = "completed" /\ t \notin waiting[j]
      /\ future' = [future EXCEPT ![t] = FALSE]
      /\ UNCHANGED <<job, pipe, latched, waiting, todo, write, api, file,
                     status>>
  BY <1>0 DEF FutureEnds, JobInv, FutureInv, EndedInv, Loop, dispatchVars
<1>2. /\ doc' \in [Tasks -> Ended \cup
                            {"none", "accepted", "in_progress", "digitized"}]
      /\ \A u \in Tasks : u # file[t] => doc'[u] = doc[u]
      /\ doc'[file[t]] \in {"completed", "failed"}
           \/ ((latched[j] \/ slips' # 0) /\ doc'[file[t]] = doc[file[t]])
      /\ late' \subseteq late \cup {t}
      /\ Counted
  <2>1. ASSUME NEW s \in {"completed", "failed"}, WriteDocs({file[t]}, s),
               late' = IF HasRow(j) /\ job[j] \notin Protected
                       THEN late \cup {t} ELSE late
        PROVE  <1>2
    BY <1>0, <2>1, DocWritten DEF Ended
  <2>2. CASE latched[j] /\ UNCHANGED <<doc, late, bounds>>
    BY <1>0, <2>2, NothingSwallowed DEF JobTypes
  <2>3. CASE Slip /\ UNCHANGED <<doc, late>>
    BY <1>0, <2>3, SlipCounts DEF JobTypes
  <2> QED
    BY <2>1, <2>2, <2>3 DEF FutureEnds
<1>3. /\ ~future'[t]
      /\ \A u \in Tasks \ {t} : future'[u] = future[u]
  BY <1>0, <1>1 DEF JobTypes
<1>4. JobTypes'
  <2>1. future' \in [Tasks -> BOOLEAN]
    BY <1>0, <1>1 DEF JobTypes
  <2>2. late' \subseteq Tasks
    BY <1>0, <1>2 DEF JobTypes
  <2> QED
    BY <1>0, <1>1, <1>2, <2>1, <2>2 DEF JobTypes, Counted
<1>5. \A k \in Jobs \ {j} : Spared(k)
  BY <1>0, <1>1, <1>2, <1>3 DEF Counted, Spared, Undisturbed, TasksOf
<1>6. PipeInv(j)'
  BY <1>0, <1>1 DEF JobInv, PipeInv, HasRow, Digitizes, Ingests, TasksOf
<1>7. FutureInv(j)'
  BY <1>0, <1>1, <1>2, <1>3 DEF JobInv, FutureInv, TasksOf, Ingests, Digitizes
<1>8. FileInv(j)' /\ CancelInv(j)' /\ EndedInv(j)'
  BY <1>0, <1>1 DEF JobInv, FileInv, CancelInv, EndedInv, TasksOf, Digitizes
<1>9. DocInv(j)'
  <2>1. pipe'[j] \notin Unstarted
    BY <1>1 DEF Loop, Unstarted
  <2>2. ASSUME NEW u \in TasksOf(j), doc'[file[u]] \in Successes
        PROVE  status[u] = "completed"
    <3>1. CASE u = t
      BY <1>1, <3>1
    <3>2. CASE u # t
      BY <1>0, <1>2, <2>2, <3>2 DEF JobInv, FileInv, DocInv, TasksOf
    <3> QED
      BY <3>1, <3>2
  <2> QED
    BY <1>1, <2>1, <2>2 DEF DocInv, TasksOf
<1>10. ConvertedInv(j)'
  <2>1. /\ ~(write'[j] = "completed" \/ job'[j] = "completed")
        /\ pipe'[j] # "concluding"
    BY <1>0, <1>1 DEF JobInv, EndedInv, Loop, Ended
  <2>2. ASSUME slips' = 0, HasRow(j), ~latched[j], NEW u \in TasksOf(j)
        PROVE  \/ u \in waiting'[j] \/ future'[u]
               \/ doc'[file[u]] \in {"completed", "failed"}
    <3>1. CASE u = t
      BY <1>2, <2>2, <3>1
    <3>2. CASE u # t
      <4>1. file[u] \in Tasks /\ file[u] # file[t] /\ u \in Tasks
        BY <1>0, <3>2 DEF JobInv, FileInv, TasksOf
      <4>2. \/ u \in waiting[j] \/ future[u]
            \/ doc[file[u]] \in {"completed", "failed"}
        BY <1>0, <1>1, <1>2, <2>2 DEF Counted, JobInv, ConvertedInv
      <4> QED
        BY <1>1, <1>2, <1>3, <3>2, <4>1, <4>2
    <3> QED
      BY <3>1, <3>2
  <2> QED
    BY <1>1, <2>1, <2>2 DEF ConvertedInv, HasRow, TasksOf
<1> QED
  BY <1>0, <1>4, <1>5, <1>6, <1>7, <1>8, <1>9, <1>10, SoleMover DEF JobInv

LEMMA FutureReportsKeeps ==
  ASSUME JobsInv, NEW t \in Tasks, FutureReports(t)
  PROVE  JobsInv'
<1> DEFINE j == JobOf[t]
<1>0. j \in Jobs /\ JobTypes /\ JobInv(j) /\ t \in TasksOf(j)
  BY DispatchAssumption DEF JobsInv, TasksOf
<1>1. /\ pipe[j] \in Loop /\ job[j] \notin Ended /\ write[j] \notin Ended
      /\ late' \subseteq late
      /\ job' \in {job, [job EXCEPT ![j] = IF HasRow(j) THEN "in_progress"
                                           ELSE @]}
      /\ UNCHANGED <<doc, pipe, latched, waiting, todo, future, write, api,
                     file, status>>
      /\ Counted
  BY <1>0, JobWritten DEF FutureReports, JobInv, FutureInv, EndedInv, Loop,
                          dispatchVars, Stored
<1>2. job'[j] \in {job[j], IF HasRow(j) THEN "in_progress" ELSE job[j]}
  BY <1>0, <1>1 DEF JobTypes
<1>3. HasRow(j)' = HasRow(j) /\ job'[j] \notin Ended
  BY <1>1, <1>2 DEF HasRow, Ended
<1>4. JobTypes'
  BY <1>0, <1>1 DEF JobTypes, Counted
<1>5. \A k \in Jobs \ {j} : Spared(k)
  BY <1>0, <1>1 DEF Counted, Spared, Undisturbed, TasksOf, JobTypes
<1>6. PipeInv(j)'
  BY <1>0, <1>1, <1>3
     DEF JobInv, PipeInv, HasRow, Digitizes, Ingests, TasksOf, Loop
<1>7. FutureInv(j)' /\ FileInv(j)' /\ DocInv(j)'
  BY <1>0, <1>1 DEF JobInv, FutureInv, FileInv, DocInv, TasksOf, Digitizes,
                    Ingests
<1>8. CancelInv(j)' /\ EndedInv(j)'
  BY <1>0, <1>1, <1>3 DEF JobInv, CancelInv, EndedInv, TasksOf
<1>9. ConvertedInv(j)'
  BY <1>0, <1>1, <1>3 DEF Counted, JobInv, ConvertedInv, TasksOf, Ingests, Digitizes,
                          Loop, Ended
<1> QED
  BY <1>0, <1>4, <1>5, <1>6, <1>7, <1>8, <1>9, SoleMover DEF JobInv

LEMMA DispatcherKeeps ==
  ASSUME DispatchInv, JobsInv, Dispatcher \/ \E t \in Tasks : Convert(t)
  PROVE  JobsInv'
<1>1. UNCHANGED <<job, doc, pipe, latched, waiting, file, todo, future, write,
                  late, api, slips>>
  BY DEF Dispatcher, Convert, jobVars, bounds
<1>2. \A t \in Tasks : Undisturbed(t)
  BY DispatchSparesTasks DEF Dispatcher, Convert
<1>3. \A k \in Jobs : Spared(k)
  BY <1>1, <1>2 DEF Spared, TasksOf
<1>4. JobTypes'
  BY <1>1 DEF JobsInv, JobTypes
<1> QED
  BY <1>3, <1>4, SparedKeeps DEF JobsInv

LEMMA RestartServiceKeeps ==
  ASSUME DispatchInv, JobsInv, RestartService
  PROVE  JobsInv'
<1>0. JobTypes
  BY DEF JobsInv
<1>1. \A t \in Tasks : Undisturbed(t)
  BY DispatchSparesTasks DEF RestartService
<1>2. /\ \A k \in Jobs : job'[k] = Recovered(k)
      /\ \A k \in Jobs : pipe'[k] = IF pipe[k] = "none" THEN "none" ELSE "ended"
      /\ \A k \in Jobs : ~latched'[k] /\ waiting'[k] = {} /\ todo'[k] = {}
      /\ \A k \in Jobs : write'[k] = None
      /\ \A t \in Tasks : ~future'[t] /\ t \notin late'
      /\ api' = None /\ UNCHANGED <<file, slips>>
  BY DEF RestartService, bounds
<1>3. \A t \in Tasks :
        doc'[t] = IF t \in Found(JobOf[t]) /\ job[JobOf[t]] \notin Ended
                       /\ doc[t] \notin Ended
                  THEN Recovered(JobOf[t]) ELSE doc[t]
  BY DEF RestartService
<1>4. \A t \in Tasks : \/ doc'[t] = doc[t]
                       \/ /\ doc'[t] \in {"failed", "cancelled"}
                          /\ job[JobOf[t]] \notin Ended
  BY <1>0, <1>3, DispatchAssumption
     DEF Found, HasRow, Recovered, JobTypes, Protected
<1>5. JobTypes'
  <2>1. job' \in [Jobs -> Protected \cup
                          {"none", "accepted", "in_progress", "deleted"}]
    BY <1>0 DEF RestartService, Recovered, JobTypes, Protected, Ended
  <2>2. doc' \in [Tasks -> Ended \cup
                           {"none", "accepted", "in_progress", "digitized"}]
    <3>1. \A t \in Tasks : doc'[t] \in Ended \cup
                           {"none", "accepted", "in_progress", "digitized"}
      BY <1>0, <1>4 DEF JobTypes, Ended
    <3>2. doc' = [t \in Tasks |-> doc'[t]]
      BY DEF RestartService
    <3> QED
      BY <3>1, <3>2
  <2>3. pipe' \in [Jobs -> {"none", "created", "starting", "checking",
                        "polling", "signalling", "phase 1", "later phase 1",
                        "phase 2", "later phase 2", "concluding", "raised",
                        "ending", "ended"}]
    BY DEF RestartService
  <2> QED
    BY <1>0, <2>1, <2>2, <2>3 DEF JobTypes, RestartService, bounds
<1>6. ASSUME NEW j \in Jobs
      PROVE  JobInv(j)'
  <2>0. JobInv(j)
    BY DEF JobsInv
  <2>1. PipeInv(j)'
    BY <1>2, <2>0, JobsAssumption
       DEF JobInv, PipeInv, Recovered, Unstarted, Phases, Digitizes, Ingests,
           TasksOf
  <2>2. FutureInv(j)' /\ FileInv(j)'
    BY <1>2, <2>0 DEF JobInv, FutureInv, FileInv, TasksOf, Digitizes
  <2>3. \A t \in TasksOf(j) : doc'[t] \in Successes => doc'[t] = doc[t]
    BY <1>4 DEF TasksOf, Successes
  <2>4. DocInv(j)'
    BY <1>1, <1>2, <2>0, <2>3
       DEF JobInv, FileInv, DocInv, Undisturbed, TasksOf, Unstarted
  <2>5. CancelInv(j)'
    BY <1>1, <1>2, <2>0
       DEF JobInv, PipeInv, CancelInv, Undisturbed, TasksOf, Unstarted, Phases,
           Loop
  <2>6. EndedInv(j)'
    BY <1>2, <2>0, JobsAssumption
       DEF JobInv, PipeInv, EndedInv, Recovered, Ended, Terminal
  <2>7. ConvertedInv(j)'
    <3>1. job'[j] = "completed" => job[j] = "completed"
      BY <1>2 DEF Recovered
    <3>2. job[j] = "completed" => \A t \in TasksOf(j) : doc'[t] = doc[t]
      BY <1>4 DEF TasksOf, Ended
    <3> QED
      BY <1>1, <1>2, <2>0, <3>1, <3>2, JobsAssumption
         DEF JobInv, ConvertedInv, AllConverted, Undisturbed, TasksOf, Loop,
             Terminal
  <2> QED
    BY <2>1, <2>2, <2>4, <2>5, <2>6, <2>7 DEF JobInv
<1> QED
  BY <1>5, <1>6 DEF JobsInv
-----------------------------------------------------------------------------
LEMMA JobsInvInit == Init => JobsInv
<1> SUFFICES ASSUME Init
             PROVE  JobsInv
  OBVIOUS
<1>1. /\ \A k \in Jobs : /\ job[k] = "none" /\ pipe[k] = "none" /\ ~latched[k]
                         /\ todo[k] = {} /\ waiting[k] = {} /\ write[k] = None
      /\ \A t \in Tasks : /\ doc[t] = "none" /\ file[t] = t /\ ~future[t]
                          /\ status[t] = "none"
      /\ late = {} /\ api = None /\ slips = 0
  BY DEF Init, DispatchInit
<1>2. JobTypes
  BY DEF Init, JobTypes
<1>3. ASSUME NEW j \in Jobs
      PROVE  JobInv(j)
  <2>1. PipeInv(j) /\ EndedInv(j)
    BY <1>1, JobsAssumption
       DEF PipeInv, EndedInv, Unstarted, Phases, Ended, Terminal
  <2>2. FutureInv(j) /\ FileInv(j) /\ DocInv(j) /\ CancelInv(j)
    BY <1>1 DEF FutureInv, FileInv, DocInv, CancelInv, Successes, Cancelled,
                TasksOf
  <2>3. ConvertedInv(j)
    BY <1>1, JobsAssumption DEF ConvertedInv, Loop, Terminal
  <2> QED
    BY <2>1, <2>2, <2>3 DEF JobInv
<1> QED
  BY <1>2, <1>3 DEF JobsInv

LEMMA JobsInvStep ==
  ASSUME DispatchInv, JobsInv, [Next]_vars
  PROVE  JobsInv'
<1>1. ASSUME NEW j \in Jobs, Pipeline(j)
      PROVE  JobsInv'
  <2>1. ASSUME NEW t \in TasksOf(j),
               Look(j, t) \/ DeadlinePasses(j, t) \/ ReadFails(j, t)
        PROVE  JobsInv'
    BY <2>1, LookIsSeen, SeenKeeps
  <2> QED
    BY <1>1, <2>1, FinishReportKeeps, StartIngestKeeps, IngestRaisesKeeps,
       CheckOneKeeps, PollCycleKeeps, SignalKeeps, ConcludeKeeps,
       StartDigitizeKeeps, EndPipelineKeeps, CancelJobDocsKeeps, DeadlineKeeps,
       PhaseOneKeeps, PhaseTwoKeeps, TaskUnreadKeeps
       DEF Pipeline
<1>2. ASSUME NEW j \in Jobs,
             \/ CreateJob(j) \/ InitializeJobState(j) \/ Launch(j)
             \/ CancelJob(j) \/ RequestJobCancellation(j) \/ DeleteJob(j)
      PROVE  JobsInv'
  BY <1>2, CreateJobKeeps, InitializeKeeps, LaunchKeeps, CancelJobKeeps,
     RequestsKeep
<1>3. CASE UNCHANGED vars
  <2>1. UNCHANGED <<job, doc, pipe, latched, waiting, file, todo, future,
                    write, late, api, slips, status>>
    BY <1>3 DEF vars, jobVars, bounds, dispatchVars
  <2>2. \A k \in Jobs : Spared(k)
    BY <2>1 DEF Spared, Undisturbed, TasksOf
  <2>3. JobTypes'
    BY <2>1 DEF JobsInv, JobTypes
  <2> QED
    BY <2>2, <2>3, SparedKeeps DEF JobsInv
<1> QED
  BY <1>1, <1>2, <1>3, FutureEndsKeeps, FutureReportsKeeps, DispatcherKeeps,
     RestartServiceKeeps
     DEF Next

(* Jobs, documents, pipelines and tasks are always related as JobsInv says, *)
(* across cancellations, swallowed errors, lost writes and restarts.        *)
THEOREM JobsInvariance == Spec => [](DispatchInv /\ JobsInv)
<1>1. Init => DispatchInv /\ JobsInv
  BY DispatchInvInit, JobsInvInit DEF Init
<1>2. DispatchInv /\ JobsInv /\ [Next]_vars => (DispatchInv /\ JobsInv)'
  BY StepRefinement, DispatchInvStep, JobsInvStep
<1> QED
  BY <1>1, <1>2, PTL DEF Spec

(* A document counts as digitized or completed only by a conversion that is
   completed and stays so, also where digitize takes for completed what is
   not failed (pipeline/digitize.py) and whatever the order in which the
   tasks are zipped with the staged files. *)
THEOREM DocsFollowTheirTasks == Spec => []DocsFollowTasks
<1>1. JobsInv => DocsFollowTasks
  <2> SUFFICES ASSUME JobsInv, NEW t \in Tasks,
                      doc[file[t]] \in {"digitized", "completed"}
               PROVE  status[t] = "completed"
    BY DEF DocsFollowTasks
  <2>1. JobOf[t] \in Jobs /\ t \in TasksOf(JobOf[t])
    BY DispatchAssumption DEF TasksOf
  <2> QED
    BY <2>1 DEF JobsInv, JobInv, DocInv, Successes
<1> QED
  BY <1>1, JobsInvariance, PTL

(* "All documents completed successfully": as long as no error of the
   database was swallowed and no failure only logged, the job of a document
   that is not completed, or of a task that was not converted, is not
   completed either. *)
THEOREM CompletedIsConverted == Spec => []CompletedMeansConverted
<1>1. JobsInv => CompletedMeansConverted
  BY DEF JobsInv, JobInv, ConvertedInv, AllConverted, CompletedMeansConverted
<1> QED
  BY <1>1, JobsInvariance, PTL

(* No step takes the status of a job that ended for another, other than a
   cancel request that had read it before, and the deletion of the job: the
   reports of pipelines and futures, read in one transaction and written in
   another, have nothing left to write by then. *)
LEMMA EndedStays ==
  ASSUME JobsInv, [Next]_vars, NEW j \in Jobs, job[j] \in Ended
  PROVE  job'[j] \in {job[j], "deleted", "cancel_pending"}
<1>0. JobTypes /\ JobInv(j)
  BY DEF JobsInv
<1>1. /\ write[j] = None /\ pipe[j] \in {"ending", "ended"} /\ HasRow(j)
      /\ \A t \in TasksOf(j) : t \notin late
  BY <1>0 DEF JobInv, EndedInv, FutureInv, Loop, HasRow, Ended
<1>2. ASSUME NEW k \in Jobs,
             InitializeJobState(k) \/ FinishReport(k) \/ CancelJobDocs(k)
      PROVE  job'[j] = job[j]
  <2>1. k # j /\ (job' = job \/ \E s : job' = [job EXCEPT ![k] = s])
    BY <1>0, <1>1, <1>2, JobWritten
       DEF InitializeJobState, FinishReport, CancelJobDocs, At, Stored
  <2> QED
    BY <1>0, <2>1 DEF JobTypes
<1>3. ASSUME NEW k \in Jobs, RequestJobCancellation(k) \/ DeleteJob(k)
      PROVE  job'[j] \in {job[j], "deleted", "cancel_pending"}
  <2>1. \/ job' = job
        \/ \E s \in {"cancel_pending", "deleted"} : job' = [job EXCEPT ![k] = s]
        \/ job' = [job EXCEPT ![k] = IF HasRow(k) THEN "cancel_pending" ELSE @]
    BY <1>0, <1>3, JobWritten DEF RequestJobCancellation, DeleteJob, Stored
  <2> QED
    BY <1>0, <2>1 DEF JobTypes
<1>4. ASSUME NEW t \in Tasks, FutureReports(t)
      PROVE  job'[j] = job[j]
  <2>1. JobOf[t] # j /\ JobOf[t] \in Jobs
    BY <1>1, <1>4, DispatchAssumption DEF FutureReports, TasksOf
  <2> QED
    BY <1>0, <1>4, <2>1, JobWritten DEF FutureReports, Stored, JobTypes
<1>5. CASE RestartService
  BY <1>5 DEF RestartService, Recovered, Ended
<1>6. ASSUME NEW k \in Jobs,
             \/ CreateJob(k) \/ Launch(k) \/ CancelJob(k) \/ StartIngest(k)
             \/ IngestRaises(k) \/ CheckOne(k) \/ PollCycle(k) \/ Signal(k)
             \/ Conclude(k) \/ StartDigitize(k) \/ EndPipeline(k)
             \/ DeadlineExceeded(k) \/ TaskUnread(k)
      PROVE  job' = job
  BY <1>6 DEF CreateJob, Launch, CancelJob, StartIngest, IngestRaises, CheckOne,
              PollCycle, Signal, Conclude, StartDigitize, EndPipeline,
              DeadlineExceeded, TaskUnread, jobVars
<1>7. ASSUME NEW k \in Jobs, NEW t \in TasksOf(k),
             \/ Look(k, t) \/ DeadlinePasses(k, t) \/ ReadFails(k, t)
             \/ PhaseOne(k, t) \/ PhaseTwo(k, t)
      PROVE  job' = job
  BY <1>7 DEF Look, DeadlinePasses, ReadFails, PhaseOne, PhaseTwo, PollUntil
<1>8. CASE \/ Dispatcher \/ UNCHANGED vars
           \/ \E t \in Tasks : FutureEnds(t) \/ Convert(t)
  BY <1>8 DEF Dispatcher, vars, jobVars, FutureEnds, Convert
<1> QED
  BY <1>2, <1>3, <1>4, <1>5, <1>6, <1>7, <1>8 DEF Next, Pipeline

(* A job that ended is not revived by a late report of a future or of its
   pipeline (utils/db.py reads the row and writes it in two steps); only a
   racing cancel request or a deletion may still touch it. *)
THEOREM EndedJobIsNotRevived == Spec => EndedJobStaysEnded
<1>1. DispatchInv /\ JobsInv /\ [Next]_vars =>
        [\A j \in Jobs : job[j] \in Ended =>
           job'[j] \in {job[j], "deleted", "cancel_pending"}]_job
  BY EndedStays
<1> QED
  BY <1>1, JobsInvariance, PTL DEF Spec, EndedJobStaysEnded
-----------------------------------------------------------------------------
(* Types: those of the queue, those JobsInv has, and the two bounds.        *)

BoundsTyped == cancels \in 0..MaxCancels /\ slips \in 0..MaxSlips

(* Only cancel requests and slips count.                                    *)
LEMMA BoundsStep ==
  ASSUME BoundsTyped, [Next]_vars
  PROVE  BoundsTyped'
<1>1. ASSUME NEW j \in Jobs, CancelJob(j)
      PROVE  BoundsTyped'
  <2>1. cancels < MaxCancels /\ cancels' = cancels + 1 /\ slips' = slips
    BY <1>1 DEF CancelJob
  <2> QED
    BY <2>1, JobsAssumption DEF BoundsTyped
<1>2. ASSUME Slip \/ UNCHANGED bounds
      PROVE  BoundsTyped'
  BY <1>2, JobsAssumption DEF Slip, BoundsTyped, bounds
<1>3. /\ \A S, s : WriteDocs(S, s) => Slip \/ UNCHANGED bounds
      /\ \A j, s : WriteJob(j, s) => Slip \/ UNCHANGED bounds
  BY DEF WriteDocs, WriteJob
<1>4. ASSUME NEW j \in Jobs,
             \/ CreateJob(j) \/ InitializeJobState(j) \/ Launch(j)
             \/ RequestJobCancellation(j) \/ DeleteJob(j) \/ FinishReport(j)
             \/ StartIngest(j) \/ IngestRaises(j) \/ CheckOne(j)
             \/ PollCycle(j) \/ Signal(j) \/ Conclude(j) \/ StartDigitize(j)
             \/ EndPipeline(j) \/ CancelJobDocs(j) \/ DeadlineExceeded(j)
             \/ TaskUnread(j)
      PROVE  Slip \/ UNCHANGED bounds
  BY <1>3, <1>4 DEF CreateJob, InitializeJobState, Launch, RequestJobCancellation,
              DeleteJob, FinishReport, StartIngest, IngestRaises, CheckOne,
              PollCycle, Signal, Conclude, StartDigitize, EndPipeline,
              CancelJobDocs, DeadlineExceeded, TaskUnread, Fail, jobVars
<1>5. ASSUME NEW j \in Jobs, NEW t \in TasksOf(j),
             \/ Look(j, t) \/ DeadlinePasses(j, t) \/ ReadFails(j, t)
             \/ PhaseOne(j, t) \/ PhaseTwo(j, t)
      PROVE  Slip \/ UNCHANGED bounds
  BY <1>3, <1>5 DEF Look, React, DeadlinePasses, ReadFails, PhaseOne, PhaseTwo,
                    PollUntil, Fail
<1>6. ASSUME NEW t \in Tasks, FutureEnds(t) \/ FutureReports(t) \/ Convert(t)
      PROVE  Slip \/ UNCHANGED bounds
  BY <1>3, <1>6 DEF FutureEnds, FutureReports, Convert, jobVars
<1>7. CASE Dispatcher \/ RestartService \/ UNCHANGED vars
  BY <1>2, <1>7 DEF Dispatcher, RestartService, vars, jobVars
<1> QED
  BY <1>1, <1>2, <1>4, <1>5, <1>6, <1>7 DEF Next, Pipeline

(* Every variable of the service keeps its type, across cancellations,
   swallowed errors, lost writes and restarts. *)
THEOREM JobsTyped == Spec => []JobTypeOK
<1>1. Init => BoundsTyped
  BY JobsAssumption DEF Init, BoundsTyped
<1>2. BoundsTyped /\ [Next]_vars => BoundsTyped'
  BY BoundsStep
<1>3. TypeOK /\ JobsInv /\ BoundsTyped => JobTypeOK
  BY DEF JobsInv, JobTypes, BoundsTyped, JobTypeOK
<1> QED
  BY <1>1, <1>2, <1>3, QueueRefinement, DispatchTyped, JobsInvariance,
     PTL DEF Spec, ImplementsDispatch

(* Under the jobs, too, Docling begins at most once on a task, and only
   when the task fits: nothing a pipeline or recovery does requeues one. *)
THEOREM SlotsUnderJobs == Spec => ImplementsSlots
  BY QueueRefinement, SlotRefinement, PTL DEF ImplementsDispatch
=============================================================================
