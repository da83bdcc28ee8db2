# A TLA+ verification of project-ai-services

Specifications, model-checking configurations and machine-checked proofs for
the parts of this repository that keep state and run concurrently. Paths below
are relative to the repository's root, except that `worker/` and `catalog/`
stand for `ai-services/internal/pkg/worker/` and
`ai-services/internal/pkg/catalog/`, and Python files are those of `services/digitize/`.

Run a configuration with `tlc -config X.cfg MCModule.tla`, a proof with
`tlapm Module.tla`. `PROJECT.json` lists runs, the properties each one checks,
the source lines each definition stands for, the hazards of the code and the
theorems.

## 1. The system

A Go program is at the same time a CLI, a *catalog API server* (the control
plane) and a *worker daemon*. The API server keeps its records in PostgreSQL,
deploys applications (AI services made of pods or Helm charts) on its own host
or on remote workers, and watches over them. Workers connect to the control
plane over one gRPC stream each. The deployed services themselves are Python
microservices. An MCP server and three web interfaces sit in front.

### Inventory

| Component | State | Operations | What is hard |
|---|---|---|---|
| Worker registry and gateway (`worker/registry`, `worker/gateway`, `catalog/db/repository/worker_repo.go`, `handlers/worker_handler.go`) | map of connected workers, their entries and command channels; `workers` table; bootstrap tokens; client certificates | Register and CommandStream RPCs, Restore, Disconnect, heartbeat, Preregister, Deregister, SweepStale, restart | handlers act on what they read under an earlier lock or in an earlier query; two streams of one worker; channels closed by one handler and used by others |
| Command routing (`worker/stream/sender.go`, gateway's forwarding loop, `DeliverResult`) | command channel of an entry, map of waiting calls, messages on the wire | Send with timeout and CANCEL, forward, deliver | the entry a Sender holds may be replaced or closed; several streams read one channel; a late answer meets a timeout |
| Worker daemon (`worker/join`, `worker/dispatch`) | stream, `sendCh`, goroutines, cancel functions and tombstones of commands | open, receive, dispatch, cancel, send, drain, back off, retry | CANCEL overtakes its command; closing a channel others send on; draining goroutines that wait for the drainer |
| Gateway PKI, deploy, uninstall, payloads (`worker/gateway/pki.go`, `worker/deploy`, `worker/payload`) | files | generate, sign, install | sequential |
| Application lifecycle (`catalog/apiserver/repository/application_service`, `services/deployment`, `services/deletion`) | `applications`, `services`, `components` rows; pods; the registry of running deployments | create, deploy in a goroutine, cancel, delete in a goroutine | deployment, deletion and sync write the same status columns without conditions; cancellation is asynchronous; restarts |
| Sync service (`services/sync`) | the same rows and pods | every 30 s: compare pods and rows | writes from a snapshot |
| Datasources and connector sync (Go) (`catalog/apiserver/repository/datasource_service`, `catalog/client`, `connector_repo.go`, `service_dependency_repo.go`, `services/connector_sync`) | `connectors` rows with credentials and status, `service_dependencies`; copies of the credentials in the pods of digitize | create, update and propagate, connect, disconnect, delete; the sync job | requests without a lock over rows and remote copies; calls that fail halfway; a guard in one transaction, the insert it guards against in another |
| Bundles, authentication | rows, files, a token blacklist | upload, activate, revoke | partial failure between files and rows |
| Digitize: conversion (`services/digitize/workers`) | task table, weighted semaphore, turn | claim, convert, cancel, promote, recover | checks and writes in separate statements; fairness of lanes; capacity |
| Digitize: jobs and connectors (`services/digitize/db`, `pipeline`, `connectors`, `utils/recovery.py`) | job, document, checksum and sync-log rows, vector index | ingest, cancel, delete, sync tick, recovery | interrupts at phase boundaries only; crash between index and row |
| Translate, summarize, extract | job rows, semaphores | admit, run, cancel, recover zombies | admission, zombie recovery |
| Chatbot, similarity, MCP server, UIs, CLI commands, runtimes, proxy, parsing | none that outlives a request | | |

### How they interact

* An HTTP request on a worker (create, delete) and the worker's own RPCs meet
  in the registry: its lock orders single steps, never whole handlers.
* A deployment on a worker is a sequence of remote runtime calls, each of them
  one `Sender.Send`: command into the entry's channel, over the stream, into the
  daemon's Dispatcher, result back over the stream into the waiting call.
* The daemon's stream ends in a drain, after which the next stream opens; the
  gateway notices the end separately and calls Disconnect.
* A datasource's credentials are a row of the catalog and one connector in each linked digitize
  pod, which the API server writes over HTTP; the pods tear connectors down on their own.
* Application deployment, deletion and sync share rows and pods and tell each
  other things through a status column and a context that can be cancelled.

### What makes each component correct

* Registry: the map is a table of connections (attached once, to a free name;
  closed once and only when nobody can look the connection up); a bootstrap token
  registers once; the database says ready only of workers that registered, and
  ceases to say it of workers that are gone.
* Routing: a command runs at most once, a call returns its own result, a call
  that was handed over returns.
* Daemon: no CANCEL is lost, nobody sends on a closed channel, contexts do not
  leak, every command is answered, a broken stream is left.
* Application lifecycle and sync: an undisturbed deletion leaves neither pods nor rows;
  Running is said of complete deployments; a cancelled deployment does not bring its status
  back; work in progress ends; a broken service is noticed.
* Datasources: links tell which pods have a datasource, linked pods have the stored credentials,
  an update is lost to an overlapping one only, the status comes to tell whether the source accepts them.
* Conversion: capacity is never exceeded, the rows tell which conversions are
  under way, an outcome that was written stays, no lane starves.
* Digitize jobs: documents and jobs say no more than their conversions did, a
  job that ended is not revived, a pipeline ends.
* Connectors: one sync at a time, a shared document outlives the owner that lets
  it go, a deletion is never taken back, syncs and teardowns end.

## 2. The modules

| Module | What it is |
|---|---|
| `WorkerRegistry` | the registry, tokens, rows and all handlers that touch them |
| `ConnectionTable` | abstract specification of the registry's map |
| `WorkerRegistryClaims` | what a comment says of the registry where the code does otherwise |
| `CommandRouting` | Senders, channels, streams and the worker's answers |
| `RemoteCall` | abstract specification of `Sender.Send` |
| `WorkerStream` | the daemon's stream loop and Dispatcher |
| `ApplicationLifecycle` | creation, deployment on Podman, deletion and sync of one application |
| `ConversionDispatch` | digitize: the conversion queue, its dispatcher, the semaphore and the conversions |
| `ConversionSlots` | abstract specification of the queue: each task is converted at most once, and only when it fits |
| `DigitizeJobs` | digitize: job API, pipelines, status manager and recovery, on top of `ConversionDispatch` |
| `ConnectorSync` | digitize: sync ticks, stop and deletion of connectors, shared documents |
| `Datasources` | one datasource of the catalog, its links, the pods' copies of its credentials, and the sync job |
| `WorkerRegistryProofs`, `CommandRoutingProofs`, `WorkerStreamProofs`, `ApplicationLifecycleProofs`, `ConversionDispatchProofs`, `DigitizeJobsProofs`, `ConnectorSyncProofs`, `DatasourcesProofs` | the theorems about each component and their proofs |
| `MC*` | instances for TLC: symmetry sets |

`CommandRouting` takes the registry in its abstract form: its `slot` and `life`
are the variables of `ConnectionTable`, and the actions `Attached`, `Evicted`, `Deregistered`
and `Closed` are steps of that specification. Since `WorkerRegistry` implements
`ConnectionTable` (checked and proved), whatever the registry's handlers do to
an entry is a case of what `CommandRouting` allows. `WorkerStream` and
`CommandRouting` meet at the stream: each models the other's end as an
environment that sends, answers late, or breaks.

### WorkerRegistry

Each handler (HTTP request, Register RPC, CommandStream RPC, sweeper) is a process
with a program counter. One action is the code between two synchronisation
points, which are the registry's lock and the database calls; what a handler
remembers between two actions is in its record (`row` is the row it read, `entry`
the pointer it holds). So `Registry.Restore` is `RestoreLookup` (GetByName and the
status check), `RestoreInsert` (insert under the lock, or take the entry found
there) and `RestoreReady` (the unconditional UPDATE); `Registry.Deregister` is
`DeregisterCheck`, `DeregisterRemove`, `DeregisterClose`, `DeregisterDelete`.
Heartbeats are reduced to fresh or stale; `Age` makes a row stale only when no
open stream beats for it. A database call may fail (`faults`), the control plane may
restart (`restarts`): memory and handlers go, rows and certificates stay.
`entry[e].token` is a history field, written once, that no guard reads.

### CommandRouting

A call is the goroutine in `Sender.Send`: look up (twice, as in the code),
enqueue, await, time out, send CANCEL. `Returned` are the ways Send returns; `panic` is not one. `queue` is the command channel of each entry,
`results` its map of waiting calls, `box` the call's result channel of one place.
A stream has the entry it opened with, which may differ from the one the name
has now; `Delivers` looks the name up again, as `DeliverResult` does. A send on a
closed channel is the outcome `panic`. `leaving` has the entries that Deregister removed and
whose channel it is about to close.

### WorkerStream

`loop` is the program counter of `runStreamLoop`/`recvLoop`; `task[m]` is the goroutine of
message `m`; `inflight`, `cancelled` and `live` are the Dispatcher's map, its
tombstones and the contexts that are not cancelled. `sendCh` has `SendBuf` places.
`Waited` and `Flushed` are the two halves of `drain`: wait for the goroutines and close the
channel; then wait for the sender.

### ApplicationLifecycle

`app` and `item` are the status columns, `pod` what podman on the worker has. `dep` is the
program counter from `InsertDeploymentRecords` to the deferred `Deregister`, `work[i]` that of
item `i`'s goroutine in `RunConcurrently`, `ctx` the context in the `DeploymentRegistry`. A
DELETE request and its goroutine are `del[d]`: `LoadForDeletion`, `CancelDeployment`,
`MarkDeleting`, `IdentifyOrphans`, then per item `ListPods`, `RemovePods`, `DropRow`, and
`FinishDeletion`. `sync` is one cycle with its snapshot; services are judged by the snapshot,
components by their row, as in the code. Every call on the worker and the database may fail
where the code has an error path; database failures and restarts count as mishaps and are
bounded. Remote calls behave as `RemoteCall` promises: they end, with a result or an error, and
a command that was sent may still take effect after its caller has left.

Both DELETE and the sync read an application by a query that joins its services, so neither finds
one whose services are all gone (`Found`). An item is a component or service with all its pods. The sync looks at an item and writes it in
one step: a change in between would be seen by the next cycle. What is left of a finished
goroutine (`work`, a request's sets) is reset, to keep states few. `overlap` and `failed` record
that a deletion met a running deployment or an error; no guard reads them. In `InsertFails` the
row that refers to an application deleted since needs a second service to happen: the runs have
one, the theorems any number.

### ConversionDispatch and DigitizeJobs

The dispatcher, the conversions and the request handlers are coroutines of one event loop: they
run from one await to the next, and `EventLoopFree` is the guard of a step that starts after an
await. The pipelines are threads and take their steps at any time, so a cancellation falls
between the peek and the claim, between a check for `cancel_pending` and the write that follows
it, and between the select and the update of a promotion. `status` is the column of
`conversion_tasks`; `queuedAt[t]` is its `queued_at` as a rank among the tasks that wait, since the
queries do nothing with it but `ORDER BY`: the rows of one insert have equal times and PostgreSQL
may return them in any order. `Stamp` is a new `queued_at` and keeps the ranks dense. `Peek` is the
tick up to `peek_head`, `Claim` is `claim_head`, `Acquire` the semaphore's wait, `Select` and
`Update` are `promote_pending`; `conv[t]` is the program counter of `_run_conversion`. `room`
is what a job read at the gate and uses later.

`ConversionSlots` is what all this is for: a task waits, is converted, is over, and conversions
fit side by side. `Phase` reads these from `conv`, `status`, the task that waits in `acquire`, and
the candidates of a promotion, which the update by task id alone may bring back.

In `ConversionDispatch` jobs are an open environment: whoever was admitted may enqueue once and
cancel at any time. `DigitizeJobs` puts the API handlers and the pipelines in its place and
`ImplementsDispatch` says that they keep within it, so that what `dispatch` checks holds
under them. `pipe[j]` is the program counter of `ingest` or `digitize`; `latched`,
`waiting`, `todo` and `future` are locals of `process_documents`; the downstream stages of a
document are one `future`. `write[j]` and `late` are `_update_job` between its read and its
write, by the pipeline and by a future's callback. `file` is the pairing of tasks with staged
files, any bijection (see below). `slips` counts what nobody hears of: errors of the database that
`db_manager` answers with None, an empty list, False or 0, and exceptions of the merge, of the
submission of the indexing and of its future, which `process_documents` only logs. (A cancellation
that `is_job_cancelled` fails to see is one that comes later, and needs no step of its own.)

### ConnectorSync

A tick is named by connector and seq; `at` is its program counter, one action is the code
between two awaits, or one statement where the code runs in a thread (`Disown`, `CountOwners`,
`EraseVictim`, `Sweep`: the cleanup). `owned` is the table of checksums, `doc` the documents,
one for each tick and content. A job is `running`, `cancel_pending`, `over` or `stuck`, that is,
marked for cancellation after its pipeline ended. Teardowns run in the event loop without an
await in their cleanup, so `Teardown` is one step. A statement may meet a database error
(`Mishap`): where `db_manager` answers it with an empty list or with "no row" (the listings of
checksums, `find_connector_doc_by_checksum`, the job's statistics, the documents that are not
registered, the first update of a finalization) the code goes on with that, and so does the model; elsewhere it raises, is
counted among the errors of the cleanup, or fails the batch. `raced`, `outlived` and `unread` are
history: no guard reads them.

### Datasources

One datasource and the services of one application. A request is a process: `pc[r]` where it is,
`held[r]` the credentials it read or merged, `todo[r]` the services it has yet to deal with,
`at[r]` the one between its call and what follows it. `UpdateLoad` reads, merges and tests;
`Persist` is the UPDATE; `Query` asks for the links; `Put` and `PutFails` are the two attempts on
each service. `Post` and `Record` are a connect's call and its insert of the link; `Detach` and
`Remove` those of a disconnect; `Guard` and `Commit` the transaction of a delete. A statement that
writes the row makes such a transaction fail (`RowWritten`), as serializable isolation does; a
statement elsewhere, outside of a serializable transaction, does not. `JobTest` and `JobWrite`
are one connector's turn of the sync job.

Credentials are the set of updates they contain, each of a field of its own: what two updates of
one field do is a case of what two updates of all fields do, and sets show which one a merge has
lost. `required` is what the source insists on by now. A PUT carries all updatable fields of the
merged credentials, so it replaces the pod's. A lost call has taken effect by the time it fails,
or never does; one that takes effect later is not modelled. `unsure` and `stale` are history.
`unsure` has the services on which a call or a write failed (the writes of links are only logged),
those a restart kept a request from, and those where a connect met a disconnect or a delete, or
took a conflict with a connector that was being deleted for a success; `stale` those that were served
last with credentials older than the row's. So a linked pod may lack the credentials of the row
without anybody having been told: a disconnect has a service before it, a connect's POST gets a 409
and counts it as success, DELETE and the removal of the link follow, the link is recorded, and the
pod drops its copy. `kept` is history, too: the updates that wrote while no other update was about to. No guard
reads them.

## 3. The runs

| Run | Shows | Bounds |
|---|---|---|
| `registry` | tokens are single use; a channel is closed once and out of reach; a row leaves pending only for a worker that registered; the map implements `ConnectionTable`; types | 1 worker, 2 streams, 2 Register RPCs, 1 HTTP request at a time, 2 entries, 2 tokens, 1 row |
| `registry_gone` | a worker that is gone leaves ready | fair, 1 token, 1 failed database call, 1 restart, applications on the row |
| `routing` | `CommandRouting` implements `RemoteCall`; a call that was handed over returns, unless it panics on a channel closed meanwhile | fair, 2 calls, 2 entries, 2 streams, 1 break, eviction or deletion, channel of 1 |
| `stream` | no CANCEL lost, no send on a closed channel; commands are answered; the drain ends unless the channel is full behind a failed sender | fair, 2 commands and their CANCELs, channel of 1, 1 heartbeat, 2 breaks |
| `lifecycle` | a deletion that met no error and no deployment leaves nothing; Running means deployed | 1 component, 1 service, 2 DELETEs, no mishap |
| `lifecycle_live` | the status moves in order, also when a write is lost; work in progress ends; an application does not stay Running over a broken service | fair, 1 DELETE, 1 mishap |
| `dispatch` | conversions stay within the semaphore; rows and conversions agree; outcomes are final; the queue implements `ConversionSlots`; no lane starves | fair, a user lane with 2 files and a quota of 1, a connector with a normal and a heavy file, capacity 2, 1 lost write or restart |
| `jobs` | completed means converted until an error is swallowed or only logged; an ended job stays ended; types | an ingestion and a digitization of 1 file, 1 cancellation, 1 such error, 1 lost write or restart |
| `jobs_live` | the pipeline of an ingestion ends; documents follow their tasks whatever the pairing; `DigitizeJobs` implements `ConversionDispatch` | fair, 1 ingestion of 2 files, quota 1, 1 cancellation, 1 lost write or restart, no swallowed error |
| `datasources` | links and pods agree and linked pods have the row's credentials, but for services in `unsure` and, as to the credentials, `stale`; a field an update wrote stays unless another update overlapped it; the status settles | fair sync job, 1 service, 2 updates, 2 connects, 1 disconnect, 1 delete, 2 requests at a time, 1 credential replaced at the source, 1 mishap |
| `connectors` | one tick at a time; shared documents stay (`raced` excepted); what is gone owns nothing (`outlived`, `unread` excepted); deletions are final; syncs and teardowns end | fair, 2 connectors with 1 content, 1 and 2 syncs, 1 vanished file, 1 DELETE, 1 restart, failed deletion or database error; 362,000 states |
| `claim_deregister` | expects a violation: a sentence of a comment that the code does not keep (below) | as small as the counterexample allows |

The bounds are the smallest at which the races happen: each needs two handlers on
one name, and an object (entry, row, token) that may be taken for an older one, hence two
of them. Workers do not interact except through names, rows and tokens, so one name is
enough for races; the theorems cover any number of everything.
One component and one service are what makes the order of the two phases, and the rule that a
component goes with its last service, matter; two DELETEs are what one may overtake.
Entries, rows and tokens are never reused and run out, which bounds the state space;
`MaxRestarts`, `MaxDBFaults`, `MaxFaults`, `MaxBeats`, `MaxBreaks`, `MaxMishaps`, `MaxCancels`,
`MaxSlips`, `MaxSyncs`, `MaxChanges`, `MaxDeletes`, `MaxInFlight` bound the environment. In `dispatch` the heavy
file needs the whole capacity, so that it blocks its turn behind any other conversion and is
overtaken in between, and a quota of one makes rows wait for promotion. In `jobs_live` the two
files share a quota of one, too. Two connectors suffice for sharing: one lets the document go
while the other one classifies, registers or keeps it; the second sync of one of them meets the
orphan, the stop, the restart and the deletion. In `registry` two HTTP requests do not race with each
other; the theorems below, which hold for any number of them, cover that. In `datasources` the
services are independent but for the requests that visit them, so one shows every order of calls; two
requests at a time is what an order needs, and the requests that came before have left their traces in
rows and pods; the theorems have neither bound. Channels in the code hold more than one message; one place makes them full
soonest. `CHECK_DEADLOCK FALSE` is used where the system may come to rest: all calls have
returned, the daemon has stopped, the application is gone, or requests have run out.

### Disagreements between code and text

`claim_deregister` checks one sentence of a comment and finds the behaviour that contradicts it:
after an old stream's end evicted the entry of the new one, deleting the worker does not end the
new stream. `PROJECT.json` ("findings") quotes it.

More behaviours of the models contradict a text. No run of its own checks these sentences; the
property that comes nearest excepts what the code does:

* `sendCancel`, whose errors are said to be ignored (`sender.go:127-128`), sends at `:151-152` on a
  channel that Deregister (`registry.go:411`) may have closed since the lookup, and panics; so does
  Send itself (outcome `panic` of `CommandRouting`). `AwaitingCallReturns` excepts that outcome, and
  only on a closed channel.
* "All documents completed successfully" (`pipeline/ingest.py:281`) is concluded from no document
  having failed. An exception of the merge, of the submission or of the indexing is only logged
  (`processing/orchestrator.py:897-901`, `:937-940`), `update_document` and the reads of tasks swallow
  database errors (`db/manager.py:624-629`, `:2000`): the job is then completed with documents
  that are not (`CompletedMeansConverted` holds up to the first such error).
* A deletion's teardown that cannot list its checksums because of a database error gets an empty list
  (`db/manager.py:1112-1114`), cleans nothing up, records no error and deletes the connector; its
  rows in `connector_document_checksum`, which has no foreign key (`db/models.py:265`), stay and count
  as an owner for ever (`GoneOwnsNothing` excepts it through `unread`).
* Deleting is overwritten by a deployment that registered too late to be cancelled, or by a sync
  cycle's snapshot, and a second DELETE starts beside the first where the proposal says 409.
  `StatusMoves` and `CleanDeletion` say what holds all the same.
* With `doc_worker_size` 1, which `settings.py` accepts, a heavy file (weight 2) never fits, keeps its
  turn for ever and stops every lane. `NoLaneStarves` is checked, and `HeadsFit` proved, for two
  units and more.
* A teardown finds no active job while the connector's tick is before its job or between two,
  and deletes the row; the tick reads the missing row as "no interrupt" and ingests for a
  connector that is gone (`GoneOwnsNothing` excepts it through `outlived`).
* The check for links and the delete of a datasource are one serializable transaction, but a link
  is inserted outside of any, and so comes between them (`LinksAgree` excepts such links).
* `Update` of a connector is announced as partial (`connector_repo.go:74`) and replaces the whole
  metadata (`:388`), merged with what was read before the connectivity test: of two overlapping
  updates one is lost (`UpdatesAreKept` excepts these, and only these).
* A failed sender leaves the daemon's drain waiting for ever for goroutines that wait for room
  in `sendCh`; `worker/join/join.go:203` promises a retry (`DrainEnds` excepts it).

The models contain more behaviours of this kind that no run asks about: Restore and Disconnect
write a status decided on before Preregister reset the row; SweepStale marks a worker whose
heartbeat came after its query; Send's two lookups see two entries and the result is dropped;
Send waits without a timeout for room in the command channel; commands outlive their stream,
although a comment derives their context from it; a CANCEL after its command's end leaves a
tombstone; after a deletion that removed the services but not the components, the application is
found by no query that joins services: DELETE answers 404, the sync passes over it, and it stays in
Error with its components (with some of the services left, the retry finds the components of
those only); a pod created after
ListPods outlives its application; after a restart nothing resumes Downloading, Deploying or
Deleting, and DELETE refuses the last; an item whose status could not be written stays
Initializing and keeps the sync from judging its application.

Of the datasources: the PUTs of two overlapping updates may reach a pod in the other order; a connect gives a pod the credentials it read before an
update (`stale` marks both); a connect that crosses a disconnect leaves a link to a pod that
drops its copy, with every call answered as a success; a connect counts a conflict with a connector that is being deleted as
success, and the link then leads to a pod that drops it; a link whose insert failed is only logged.

Of the digitize service: tasks are paired with staged files by position, although rows of one
batch have no order and the files come sorted by type (`processing/orchestrator.py:555-557`); a
read of the tasks that fails makes the pipeline wait for none of them, and one of a single task
drops its document, while the job completes; no deadline bounds the drain
of a cancelled job; a cancellation that leaves before the first check of `process_documents`
leaves its tasks in the queue; deleting a job in `cancel_pending` takes the cancellation away
from its pipeline; the quota is checked and used in two steps, so two requests may exceed it;
`cancel_pending` is overwritten by the write that follows a check; recovery leaves tasks in
`cancel_pending`; a cancellation after a job's end leaves it in `cancel_pending` until a restart;
a lost finalization leaves a connector syncing until a restart; a document whose deletion failed
after its row went is found again only by the sweep of the connector that ingested it; the second
statement of a finalization may fail after the first has closed the log; a row copied from one that a
cleanup has removed since names a document on its way out (`raced`).

### Fairness

Weak fairness of a handler's next step: a goroutine that can go on does. Of the
sweeper: its ticker fires and its loop ends. Of `Age`: time passes. Of `CallTimesOut`:
timers fire. Of `TaskStep`: a command's handler returns, an assumption about the
runtime calls it makes. Nothing is assumed of the environment: streams need not open, a
worker need not answer, connections need not break. In `ApplicationLifecycle` the deployment,
its goroutines, the deletions and the sync's ticker go on; applications need not be created nor
deleted, pods need not come up (a waiting goroutine gives up by its timeout, `ItemFails`).

In `Datasources` only the sync job's ticker goes on (`JobStep`): a test ends and its outcome is
written or the write fails, a bounded number of times. Requests need not end, pods need not finish a
teardown.

In the digitize modules the dispatcher's loop, the pipelines' threads and the event loop run. A
coroutine that is ready now and again gets its turn (strong fairness of `ConversionStep`,
`Coroutine`): asyncio's ready queue is a FIFO, and the steps it waits for hold no await. A
conversion returns or raises: nothing in the code bounds its time, and the pipelines do not rely
on it, they have a deadline (`Deadline`, strong, since the task is polled again and again until
it passes). In `ConnectorSync` remote calls return and jobs end, which `jobs_live` shows; stops,
deletions and syncs need not come. Steps that are taken a bounded number of times are gathered in
one formula: fairness to all of them is then fairness to each.

## 4. The proofs

For any sets of workers, entries, rows, tokens, streams, Register RPCs and requests, and any
bounds, from the assumptions `NoneIsNothing` (None is none of them) and
`BoundsAreNaturals`:

* `WorkerRegistryProofs!TypeCorrect`: `Spec => []TypeOK`. The types say what each handler's
  local variables hold at each program point, so the proof shows for instance that Restore
  never inserts without a row.
* `WorkerRegistryProofs!ChannelCloseSafety`: `Spec => []ChannelCloseIsSafe`. Not inductive
  alone: `TableInv` adds that an entry in the map is filed under its own name and open,
  and that an entry about to be closed was born, so that Insert cannot pick it again.
* `WorkerRegistryProofs!TableRefinement`: `Spec => Table!Spec`, with `LifeOf` as the refinement
  mapping. Lemmas say which steps write the map and the entries at all; each of these maps to
  Attach, Detach, Close or DetachAll, all others to a stutter.
* `WorkerRegistryProofs!TokenSafety`: `Spec => []TokenRegistersOnce`, through `TokenInv`: the
  token of an entry is spent, and the one a Register RPC is about to turn into
  an entry belongs to nobody else.
* `WorkerRegistryProofs!RowSafety`: `Spec => []ReadyRowWasRegistered`, through `RowInv`: every row id
  that a handler, an entry or the sweeper may later write a status to belongs to a worker that
  registered. Tokens stay used, which makes `Registered` stable (lemma `RegisteredStable` of the
  module carries this through every step). It says nothing of certificates: the row becomes ready
  before the reply that carries one.
* `WorkerRegistryProofs!Invariance`: `Spec => []IInv`, the conjunction: map and channels, tokens, rows.

For any calls, entries, streams and bounds, from `RoutingNone` (None is none of the entries) and
`RoutingBounds`:

* `CommandRoutingProofs!RoutingTyped`: `Spec => []TypeOK`.
* `CommandRoutingProofs!RemoteCallRefinement`: `Spec => ImplementsRemoteCall`. `RoutingInv`
  (theorem `RoutingInvariance`) follows a command from its call to the worker and back: it is in one place at a time,
  a queue holds commands of calls that put them there, and what lies in a result channel or on its
  way to one is what the worker made of that call. So a command starts once, and the value a
  call takes from its channel is the state of its own execution.

For any messages, buffer size and breaks, from `StreamBounds` and `BufferIsPositive`:

* `WorkerStreamProofs!StreamTyped`: `Spec => []TypeOK`.
* `WorkerStreamProofs!ClosedChannelStaysQuiet` and `CancelsAreKept`: `Spec => []ClosedChannelIsQuiet`
  and `Spec => []CancelIsNotLost`, through `StreamInv`: the loop leaves a stream only when its
  goroutines have ended (`DrainedInv`); messages arrive in the order in which they were sent, a CANCEL after
  its command (`WireInv`); and the live contexts are those of the map, while a CANCEL that has been
  dispatched leaves its command out of the map, and a tombstone if the command has not got there yet
  (`TombstoneInv`).

For any components, services, DELETE requests and bounds, from `ItemsAreDistinct`,
`LifecycleBound` and `ComponentsServe` (an application without services has no components, as the
planner makes it):

* `ApplicationLifecycleProofs!LifecycleTyped`: `Spec => []TypeOK`.
* `ApplicationLifecycleProofs!RunningIsDeployed` and `StatusIsNotOverwritten`: `Spec => RunningWasDeployed` and
  `Spec => StatusMoves`, through `StatusInv`: while nobody has cancelled the deployment, each of its
  phases begins with every item of the phases before it deployed (`DeployedInv`); before a DELETE takes effect the
  sync stays away and the status tells how far the deployment is (`EarlyInv`); a deletion at work
  has marked the application (`MarkedInv`). An earlier form of `StatusMoves` was checked without
  failures only and turned out to be false with them while it was being proved: the deployer logs a failed
  write of Deploying and goes on (`services/deployment/repository/podman/deployer.go`), so that
  Downloading then turns into Running at once. The property now says so, and `lifecycle_live` checks it with a mishap.
* `ApplicationLifecycleProofs!DeletionIsClean`: `Spec => []CleanDeletion`, through `DeletionInv`:
  pods go before rows (`PodsFirst`); every request has taken all services that are left upon itself
  (`RequestInv`); and for each component that is left, some service is left, too, so that the next request
  takes the component, or a request under way has taken it (`InCharge`). It is an invariant of the histories
  without failure and overlap (`Clean`), those the property speaks of.

For any jobs, tasks, lanes, capacities and quotas, from `DispatchAssumption`, and for the types from
`FiniteDispatch` (tasks and connectors are rows of tables, hence finitely many):

* `ConversionDispatchProofs!RowsAgree`: `DispatchSpec => []RowsMatchConversions`, and
  `OutcomesStay`: `DispatchSpec => OutcomeIsFinal`. Both through `DispatchInv`, which adds that the
  task that waits for its units is not converted yet and keeps the dispatcher from anything else,
  and that a candidate of a promotion is pending or was cancelled since. The latter is what the
  update by task id alone rests on: between its select and its update nothing can claim the row.
* `ConversionDispatchProofs!UnitsAccounted`: `DispatchSpec => []SemaphoreAccounted`. Since a task
  weighs one or two units, the units in use are the conversions and, once more, the large ones: two
  cardinalities, which a start raises and an end lowers. `SemaphoreInv` adds that the conversions are
  finitely many, and that who waits for units waits for a task; that a task is not converted yet
  when its units are taken is in `DispatchInv`.
* `ConversionDispatchProofs!SlotRefinement`: `DispatchSpec => ImplementsSlots`, by `DispatchInv` and
  `SemaphoreInv`. Each action of the queue is a Start, a Finish, an Abandon, or a Withdraw of the
  tasks it takes out of the queue, possibly of none. What has to be shown is that no step puts a task
  back that is over (`JobSlotStep`, `PromotionSlotStep`, `RestartSlotStep`: recovery fails what was
  running instead of queueing it again), and that a start fits (`StartStep`: the free units are
  what the conversions under way leave, so the semaphore's guard is the guard of Start).
* `ConversionDispatchProofs!HeadsFit`: with two units at least, a head that does not fit waits for a
  conversion that is under way, `[]BlockedOnlyByConversions`. That is the safety half of
  `NoLaneStarves`, and the hypothesis cannot be dropped: with one unit a large file never fits.
* `ConversionDispatchProofs!DispatchTyped`: `DispatchSpec => []TypeOK`. The ranks of `queuedAt` never
  exceed the number of tasks (`StampTyped`: a rank counts the image of a subset of the tasks), the
  round-robin index stays on a list of connectors that exists (`TurnLaneTyped`).
* `DigitizeJobsProofs!QueueRefinement`: `Spec => ImplementsDispatch`. Every step of the composition
  is one action of the queue's or leaves the queue alone; `RowsAgreeUnderJobs` and
  `SlotsUnderJobs` are corollaries: what the queue promises holds under the API, pipelines and recovery.
* `DigitizeJobsProofs!JobsTyped`: `Spec => []JobTypeOK`, from `DispatchTyped`, the types in `JobsInv`,
  and the two bounds (`BoundsStep`).
* `DigitizeJobsProofs!DocsFollowTheirTasks`, `CompletedIsConverted`, `EndedJobIsNotRevived`:
  `Spec => []DocsFollowTasks`, `Spec => []CompletedMeansConverted` and `Spec => EndedJobStaysEnded`, besides
  from `JobsAssumption` and `OneFileToDigitize` (`create_job` refuses a second file). All three
  through `JobsInv`, for each job the conjunction of: where its pipeline is and what its row can be
  (`PipeInv`); downstream work goes on in the poll loop only and follows a completed conversion
  (`FutureInv`); tasks and files are paired one to one (`FileInv`); documents (`DocInv`); only the
  job's pipeline cancels its tasks, and has latched that by then (`CancelInv`), which is why digitize may
  take for completed what is not failed; a job that ended has no report under way (`EndedInv`); and, as long as no error
  was swallowed or only logged, a task that was dropped is worked on or its document has ended (`ConvertedInv`). A step
  of one job leaves the others' parts alone (`Spared`), the dispatcher leaves all of them alone: that is the lemma
  `DispatchSparesTasks` with `KeepsOutcomes` of the queue.

For any connectors, contents and syncs:

* `ConnectorSyncProofs!SyncExclusion`: `Spec => []SyncIsExclusive`, and `DeletionStays`:
  `Spec => DeletionIsFinal`, through `SyncInv`: what a live tick says of its connector's status and
  logs, that a connector at rest has no open log, and that a connector that is gone has none.
* `ConnectorSyncProofs!GoneIsClean`: `Spec => []GoneOwnsNothing`. Given `SyncInv` it is inductive:
  only a teardown takes the row away, every step that makes a job or a row belongs to a live tick
  (`CoroutineTouches`), and a dispatch refuses a connector that is gone. It says nothing of the
  connectors in `outlived`, nor of the rows of those in `unread`.
* `ConnectorSyncProofs!OwnedAreWhole`: `Spec => []OwnedDocumentsExist`, through `DataInv`, for the
  rows that count, those not in `raced`. `RowsInv`
  says of rows that they name a document of their content, and of a victim whose owners were counted
  that no row that counts names it. `PastInv` says that what anything refers to (a row, a lookup,
  a cleanup) is past: its tick has a log, is beyond its listing and holds the file in no batch, so that
  neither a launch nor the end of a job touches it. References are only copied, but for the one row of a
  file just finished (`ReferencesAreCopied`), and what is past stays so (`PastStays`).
* `ConnectorSyncProofs!SyncTyped`: `Spec => []TypeOK`, from `ConnectorAssumption` and
  `NoneIsNoDocument`.

For any services, requests and bounds, from `DatasourcesAssumption`:

* `DatasourcesProofs!LinksStayTrue`: `Spec => []LinksAgree`. While requests are under way links and
  pods do differ; `LinksHold` says how: a connect between its POST and its link has served the
  pod, a disconnect between its DELETE and its write has not left one, and a delete under way has
  seen no link that came into being without a mark.
* `DatasourcesProofs!CopiesStayTrue`: `Spec => []CopiesAgree`, for services in neither `unsure` nor
  `stale`, through `CopiesHold`: a pod that serves has the row's credentials, or a connect that is about to record its link holds older
  ones, or an update that holds the row's has the pod still before it. The step that matters is
  Persist, which makes every pod old at once: `Fresh` says that the update it writes is known to
  nobody else, hence every connect under way holds something else, and `LinksHold` that a pod
  without a link belongs to such a connect.
* `DatasourcesProofs!UpdatesStayKept`: `Spec => []UpdatesAreKept`, through `KeptHold`: an update that
  is about to write has read everything that must not get lost. An update that writes drops what
  others about to write did not read, which is why these are excepted.
* `DatasourcesProofs!DatasourcesTyped`: `Spec => []TypeOK`.

Only model-checked: liveness (`GoneWorkerLeavesReady`, `AwaitingCallReturns`,
`EveryCommandAnswered`, `DrainEnds`, `WorkEnds`, `SyncNotices`, `NoLaneStarves`, `PipelineEnds`,
`ConnectorSettles`, `StatusSettles`), since fairness and ENABLED are out of the prover's reach. Every other property of
the passing runs is stated by a theorem.

## 5. The plan

1. `WorkerRegistry`, `ConnectionTable` and their proofs: done.
2. `CommandRouting`, `RemoteCall` and the refinement between them: modelled, checked and proved.
3. `WorkerStream`: modelled and checked; its safety properties are proved.
4. `ApplicationLifecycle`: modelled and checked for Podman; its safety properties are proved. Next:
   the OpenShift order of the same steps.
5. `ConversionDispatch`, `ConversionSlots`, `DigitizeJobs` with the refinements between them: modelled and
   checked; all safety properties are proved.
6. `ConnectorSync`: modelled and checked; its safety properties are proved.
7. `Datasources`: modelled, checked and proved. Next: creation and the uniqueness of names, the
   connects of a deployment, calls that take effect after they failed.
8. Bundles, token blacklist, the job services of translate, summarize and extract, as far as they
   show anything.

## 6. Not modelled

PKI and TLS (sequential; a certificate is a Boolean here); installation and removal of
workers; payload formats and the runtimes behind the commands; catalog files,
validation and templates (pure functions of files); the CLI, the MCP server, the user
interfaces, chatbot and similarity (no state between requests); document parsing.
The case of worker names is abstracted: a name stands for its lower-case form.

Of the datasources: creation (the check of the name and the insert are two statements), encryption,
the endpoints that only read, the connects that a deployment makes, names (a pod's conflict may also
come from another connector of the same name), the panic that would end the sync job.

Of the other modelled components: what `process_documents` does after an exception of its own, the
removal of files and vectors, the document endpoints, import and export, the search for
duplicates by hash; the scheduler's registration of connectors, their creation and update, the
scanners and the counters; an insert that raises while a tick shares files (the tick fails, and the
next one lists again); a poll whose read of the job raises while the job runs (the batch fails and the
job goes on by itself); a checkpoint that fails to see a stop or a deletion (as if it came a moment
later); a user who deletes the job or a document of a running sync (the poll
then raises, the batch fails, and the next cleanup finds what the job left). `PipelineEnds` is
checked for ingestions; for digitizations the safety properties are proved. Ingestion order within
process, chunk and index stages of one document is one step: they share nothing with other
documents.
