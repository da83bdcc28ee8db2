--------------------------- MODULE ConnectorSync ---------------------------
(***************************************************************************)
(* The connectors of the digitize service: sync ticks                      *)
(* (connectors/sync_tick.py), the endpoints that start and stop a sync and *)
(* delete a connector (api/v1/connectors.py), the cleanup of documents     *)
(* (utils/connectors.py) and the recovery of a restart.                    *)
(*                                                                         *)
(* A connector lists the files of a remote source.  Files of the same      *)
(* content, from any connector, share a document: a row of                 *)
(* connector_document_checksum says that a connector owns it.              *)
(*                                                                         *)
(* Ticks, requests and teardowns are coroutines of one event loop and run  *)
(* from one await to the next; EventLoopFree says that none is in between. *)
(* The cleanup of a tick runs in a thread, statement by statement, and     *)
(* jobs end in threads of their own (DigitizeJobs models those).           *)
(***************************************************************************)
EXTENDS Integers, Sequences, FiniteSets, FiniteSetsExt

CONSTANTS
  Connectors,
  Contents,    \* contents of remote files, as checksums
  BatchSize,   \* _BATCH_SIZE: files of one job
  MaxSyncs,    \* bounds of each connector: syncs,
  MaxChanges,  \* files that vanish from its source,
  MaxDeletes,  \* and DELETE requests
  MaxMishaps,  \* bound: restarts, failed deletions, database errors
  None

ASSUME ConnectorAssumption ==
  /\ BatchSize \in Nat \ {0} /\ MaxMishaps \in Nat
  /\ {MaxSyncs, MaxChanges, MaxDeletes} \subseteq [Connectors -> Nat]
  /\ None \notin Connectors \cup Contents

(* The seq of its log names a tick; a tick ingests a content once. *)
Ticks == UNION {{c} \X (1..MaxSyncs[c]) : c \in Connectors}
Docs == Ticks \X Contents

ASSUME NoneIsNoDocument == None \notin Docs

VARIABLES
  source,   \* the remote files of each connector
  conn,     \* connectors.status; "gone" without a row
  log,      \* connector_sync_logs.status by seq
  at,       \* where run_tick is; "none" before and after
  todo,     \* ingest_list, what is left of it
  shared,   \* files whose content another connector owned at the listing
  found,    \* the document the lookup returned, before the insert
  flawed,   \* batch_failed, invalid_files, and the errors of the cleanup
  batch,    \* doc_id_to_checksum: the files of its job
  job,      \* its job, until polled; "stuck": cancel_pending for good
  doc,      \* the documents and their status
  owned,    \* connector_document_checksum: the document by owner, content
  orphans,  \* orphan_checksums, what is left of them
  victim,   \* the document whose row the cleanup has removed
  counted,  \* count_checksum_owners has returned 0
  teardowns,\* _run_teardown coroutines of each connector
  raced,    \* history: rows inserted after the row looked up had gone,
            \* and what other connectors copied from no other row
  outlived, \* history: connectors deleted while a sync of theirs went on,
  unread,   \* and those deleted without their rows having been read
  changes, deletes, mishaps

tickVars == <<todo, shared, found, flawed, batch, orphans, victim, counted>>
dataVars == <<doc, owned, raced>>
bounds == <<changes, deletes, mishaps>>
deletion == <<teardowns, outlived, unread>>
vars == <<source, conn, log, at, tickVars, job, dataVars, deletion, bounds>>

Busy == {"sharing", "batching"}   \* between two awaits
Awaiting == {"new", "connecting", "scanning", "downloading", "launching",
             "waiting", "cleaning", "cleaned"}

TypeOK ==
  /\ source \in [Connectors -> SUBSET Contents]
  /\ conn \in [Connectors -> {"out of sync", "syncing", "up to date",
                              "delete pending", "gone"}]
  /\ log \in [Connectors -> Seq({"started", "cancel pending", "completed",
                                 "cancelled", "failed"})]
  /\ at \in [Ticks -> {"none"} \cup Busy \cup Awaiting]
  /\ todo \in [Ticks -> SUBSET Contents]
  /\ shared \in [Ticks -> SUBSET Contents]
  /\ found \in [Ticks -> Docs \cup {None}]
  /\ flawed \in [Ticks -> {"no", "invalid", "failed"}]
  /\ batch \in [Ticks -> SUBSET Contents]
  /\ job \in [Ticks -> {"none", "running", "cancel_pending", "stuck", "over"}]
  /\ doc \in [Docs -> {"none", "ingesting", "completed", "failed"}]
  /\ owned \in [Connectors \X Contents -> Docs \cup {None}]
  /\ orphans \in [Ticks -> SUBSET Contents]
  /\ victim \in [Ticks -> Docs \cup {None}]
  /\ counted \in [Ticks -> BOOLEAN]
  /\ teardowns \in [Connectors -> Nat]
  /\ raced \subseteq Connectors \X Contents
  /\ outlived \subseteq Connectors /\ unread \subseteq Connectors
  /\ {changes, deletes} \subseteq [Connectors -> Nat]
  /\ mishaps \in 0..MaxMishaps

Init ==
  /\ source = [c \in Connectors |-> Contents]
  /\ conn = [c \in Connectors |-> "out of sync"]
  /\ log = [c \in Connectors |-> <<>>]
  /\ at = [t \in Ticks |-> "none"]
  /\ todo = [t \in Ticks |-> {}] /\ shared = todo /\ batch = todo
  /\ orphans = todo /\ found = [t \in Ticks |-> None] /\ victim = found
  /\ flawed = [t \in Ticks |-> "no"] /\ counted = [t \in Ticks |-> FALSE]
  /\ job = [t \in Ticks |-> "none"] /\ doc = [d \in Docs |-> "none"]
  /\ owned = [p \in Connectors \X Contents |-> None] /\ raced = {}
  /\ outlived = {} /\ unread = {}
  /\ teardowns = [c \in Connectors |-> 0]
  /\ changes = teardowns /\ deletes = teardowns /\ mishaps = 0
-----------------------------------------------------------------------------
(* The tables.  A statement may meet a database error, which raises or, in
   many a read, counts as an empty result. *)

Mishap == mishaps < MaxMishaps /\ mishaps' = mishaps + 1

EventLoopFree == \A t \in Ticks : at[t] \notin Busy

OpenLogs(c) == {n \in DOMAIN log[c] : log[c][n] \in {"started",
                                                     "cancel pending"}}
LogStatus(t) == IF t[2] \in DOMAIN log[t[1]] THEN log[t[1]][t[2]] ELSE None

(* _check_interrupt_call: no row of the connector is no interrupt. *)
Interrupted(t) ==
  conn[t[1]] = "delete pending" \/ LogStatus(t) = "cancel pending"

Owns(c) == {x \in Contents : owned[<<c, x>>] # None}
OwnersOf(x) == {c \in Connectors : owned[<<c, x>>] # None}
Registered(d) == \E p \in DOMAIN owned : owned[p] = d
TicksOf(c) == {t \in Ticks : t[1] = c}
Live(c) == {t \in TicksOf(c) : at[t] # "none"}

(* get_unregistered_connector_doc_ids *)
Unregistered(c) ==
  {d \in Docs : d[1][1] = c /\ doc[d] # "none" /\ ~Registered(d)}

(* get_active_job_ids_for_connector *)
ActiveJobs(c) ==
  {t \in TicksOf(c) : job[t] \in {"running", "cancel_pending", "stuck"}}

(* Mutant: the status of the sync becomes the connector's. *)
FinalizeVerbatim(t, s) ==
  LET c == t[1] IN
  /\ LogStatus(t) # None /\ log' = [log EXCEPT ![c][t[2]] = s]
  /\ conn' = IF conn[c] = "delete pending" THEN conn ELSE [conn EXCEPT ![c] = s]
  /\ UNCHANGED mishaps

(* Mutant: the end of a sync takes a pending deletion back. *)
FinalizeAnyway(t, s) ==
  LET c == t[1] IN
  /\ log' = IF LogStatus(t) = None THEN log ELSE [log EXCEPT ![c][t[2]] = s]
  /\ conn' = IF LogStatus(t) = None THEN conn
             ELSE [conn EXCEPT ![c] = "out of sync"]
  /\ UNCHANGED mishaps

(* finalize_sync_log_and_update_connector, two statements.  A database error
   of the first reads as a missing row: log and connector stay as they are.
   One of the second leaves the log closed and the connector as it was; a
   tick that completes meets it as an exception and finalizes once more, as
   failed. *)
Finalize(t, s) ==
  LET c == t[1]
      Close(r) == LogStatus(t) # None /\ log' = [log EXCEPT ![c][t[2]] = r]
      Settle(r) == conn' = [conn EXCEPT ![c] =
                     IF @ = "delete pending" THEN @
                     ELSE IF r = "completed" THEN "up to date"
                     ELSE "out of sync"]
  IN \/ Close(s) /\ Settle(s) /\ UNCHANGED mishaps
     \/ LogStatus(t) = None /\ UNCHANGED <<log, conn, mishaps>>
     \/ Mishap /\ UNCHANGED <<log, conn>>
     \/ Mishap /\ Close(s) /\ UNCHANGED conn
     \/ Mishap /\ s = "completed" /\ Close("failed")
        /\ (Settle("failed") \/ UNCHANGED conn)

(* _complete_tick, _cancel_tick and _fail_tick: the tick returns. *)
EndTick(t, s) ==
  /\ Finalize(t, s)
  /\ at' = [at EXCEPT ![t] = "none"]
  /\ todo' = [todo EXCEPT ![t] = {}]
  /\ orphans' = [orphans EXCEPT ![t] = {}]
  /\ flawed' = [flawed EXCEPT ![t] = "no"]
  /\ batch' = [batch EXCEPT ![t] = IF job[t] = "running" THEN @ ELSE {}]
  /\ UNCHANGED <<shared, found, victim, counted, changes, deletes>>

Advance(t, place) ==
  /\ at' = [at EXCEPT ![t] = place]
  /\ UNCHANGED <<source, conn, log, deletion, changes, deletes>>

GoTo(t, place) == Advance(t, place) /\ UNCHANGED mishaps
-----------------------------------------------------------------------------
(* Requests *)

(* A file vanishes from the remote source. *)
Vanish(c, x) ==
  /\ x \in source[c] /\ changes[c] < MaxChanges[c]
  /\ changes' = [changes EXCEPT ![c] = @ + 1]
  /\ source' = [source EXCEPT ![c] = @ \ {x}]
  /\ UNCHANGED <<conn, log, at, tickVars, job, dataVars, deletion, deletes,
                 mishaps>>

(* Mutant: a running sync does not hold the lock. *)
LockIgnored(c) == conn[c] \notin {"delete pending", "gone"}

(* try_acquire_sync_lock *)
LockIsFree(c) == conn[c] \notin {"syncing", "delete pending", "gone"}

(* dispatch_sync, by the scheduler or a request: no step if a sync is
   under way, is being cancelled, or the connector is being deleted. *)
Dispatch(c) ==
  LET n == Len(log[c]) + 1 IN
  /\ EventLoopFree /\ n <= MaxSyncs[c]
  /\ \A m \in OpenLogs(c) : log[c][m] # "cancel pending"
  /\ LockIsFree(c)
  /\ conn' = [conn EXCEPT ![c] = "syncing"]
  /\ log' = [log EXCEPT ![c] = Append(@, "started")]
  /\ at' = [at EXCEPT ![<<c, n>>] = "new"]
  /\ UNCHANGED <<source, tickVars, job, dataVars, deletion, bounds>>

(* cancel_sync and mark_sync_cancel_pending *)
Stop(c) ==
  /\ EventLoopFree /\ conn[c] = "syncing"
  /\ \E n \in OpenLogs(c) :
       /\ log[c][n] = "started"
       /\ log' = [log EXCEPT ![c][n] = "cancel pending"]
  /\ UNCHANGED <<source, conn, at, tickVars, job, dataVars, deletion, bounds>>

(* delete_connector: any status, again and again, a teardown each time *)
Delete(c) ==
  /\ EventLoopFree /\ conn[c] # "gone"
  /\ deletes[c] < MaxDeletes[c]
  /\ deletes' = [deletes EXCEPT ![c] = @ + 1]
  /\ conn' = [conn EXCEPT ![c] = "delete pending"]
  /\ teardowns' = [teardowns EXCEPT ![c] = @ + 1]
  /\ UNCHANGED <<source, log, at, tickVars, job, dataVars, outlived, unread,
                 changes, mishaps>>
-----------------------------------------------------------------------------
(* run_tick *)

(* The first checkpoint; a configuration that no scanner accepts, or a
   connector that is gone by now, fails the tick. *)
Begin(t) ==
  /\ at[t] = "new" /\ EventLoopFree
  /\ \/ Interrupted(t) /\ EndTick(t, "cancelled")
        /\ UNCHANGED <<source, job, dataVars, deletion>>
     \/ EndTick(t, "failed") /\ UNCHANGED <<source, job, dataVars, deletion>>
     \/ /\ conn[t[1]] # "gone" /\ ~Interrupted(t)
        /\ GoTo(t, "connecting") /\ UNCHANGED <<tickVars, job, dataVars>>

(* connect and scan return or raise; the listings and the partition of
   _classify follow at once.  A listing that fails is empty. *)
Scan(t) ==
  LET c == t[1]
      registered == {x \in Contents : OwnersOf(x) # {}}
  IN /\ at[t] = "connecting" /\ EventLoopFree
     /\ \E known \in {Owns(c), {}}, all \in {registered, {}} :
          /\ shared' = [shared EXCEPT ![t] = (source[c] \ known) \cap all]
          /\ todo' = [todo EXCEPT ![t] = source[c] \ (known \cup all)]
          /\ orphans' = [orphans EXCEPT ![t] = known \ source[c]]
          /\ IF known = Owns(c) /\ all = registered THEN UNCHANGED mishaps
             ELSE Mishap
     /\ Advance(t, IF shared'[t] = {} THEN "batching" ELSE "sharing")
     /\ UNCHANGED <<found, flawed, batch, victim, counted, job, dataVars>>

ConnectFails(t) ==
  /\ at[t] = "connecting" /\ EventLoopFree
  /\ EndTick(t, "failed")
  /\ UNCHANGED <<source, job, dataVars, deletion>>

PassOn(t, x) ==
  /\ shared' = [shared EXCEPT ![t] = @ \ {x}]
  /\ Advance(t, IF shared[t] = {x} THEN "batching" ELSE "sharing")

(* lookup_connector_content_by_checksum, a document of any owner; without
   one, or with an error, the file is passed over ... *)
LookUp(t) ==
  /\ at[t] = "sharing" /\ found[t] = None
  /\ \E x \in shared[t] :
       \/ /\ PassOn(t, x) /\ UNCHANGED found
          /\ IF OwnersOf(x) = {} THEN UNCHANGED mishaps ELSE Mishap
       \/ /\ \E c \in OwnersOf(x) :
               found' = [found EXCEPT ![t] = owned[<<c, x>>]]
          /\ GoTo(t, "sharing") /\ UNCHANGED shared
  /\ UNCHANGED <<todo, flawed, batch, orphans, victim, counted, job, dataVars>>

(* ... and add_connector_checksum_entry, another statement, without effect
   on a row that is there *)
Share(t) ==
  LET d == found[t]
      p == <<t[1], d[2]>>
  IN /\ at[t] = "sharing" /\ d # None
     /\ owned' = [owned EXCEPT ![p] = IF @ = None THEN d ELSE @]
     /\ raced' = IF \/ owned[p] # None
                    \/ \E q \in DOMAIN owned \ raced : owned[q] = d
                 THEN raced ELSE raced \cup {p}
     /\ PassOn(t, d[2]) /\ UNCHANGED mishaps
     /\ found' = [found EXCEPT ![t] = None]
     /\ UNCHANGED <<todo, flawed, batch, orphans, victim, counted, job, doc>>

-----------------------------------------------------------------------------
(* _process_new_files *)

FileOf(t, x) == <<t, x>>   \* the document of a file of tick t

(* The end of the loop, or the checkpoint before a batch.  A failed batch
   ends the tick before its orphans are looked at. *)
NextBatch(t) ==
  /\ at[t] = "batching"
  /\ \/ /\ todo[t] = {} /\ flawed[t] = "failed" /\ EndTick(t, "failed")
        /\ UNCHANGED <<source, deletion>>
     \/ /\ todo[t] = {} /\ flawed[t] # "failed" /\ GoTo(t, "cleaning")
        /\ UNCHANGED tickVars
     \/ /\ todo[t] # {} /\ Interrupted(t) /\ EndTick(t, "cancelled")
        /\ UNCHANGED <<source, deletion>>
     \/ /\ todo[t] # {} /\ ~Interrupted(t) /\ GoTo(t, "downloading")
        /\ \E n \in {IF Cardinality(todo[t]) < BatchSize
                     THEN Cardinality(todo[t]) ELSE BatchSize} :
             \E B \in kSubset(n, todo[t]) :
               /\ batch' = [batch EXCEPT ![t] = B]
               /\ todo' = [todo EXCEPT ![t] = @ \ B]
        /\ UNCHANGED <<shared, found, flawed, orphans, victim, counted>>
  /\ UNCHANGED <<job, dataVars>>

Fault(t, f) == flawed' = [flawed EXCEPT ![t] = IF @ = "failed" THEN @ ELSE f]

(* The downloads have returned: files that fail verify_integrity are passed
   over, invalid ones are noted, and the second checkpoint follows. *)
Download(t) ==
  /\ at[t] = "downloading" /\ EventLoopFree
  /\ \/ /\ Interrupted(t) /\ EndTick(t, "cancelled")
        /\ UNCHANGED <<source, deletion>>
     \/ /\ ~Interrupted(t)
        /\ \E B \in SUBSET batch[t] :
             /\ batch' = [batch EXCEPT ![t] = B]
             /\ \/ UNCHANGED flawed
                \/ B # batch[t] /\ Fault(t, "invalid")
             /\ GoTo(t, IF B = {} THEN "batching" ELSE "launching")
        /\ UNCHANGED <<todo, shared, found, orphans, victim, counted>>
  /\ UNCHANGED <<job, dataVars>>

(* A download or a launch raises: the batch fails, the next one follows. *)
BatchFails(t) ==
  /\ at[t] \in {"downloading", "launching"} /\ EventLoopFree
  /\ Fault(t, "failed") /\ batch' = [batch EXCEPT ![t] = {}]
  /\ GoTo(t, "batching")
  /\ UNCHANGED <<todo, shared, found, orphans, victim, counted, job, dataVars>>

(* initialize_and_launch awaits the page counts; the tasks that tie the job
   and its documents to the connector are inserted then, whatever became of
   the connector. *)
Launch(t) ==
  /\ at[t] = "launching" /\ EventLoopFree
  /\ job' = [job EXCEPT ![t] = "running"]
  /\ doc' = [d \in Docs |-> IF d[1] = t /\ d[2] \in batch[t] THEN "ingesting"
                           ELSE doc[d]]
  /\ GoTo(t, "waiting") /\ UNCHANGED <<tickVars, owned, raced>>

(* The job ends.  Of a cancelled one, documents that were indexed stay.
   Once nobody polls it, it is forgotten. *)
JobEnds(t) ==
  /\ job[t] \in {"running", "cancel_pending"}
  /\ job' = [job EXCEPT ![t] = IF at[t] = "waiting" THEN "over" ELSE "none"]
  /\ batch' = [batch EXCEPT ![t] = IF at[t] = "waiting" THEN @ ELSE {}]
  /\ \E ok \in SUBSET batch[t] :
       doc' = [d \in Docs |-> IF d[1] # t \/ doc[d] # "ingesting" THEN doc[d]
                             ELSE IF d[2] \in ok THEN "completed"
                             ELSE "failed"]
  /\ UNCHANGED <<source, conn, log, at, todo, shared, found, flawed, orphans,
                 victim, counted, owned, raced, deletion, bounds>>

(* The documents add_connector_checksum_entry registers *)
Finished(t) == {x \in batch[t] : doc[FileOf(t, x)] = "completed"}

(* A poll of _wait_for_job: an interrupt cancels a job that is not over.
   One that completes between the read and the write is cancel_pending with
   no pipeline left to end it. *)
PollInterrupted(t) ==
  /\ at[t] = "waiting" /\ EventLoopFree /\ Interrupted(t)
  /\ \/ /\ job[t] = "running"
        /\ \/ job' = [job EXCEPT ![t] = "cancel_pending"] /\ UNCHANGED doc
           \/ /\ job' = [job EXCEPT ![t] = "stuck"]
              /\ doc' = [d \in Docs |-> IF d[1] = t /\ doc[d] = "ingesting"
                                       THEN "completed" ELSE doc[d]]
     \/ /\ job[t] = "over" /\ job' = [job EXCEPT ![t] = "none"]
        /\ UNCHANGED doc
  /\ EndTick(t, "cancelled")
  /\ UNCHANGED <<source, owned, raced, deletion>>

Register(t, K) ==
  owned' = [p \in DOMAIN owned |->
              IF p[1] = t[1] /\ owned[p] = None /\ p[2] \in K
              THEN FileOf(t, p[2]) ELSE owned[p]]

(* The statistics of the job tell which documents to register; read as
   empty they tell of none, none that failed either.  An error that raises
   fails the batch. *)
PollOver(t) ==
  /\ at[t] = "waiting" /\ EventLoopFree /\ ~Interrupted(t)
  /\ job[t] = "over"
  /\ \/ /\ Register(t, Finished(t)) /\ UNCHANGED mishaps
        /\ IF \E x \in batch[t] : doc[FileOf(t, x)] = "failed"
           THEN Fault(t, "failed") ELSE UNCHANGED flawed
     \/ Mishap /\ UNCHANGED <<owned, flawed>>
     \/ /\ Mishap /\ Fault(t, "failed")
        /\ \E K \in SUBSET Finished(t) : Register(t, K)
  /\ job' = [job EXCEPT ![t] = "none"] /\ batch' = [batch EXCEPT ![t] = {}]
  /\ Advance(t, "batching")
  /\ UNCHANGED <<todo, shared, found, orphans, victim, counted, doc, raced>>
-----------------------------------------------------------------------------
(* _delete_orphans: cleanup_connector_documents in a thread *)

CleanupStep(t) ==
  at[t] = "cleaning" /\ UNCHANGED <<source, conn, log, todo, shared, found,
                                   batch, job, deletion, changes, deletes>>

(* delete_connector_checksum; an error leaves the row, and the tick fails. *)
Disown(t) ==
  /\ CleanupStep(t) /\ victim[t] = None
  /\ \E x \in orphans[t] :
       /\ orphans' = [orphans EXCEPT ![t] = @ \ {x}]
       /\ \/ /\ victim' = [victim EXCEPT ![t] = owned[<<t[1], x>>]]
             /\ owned' = [owned EXCEPT ![<<t[1], x>>] = None]
             /\ raced' = raced \ {<<t[1], x>>}
             /\ UNCHANGED <<flawed, mishaps>>
          \/ Mishap /\ Fault(t, "failed") /\ UNCHANGED <<victim, owned, raced>>
  /\ UNCHANGED <<at, counted, doc>>

(* Mutant: the other owners are not counted. *)
CountOwnersBlind(t) ==
  /\ CleanupStep(t) /\ victim[t] # None /\ ~counted[t]
  /\ counted' = [counted EXCEPT ![t] = TRUE]
  /\ UNCHANGED <<at, flawed, victim, orphans, dataVars, mishaps>>

(* count_checksum_owners; an error leaves the document without a row, and
   the tick fails. *)
CountOwners(t) ==
  /\ CleanupStep(t) /\ victim[t] # None /\ ~counted[t]
  /\ \/ /\ OwnersOf(victim[t][2]) = {}
        /\ counted' = [counted EXCEPT ![t] = TRUE]
        /\ UNCHANGED <<victim, flawed, mishaps>>
     \/ /\ \/ OwnersOf(victim[t][2]) # {} /\ UNCHANGED <<flawed, mishaps>>
           \/ Mishap /\ Fault(t, "failed")
        /\ victim' = [victim EXCEPT ![t] = None] /\ UNCHANGED counted
  /\ UNCHANGED <<at, orphans, dataVars>>

(* best_effort_delete_document, for each of D, and the failure the tick ends
   with *)
Erase(t, D) ==
  \E E \in SUBSET D :
    /\ doc' = [d \in Docs |-> IF d \in E THEN "none" ELSE doc[d]]
    /\ IF E = D THEN UNCHANGED <<flawed, mishaps>>
       ELSE Mishap /\ Fault(t, "failed")

EraseVictim(t) ==
  /\ CleanupStep(t) /\ counted[t]
  /\ Erase(t, {victim[t]})
  /\ victim' = [victim EXCEPT ![t] = None]
  /\ counted' = [counted EXCEPT ![t] = FALSE]
  /\ UNCHANGED <<at, orphans, owned, raced>>

(* The documents no connector owns, also those of a job that a stopped sync
   has left behind and that still runs.  Nothing can register one of them
   between the query and the deletions.  A query that fails finds none. *)
Sweep(t) ==
  /\ CleanupStep(t) /\ orphans[t] = {} /\ victim[t] = None
  /\ \/ Erase(t, Unregistered(t[1]))
     \/ Mishap /\ UNCHANGED <<doc, flawed>>
  /\ at' = [at EXCEPT ![t] = "cleaned"]
  /\ UNCHANGED <<orphans, victim, counted, owned, raced>>

Finish(t) ==
  /\ at[t] = "cleaned" /\ EventLoopFree
  /\ EndTick(t, IF flawed[t] = "no" THEN "completed" ELSE "failed")
  /\ UNCHANGED <<source, job, dataVars, deletion>>
-----------------------------------------------------------------------------
(* _run_teardown, whose cleanup runs in the event loop *)

TeardownEnds(c) ==
  /\ teardowns[c] > 0 /\ EventLoopFree
  /\ teardowns' = [teardowns EXCEPT ![c] = @ - 1]
  /\ UNCHANGED <<source, at, tickVars, job, changes, deletes>>

(* Mutant: a teardown does not wait. *)
NoWait(c) == c \in Connectors

(* wait_for_connector_jobs has seen no active job.  The tick may still be
   before its job, or between two of them. *)
NoActiveJobs(c) == ActiveJobs(c) = {}

(* cleanup_connector_documents: the rows of the contents K go, *)
Disowned(c, K) ==
  LET gone == {c} \X K IN
  /\ owned' = [p \in DOMAIN owned |-> IF p \in gone THEN None ELSE owned[p]]
  /\ raced' = raced \ gone

Erased(D) == doc' = [d \in Docs |-> IF d \in D THEN "none" ELSE doc[d]]

(* and with them the documents whose last owner was c and those of c that no
   one owns. *)
LastOwned(c, K) == {owned[<<c, x>>] : x \in {y \in K : OwnersOf(y) = {c}}}
Strays(c, K) ==
  {d \in Docs : /\ d[1][1] = c
                /\ \A p \in DOMAIN owned : owned[p] = d => p \in {c} \X K}

(* delete_active_connector: the sync logs go with the row, the checksum rows
   do not: no foreign key ties them to it. *)
TakeAway(c, K) ==
  /\ conn' = [conn EXCEPT ![c] = "gone"]
  /\ log' = [log EXCEPT ![c] = <<>>]
  /\ outlived' = IF Live(c) = {} THEN outlived ELSE outlived \cup {c}
  /\ unread' = IF K = Contents THEN unread ELSE unread \cup {c}

(* A cleanup that fails in parts keeps the connector.  One whose listing of
   checksums or of unregistered documents fails finds nothing to do there,
   and the connector goes. *)
Teardown(c) ==
  /\ TeardownEnds(c) /\ NoActiveJobs(c)
  /\ \/ \E K \in {Contents, {}} : \E S \in {Strays(c, K), {}} :
          /\ Disowned(c, K) /\ Erased(LastOwned(c, K) \cup S)
          /\ TakeAway(c, K)
          /\ IF K = Contents /\ S = Strays(c, K) THEN UNCHANGED mishaps
             ELSE Mishap
     \/ \E K \in SUBSET Contents :
        \E D \in SUBSET (LastOwned(c, K) \cup Strays(c, K)) :
          /\ Mishap /\ Disowned(c, K) /\ Erased(D)
          /\ UNCHANGED <<conn, log, outlived, unread>>

(* Mutant: a teardown waits for ever. *)
TeardownNeverTimesOut(c) == FALSE /\ TeardownEnds(c)

(* TEARDOWN_JOB_WAIT_TIMEOUT_S, or jobs that cannot be read *)
TeardownTimesOut(c) ==
  /\ TeardownEnds(c)
  /\ \/ ~NoActiveJobs(c) /\ UNCHANGED mishaps
     \/ Mishap
  /\ UNCHANGED <<conn, log, dataVars, outlived, unread>>
-----------------------------------------------------------------------------
(* The service restarts: recover_jobs, recover_connector_sync_state, and a
   teardown for every connector that waits for one. *)
Restart ==
  LET syncing == {c \in Connectors : conn[c] = "syncing"} IN
  /\ Mishap
  /\ conn' = [c \in Connectors |-> IF c \in syncing THEN "out of sync"
                                   ELSE conn[c]]
  /\ log' = [c \in Connectors |->
               [n \in DOMAIN log[c] |->
                 IF c \in syncing /\ n \in OpenLogs(c) THEN "failed"
                 ELSE log[c][n]]]
  /\ teardowns' = [c \in Connectors |->
                     IF conn[c] = "delete pending" THEN 1 ELSE 0]
  /\ job' = [t \in Ticks |-> "none"]
  /\ doc' = [d \in Docs |-> IF doc[d] = "ingesting" THEN "failed"
                            ELSE doc[d]]
  /\ at' = [t \in Ticks |-> "none"]
  /\ todo' = [t \in Ticks |-> {}] /\ shared' = todo' /\ batch' = todo'
  /\ orphans' = todo' /\ found' = [t \in Ticks |-> None]
  /\ victim' = found' /\ counted' = [t \in Ticks |-> FALSE]
  /\ flawed' = [t \in Ticks |-> "no"]
  /\ UNCHANGED <<source, owned, raced, outlived, unread, changes, deletes>>

CoroutineStep(t) ==
  \/ Begin(t) \/ Scan(t) \/ ConnectFails(t)
  \/ LookUp(t) \/ Share(t)
  \/ NextBatch(t) \/ Download(t) \/ BatchFails(t) \/ Launch(t)
  \/ PollInterrupted(t) \/ PollOver(t) \/ Finish(t)

ThreadStep(t) ==
  Disown(t) \/ CountOwners(t) \/ EraseVictim(t) \/ Sweep(t)

Next ==
  \/ \E c \in Connectors :
       \/ \E x \in Contents : Vanish(c, x)
       \/ Dispatch(c) \/ Stop(c) \/ Delete(c)
       \/ Teardown(c) \/ TeardownTimesOut(c)
  \/ \E t \in Ticks : CoroutineStep(t) \/ ThreadStep(t) \/ JobEnds(t)
  \/ Restart

Spec == Init /\ [][Next]_vars

TickAdvances == \E t \in Ticks :
  \/ at[t] # "none" /\ (CoroutineStep(t) \/ ThreadStep(t))
  \/ JobEnds(t)

TeardownAdvances == \E c \in Connectors : Teardown(c) \/ TeardownTimesOut(c)

(* The event loop and the threads run, remote calls return (they have
   timeouts), and a job ends: DigitizeJobs shows when. *)
Fairness ==
  WF_vars(TickAdvances \/ TeardownAdvances)

FairSpec == Spec /\ Fairness
-----------------------------------------------------------------------------
(* The sync lock: a connector has one tick at a time, from the dispatch to
   the end, whatever stops, deletions and restarts come between.  Its log is
   the last one and open, and the connector is marked syncing, unless it is
   being deleted or gone. *)
SyncIsExclusive ==
  \A c \in Connectors : \A t \in Live(c) :
    /\ Live(c) = {t}
    /\ conn[c] \in {"syncing", "delete pending", "gone"}
    /\ conn[c] # "gone" => OpenLogs(c) = {t[2]} /\ t[2] = Len(log[c])

(* A connector that owns a content owns a document that is there and whole:
   one connector's cleanup never takes what another one shares.  The
   exception is a row written while its document was on the way out, the
   classification of one sync having read the row that the cleanup of
   another one then removed; and a copy a third connector makes of it. *)
OwnedDocumentsExist ==
  \A p \in DOMAIN owned :
    owned[p] # None /\ p \notin raced => doc[owned[p]] = "completed"

(* "A connector in DELETE_PENDING is never modified, so a tick finishing
   after a DELETE request cannot overwrite the pending deletion"
   (db/manager.py:1430-1431): neither a tick, a dispatch nor recovery takes
   it back, and nothing brings a deleted connector back. *)
DeletionIsFinal ==
  [][\A c \in Connectors :
       /\ conn[c] = "delete pending" => conn'[c] \in {"delete pending", "gone"}
       /\ conn[c] = "gone" => conn'[c] = "gone"]_conn

(* Every sync comes to an end, and every teardown to a decision: a job that
   a stop or a deletion has left in cancel_pending holds neither up for
   ever. *)
ConnectorSettles ==
  \A c \in Connectors :
    Live(c) # {} \/ teardowns[c] > 0 ~> Live(c) = {} /\ teardowns[c] = 0

(* A connector that is gone has no sync and no job left that could still
   bring documents in, and owns nothing.  The exception is one whose teardown
   found no job, its sync being before it or between two, and took the row
   away under it: that sync reads the missing row as "no interrupt" and goes
   on.  A second one keeps its rows: its teardown met a database error where
   it lists them, which reads as an empty list and is no error of the
   deletion (manager.py:1112-1114, connectors.py:396-426), and the table has
   no foreign key (models.py:265). *)
GoneOwnsNothing ==
  \A c \in Connectors \ outlived : conn[c] = "gone" =>
    /\ Live(c) = {} /\ ActiveJobs(c) = {}
    /\ c \notin unread => Owns(c) = {}
=============================================================================
