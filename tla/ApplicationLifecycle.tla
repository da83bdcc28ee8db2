------------------------- MODULE ApplicationLifecycle -------------------------
(***************************************************************************)
(* The life of one application on a Podman worker: the request that        *)
(* creates it and the goroutine that deploys it, the requests that delete  *)
(* it and their goroutines, and the periodic sync of rows with pods.       *)
(*                                                                         *)
(* All of them write the same status columns with unconditional UPDATEs.   *)
(* The deployment is told to stop by a context that the DELETE request     *)
(* cancels through the DeploymentRegistry.  A statement on a cancelled     *)
(* context fails and changes nothing.                                      *)
(*                                                                         *)
(* Applications meet only in the check of their name, which is left out,   *)
(* as are the pods' volumes, secrets and routes, except that removing them *)
(* may fail.  An item stands for a component or a service with its pods;   *)
(* every service uses every component.                                     *)
(***************************************************************************)
EXTENDS Naturals

CONSTANTS
  Components, Services,   \* items of the deployment plan
  Deletes,                \* DELETE requests
  MaxMishaps              \* bound on failed database calls and restarts

ASSUME ItemsAreDistinct == Components \cap Services = {}
ASSUME LifecycleBound == MaxMishaps \in Nat
\* Components are planned as the dependencies of services.
ASSUME ComponentsServe == Services = {} => Components = {}

Items == Components \cup Services

VARIABLES
  app,        \* status in the application's row, "none" without a row
  item,       \* status in each component's and service's row
  pod,        \* the pods of each item
  dep,        \* where CreateApplication and executeDeploymentAsync are
  work,       \* the goroutine that deploys each item
  ctx,        \* the deployment's context; registered as long as it is live
  del,        \* the DELETE requests and their goroutines
  sync,       \* the sync cycle
  mishaps,    \* database calls that failed and restarts of the API server
  overlap,    \* history: a DELETE came before the deployment, or the creation
              \* of a pod it had left behind, had ended
  failed      \* history: a deletion could not remove something

vars == <<app, item, pod, dep, work, ctx, del, sync, mishaps, overlap, failed>>

history    == <<overlap, failed>>
rows       == <<app, item>>
deployment == <<dep, work, ctx>>

AppStatus  == {"Downloading", "Deploying", "Running", "Error", "Deleting"}
ItemStatus == {"Initializing", "Running", "Error"}

NoDelete == [pc |-> "idle", svcs |-> {}, comps |-> {}, cur |-> {},
             saw |-> FALSE, errs |-> FALSE]
Done     == [NoDelete EXCEPT !.pc = "done"]
NoWork   == [i \in Items |-> "none"]
NoSync   == [pc |-> "idle", app |-> "none", svc |-> [s \in Services |-> "none"],
             todo |-> {}, bad |-> FALSE, pending |-> FALSE]

TypeOK ==
  /\ app \in AppStatus \cup {"none"}
  /\ item \in [Items -> ItemStatus \cup {"none"}]
  /\ pod \in [Items -> {"none", "creating", "up", "bad"}]
  /\ dep \in {"idle", "rows", "prepare", "mark", "components", "services",
              "routes", "finish", "stepfailed", "failed", "leave", "ended"}
  /\ work \in [Items -> {"none", "planned", "create", "sent",
                         "ok", "failed", "cancelled"}]
  /\ ctx \in {"none", "live", "cancelled"}
  /\ del \in [Deletes -> [pc : {"idle", "cancel", "mark", "orphans", "delete",
                                "remove", "drop", "done"},
                          svcs : SUBSET Services, comps : SUBSET Components,
                          cur : SUBSET Items, saw : BOOLEAN, errs : BOOLEAN]]
  /\ sync \in [pc : {"idle", "items"}, app : {"none", "Running", "Error"},
               svc : [Services -> ItemStatus \cup {"none"}],
               todo : SUBSET Items, bad : BOOLEAN, pending : BOOLEAN]
  /\ mishaps \in 0..MaxMishaps
  /\ overlap \in BOOLEAN /\ failed \in BOOLEAN

Init ==
  /\ app = "none"
  /\ item = [i \in Items |-> "none"]
  /\ pod = [i \in Items |-> "none"]
  /\ dep = "idle" /\ ctx = "none"
  /\ work = NoWork
  /\ del = [d \in Deletes |-> NoDelete]
  /\ sync = NoSync
  /\ mishaps = 0
  /\ overlap = FALSE /\ failed = FALSE

---------------------------------------------------------------------------
(* Database calls *)

(* UPDATE applications SET status ... WHERE id: no row, no effect.         *)
AppIs(status) == app' = IF app = "none" THEN app ELSE status

(* The same for the row of a component or a service.                       *)
ItemIs(i, status) ==
  item' = IF item[i] = "none" THEN item ELSE [item EXCEPT ![i] = status]

DBWorks == UNCHANGED mishaps
DBFails == mishaps < MaxMishaps /\ mishaps' = mishaps + 1

(* Mutant: the status is written with a context of its own.                *)
DeploymentWritesAlways(status) ==
  \/ AppIs(status) /\ DBWorks
  \/ UNCHANGED app /\ DBFails

(* A status written by the deployment, under its context.                  *)
DeploymentWrites(status) ==
  \/ ctx = "live" /\ AppIs(status) /\ DBWorks
  \/ ctx = "live" /\ UNCHANGED app /\ DBFails
  \/ ctx # "live" /\ UNCHANGED app /\ DBWorks

---------------------------------------------------------------------------
(* CreateApplication: rows, registration, goroutine *)

InsertApplication ==
  /\ dep = "idle"
  /\ app' = "Downloading"
  /\ dep' = "rows"
  /\ UNCHANGED <<item, pod, work, ctx, del, sync, mishaps, history>>

(* Components come first.  A service's row refers to the application's     *)
(* row; it is inserted together with its dependencies.                     *)
InsertItem(i) ==
  /\ dep = "rows" /\ work[i] = "none"
  /\ i \in Services => /\ app # "none"
                       /\ \A c \in Components : work[c] = "planned"
  /\ item' = [item EXCEPT ![i] = "Initializing"]
  /\ work' = [work EXCEPT ![i] = "planned"]
  /\ UNCHANGED <<app, pod, dep, ctx, del, sync, mishaps, history>>

(* A row cannot be inserted: the request fails and leaves what is there.   *)
InsertFails ==
  /\ dep = "rows"
  /\ \E i \in Items : work[i] = "none"
  /\ \/ DBFails
     \/ app = "none" /\ (\A c \in Components : work[c] = "planned") /\ DBWorks
  /\ dep' = "ended" /\ work' = NoWork
  /\ UNCHANGED <<rows, pod, ctx, del, sync, history>>

Register ==
  /\ dep = "rows"
  /\ \A i \in Items : work[i] = "planned"
  /\ ctx' = "live"
  /\ dep' = "prepare"
  /\ UNCHANGED <<rows, pod, work, del, sync, mishaps, history>>

---------------------------------------------------------------------------
(* ExecuteDeployment *)

(* The base directory, images and models; only the last two report the     *)
(* failed step themselves.                                                 *)
Prepare ==
  /\ dep = "prepare"
  /\ dep' \in {"mark", "stepfailed", "failed"}
  /\ UNCHANGED <<rows, pod, work, ctx, del, sync, mishaps, history>>

MarkDeploying ==
  /\ dep = "mark"
  /\ DeploymentWrites("Deploying")
  /\ dep' = "components"
  /\ UNCHANGED <<item, pod, work, ctx, del, sync, history>>

InPhase(i) == dep = IF i \in Components THEN "components" ELSE "services"

(* An item's goroutine writes a service's status (for which it does not    *)
(* fail) and asks whether the pod exists: both fail when the context is    *)
(* cancelled.                                                              *)
StartItem(i) ==
  /\ InPhase(i) /\ work[i] = "planned"
  /\ \/ /\ ctx = "live"
        /\ work' = [work EXCEPT ![i] = "create"]
        /\ \/ i \in Services /\ ItemIs(i, "Initializing") /\ DBWorks
           \/ i \in Services /\ UNCHANGED item /\ DBFails
           \/ i \in Components /\ UNCHANGED item /\ DBWorks
     \/ /\ ctx # "live"
        /\ work' = [work EXCEPT ![i] = "cancelled"]
        /\ UNCHANGED item /\ DBWorks
  /\ UNCHANGED <<app, pod, dep, ctx, del, sync, history>>

(* Send hands the command to the worker, or leaves if the context has been *)
(* cancelled by now.                                                       *)
CreatePod(i) ==
  /\ InPhase(i) /\ work[i] = "create"
  /\ \/ /\ work' = [work EXCEPT ![i] = "sent"]
        /\ pod' = [pod EXCEPT ![i] = IF @ = "none" THEN "creating" ELSE @]
     \/ /\ ctx # "live"
        /\ work' = [work EXCEPT ![i] = "cancelled"]
        /\ UNCHANGED pod
  /\ UNCHANGED <<rows, dep, ctx, del, sync, mishaps, history>>

(* The pod is ready, or the call ends with an error, which on a cancelled  *)
(* context is kept silent (RunConcurrently).                               *)
ItemDeployed(i) ==
  /\ InPhase(i) /\ work[i] = "sent" /\ pod[i] = "up"
  /\ work' = [work EXCEPT ![i] = "ok"]
  /\ \/ ctx = "live" /\ ItemIs(i, "Running") /\ DBWorks
     \/ ctx = "live" /\ UNCHANGED item /\ DBFails
     \/ ctx # "live" /\ UNCHANGED item /\ DBWorks
  /\ UNCHANGED <<app, pod, dep, ctx, del, sync, history>>

ItemFails(i) ==
  /\ InPhase(i) /\ work[i] \in {"create", "sent"}
  /\ work' = [work EXCEPT ![i] = IF ctx = "live" THEN "failed" ELSE "cancelled"]
  /\ \/ ctx = "live" /\ ItemIs(i, "Error") /\ DBWorks
     \/ ctx = "live" /\ UNCHANGED item /\ DBFails
     \/ ctx # "live" /\ UNCHANGED item /\ DBWorks
  /\ UNCHANGED <<app, pod, dep, ctx, del, sync, history>>

Returned(phase) ==
  \A i \in phase : work[i] \in {"ok", "failed", "cancelled"}

(* Mutant: the errors of the goroutines are not collected.                 *)
PhaseEndsBlind(phase, here, next) ==
  /\ dep = here /\ Returned(phase)
  /\ dep' = next
  /\ UNCHANGED <<rows, pod, work, ctx, del, sync, mishaps, history>>

(* RunConcurrently returns: an error if an item failed, none if items were *)
(* only cancelled.                                                         *)
PhaseEnds(phase, here, next) ==
  /\ dep = here /\ Returned(phase)
  /\ dep' = IF \E i \in phase : work[i] = "failed" THEN "stepfailed" ELSE next
  /\ UNCHANGED <<rows, pod, work, ctx, del, sync, mishaps, history>>

RegisterRoutes ==
  /\ dep = "routes"
  /\ dep' \in {"finish", "stepfailed"}
  /\ UNCHANGED <<rows, pod, work, ctx, del, sync, mishaps, history>>

MarkRunning ==
  /\ dep = "finish"
  /\ DeploymentWrites("Running")
  /\ dep' = "leave"
  /\ UNCHANGED <<item, pod, work, ctx, del, sync, history>>

(* HandleDeploymentStepError, then executeDeploymentAsync: both write      *)
(* unless the context is cancelled.                                        *)
ReportError ==
  /\ dep \in {"stepfailed", "failed"}
  /\ DeploymentWrites("Error")
  /\ dep' = IF dep = "stepfailed" THEN "failed" ELSE "leave"
  /\ UNCHANGED <<item, pod, work, ctx, del, sync, history>>

(* The deferred Deregister, after connectors have been attached.           *)
Deregister ==
  /\ dep = "leave"
  /\ ctx' = "cancelled"
  /\ dep' = "ended" /\ work' = NoWork
  /\ UNCHANGED <<rows, pod, del, sync, mishaps, history>>

---------------------------------------------------------------------------
(* DeleteApplication *)

Known(s) == item[s] # "none"

(* GetByID and GetAll join the application's row with those of its         *)
(* services: an application without any of them is not found.              *)
Found == app # "none" /\ \E s \in Services : Known(s)

(* validateForDeletion: the application with its services, unless it is    *)
(* being deleted.  A request whose runtime cannot be resolved ends here.   *)
LoadForDeletion(d) ==
  /\ del[d].pc = "idle"
  /\ Found /\ app # "Deleting"
  /\ del' = [del EXCEPT ![d].pc = "cancel",
                        ![d].svcs = {s \in Services : Known(s)}]
  /\ overlap' = (overlap \/ dep # "ended" \/ \E i \in Items : pod[i] = "creating")
  /\ UNCHANGED <<rows, pod, deployment, sync, mishaps, failed>>

CancelDeployment(d) ==
  /\ del[d].pc = "cancel"
  /\ del' = [del EXCEPT ![d].pc = "mark"]
  /\ ctx' = IF ctx = "live" THEN "cancelled" ELSE ctx
  /\ UNCHANGED <<rows, pod, dep, work, sync, mishaps, history>>

MarkDeleting(d) ==
  /\ del[d].pc = "mark"
  /\ \/ /\ AppIs("Deleting") /\ DBWorks
        /\ del' = [del EXCEPT ![d].pc = "orphans"]
     \/ /\ UNCHANGED app /\ DBFails
        /\ del' = [del EXCEPT ![d] = Done]
  /\ UNCHANGED <<item, pod, deployment, sync, history>>

(* The components the services to delete depend on, and nobody else.       *)
Candidates(d) == IF \E s \in del[d].svcs : Known(s) THEN Components ELSE {}

(* Mutant: the services that go away count as dependents.                  *)
OrphanedNever(d) == {c \in Candidates(d) : \A s \in Services : ~Known(s)}

Orphaned(d) ==
  {c \in Candidates(d) : \A s \in Services : Known(s) => s \in del[d].svcs}

(* An error while the dependencies are read ends the request; one while a  *)
(* component is checked makes it count as still in use.                    *)
IdentifyOrphans(d) ==
  /\ del[d].pc = "orphans"
  /\ \/ /\ del' = [del EXCEPT ![d].pc = "delete", ![d].comps = Orphaned(d)]
        /\ UNCHANGED app /\ DBWorks
     \/ \E c \in Orphaned(d) :
          /\ del' = [del EXCEPT ![d].pc = "delete",
                                ![d].comps = Orphaned(d) \ {c}]
          /\ UNCHANGED app /\ DBFails
     \/ /\ del[d].svcs # {}
        /\ del' = [del EXCEPT ![d] = Done]
        /\ AppIs("Error") \/ UNCHANGED app
        /\ DBFails
  /\ UNCHANGED <<item, pod, deployment, sync, history>>

---------------------------------------------------------------------------
(* PerformDeletion: one service after the other, then the components *)

(* Without a proxy manager nothing is removed.  What the request has read  *)
(* about orphans does not matter then.                                     *)
NoProxyManager(d) ==
  /\ del[d].pc = "orphans"
  /\ \/ AppIs("Error") /\ DBWorks
     \/ UNCHANGED app /\ DBFails
  /\ del' = [del EXCEPT ![d] = Done]
  /\ failed' = TRUE
  /\ UNCHANGED <<item, pod, deployment, sync, overlap>>

Turn(d) == IF del[d].svcs # {} THEN del[d].svcs ELSE del[d].comps

(* The item is left behind and the next one is tried.                      *)
Skipped(d, i, errs) ==
  [del EXCEPT ![d].pc = "delete", ![d].cur = {}, ![d].saw = FALSE,
              ![d].svcs = @ \ {i}, ![d].comps = @ \ {i}, ![d].errs = @ \/ errs]

(* ListPods, by the item's label.  Pods that are being created may or may  *)
(* not be listed.                                                          *)
ListPods(d, i) ==
  /\ del[d].pc = "delete" /\ i \in Turn(d)
  /\ \E saw \in IF pod[i] = "creating" THEN BOOLEAN ELSE {pod[i] # "none"} :
       del' = [del EXCEPT ![d].pc = "remove", ![d].cur = {i}, ![d].saw = saw]
  /\ UNCHANGED <<rows, pod, deployment, sync, mishaps, history>>

(* The pods cannot be listed or the routes not unregistered.               *)
ListPodsFails(d, i) ==
  /\ del[d].pc = "delete" /\ i \in Turn(d)
  /\ del' = Skipped(d, i, TRUE)
  /\ failed' = TRUE
  /\ ItemIs(i, "Error")
  /\ UNCHANGED <<app, pod, deployment, sync, mishaps, overlap>>

(* Secrets, pods, volumes.  A secret that stays is an error, and the item  *)
(* goes all the same.                                                      *)
RemovePods(d, i) ==
  /\ del[d].pc = "remove" /\ i \in del[d].cur
  /\ pod' = [pod EXCEPT ![i] = IF del[d].saw THEN "none" ELSE @]
  /\ \E errs \in {FALSE, del[d].saw} :
       /\ del' = [del EXCEPT ![d].pc = "drop", ![d].errs = @ \/ errs]
       /\ failed' = (failed \/ errs)
  /\ UNCHANGED <<rows, deployment, sync, mishaps, overlap>>

(* Pods stay, or they go and a volume stays: then no status is written.    *)
RemovePodsFails(d, i) ==
  /\ del[d].pc = "remove" /\ i \in del[d].cur /\ del[d].saw
  /\ \/ /\ ItemIs(i, "Error")
        /\ \E p \in {pod[i], "none"} : pod' = [pod EXCEPT ![i] = p]
     \/ UNCHANGED item /\ pod' = [pod EXCEPT ![i] = "none"]
  /\ del' = Skipped(d, i, TRUE)
  /\ failed' = TRUE
  /\ UNCHANGED <<app, deployment, sync, mishaps, overlap>>

DropRow(d, i) ==
  /\ del[d].pc = "drop" /\ i \in del[d].cur
  /\ \/ /\ item' = [item EXCEPT ![i] = "none"]
        /\ del' = Skipped(d, i, FALSE)
        /\ DBWorks
     \/ /\ ItemIs(i, "Error")
        /\ del' = Skipped(d, i, TRUE)
        /\ DBFails
  /\ UNCHANGED <<app, pod, deployment, sync, history>>

(* Mutant: the deletion's errors are forgotten, the status stays.          *)
FinishDeletionSilent(d) ==
  /\ del[d].pc = "delete" /\ Turn(d) = {}
  /\ IF del[d].errs
     THEN UNCHANGED rows
     ELSE /\ app' = "none"
          /\ item' = [i \in Items |-> IF i \in Services THEN "none" ELSE item[i]]
  /\ del' = [del EXCEPT ![d] = Done]
  /\ DBWorks
  /\ UNCHANGED <<pod, deployment, sync, history>>

(* Without errors the application's row goes, and the rows of its services *)
(* with it (ON DELETE CASCADE); otherwise, and if the row cannot be        *)
(* deleted, the application is in error, as far as that can be written.    *)
FinishDeletion(d) ==
  /\ del[d].pc = "delete" /\ Turn(d) = {}
  /\ \/ /\ ~del[d].errs
        /\ app' = "none"
        /\ item' = [i \in Items |-> IF i \in Services THEN "none" ELSE item[i]]
        /\ DBWorks
     \/ del[d].errs /\ AppIs("Error") /\ UNCHANGED item /\ DBWorks
     \/ ~del[d].errs /\ AppIs("Error") /\ UNCHANGED item /\ DBFails
     \/ UNCHANGED rows /\ DBFails
  /\ del' = [del EXCEPT ![d] = Done]
  /\ UNCHANGED <<pod, deployment, sync, history>>

---------------------------------------------------------------------------
(* SyncService.performSync *)

(* GetAll: applications that are Running or Error, with their services.    *)
StartSync ==
  /\ sync.pc = "idle"
  /\ Found /\ app \in {"Running", "Error"}
  /\ sync' = [pc |-> "items", app |-> app, svc |-> [s \in Services |-> item[s]],
              todo |-> Items, bad |-> FALSE, pending |-> FALSE]
  /\ UNCHANGED <<rows, pod, deployment, del, mishaps, history>>

(* The worker is not connected: nothing is looked at.                      *)
WorkerDisconnected ==
  /\ sync.pc = "items" /\ sync.todo = Items
  /\ sync' = [sync EXCEPT !.todo = {}, !.bad = TRUE]
  /\ UNCHANGED <<rows, pod, deployment, del, mishaps, history>>

Visited(i, bad, pending) ==
  [sync EXCEPT !.todo = @ \ {i}, !.bad = @ \/ bad, !.pending = @ \/ pending]

(* Mutant: an item without pods is taken for healthy.                      *)
ObservedLax(i) == IF pod[i] = "bad" THEN {"Error"} ELSE {"Running", "Error"}

(* What the pods of an item say; a call that fails counts as an error.     *)
Observed(i) == IF pod[i] = "up" THEN {"Running", "Error"} ELSE {"Error"}

(* Components are found through the dependencies of the services in the    *)
(* snapshot, as they are now.  A component is passed over when it has no   *)
(* row or a database call about it fails.                                  *)
SyncComponent(c) ==
  /\ sync.pc = "items" /\ c \in sync.todo \cap Components
  /\ LET reached == \E s \in Services : sync.svc[s] # "none" /\ Known(s)
     IN \/ /\ ~reached \/ item[c] = "none"
           /\ sync' = Visited(c, FALSE, FALSE)
           /\ UNCHANGED item /\ DBWorks
        \/ /\ reached /\ item[c] = "Initializing"
           /\ sync' = Visited(c, FALSE, TRUE)
           /\ UNCHANGED item /\ DBWorks
        \/ /\ reached /\ item[c] \in {"Running", "Error"}
           /\ \E status \in Observed(c) :
                /\ ItemIs(c, status)
                /\ sync' = Visited(c, status = "Error", FALSE)
           /\ DBWorks
        \/ /\ reached
           /\ sync' = Visited(c, FALSE, FALSE)
           /\ UNCHANGED item /\ DBFails
  /\ UNCHANGED <<app, pod, deployment, del, history>>

(* Services are judged by the snapshot, and written if they differ from it *)
(* in status or message.                                                   *)
SyncService(s) ==
  /\ sync.pc = "items" /\ sync.todo \cap Components = {} /\ s \in sync.todo
  /\ \/ /\ sync.svc[s] \in {"none", "Initializing"}
        /\ sync' = Visited(s, FALSE, sync.svc[s] = "Initializing")
        /\ UNCHANGED item /\ DBWorks
     \/ /\ sync.svc[s] \in {"Running", "Error"}
        /\ \/ \E status \in Observed(s) :
                /\ \/ ItemIs(s, status)
                   \/ status = sync.svc[s] /\ UNCHANGED item
                /\ sync' = Visited(s, status = "Error", FALSE)
                /\ DBWorks
           \/ /\ UNCHANGED item /\ DBFails
              /\ sync' = Visited(s, FALSE, FALSE)
  /\ UNCHANGED <<app, pod, deployment, del, history>>

(* updateApplicationStatus: nothing while an item is initialising;         *)
(* otherwise a write if status or message differ from the snapshot.        *)
FinishSync ==
  /\ sync.pc = "items" /\ sync.todo = {}
  /\ LET status == IF sync.bad THEN "Error" ELSE "Running"
     IN \/ sync.pending /\ UNCHANGED app /\ DBWorks
        \/ ~sync.pending /\ AppIs(status) /\ DBWorks
        \/ ~sync.pending /\ status = sync.app /\ UNCHANGED app /\ DBWorks
        \/ ~sync.pending /\ UNCHANGED app /\ DBFails
  /\ sync' = NoSync
  /\ UNCHANGED <<item, pod, deployment, del, history>>

---------------------------------------------------------------------------
(* Environment *)

(* A pod that is being created comes up or not, whoever still waits for it *)
(* and even if its command was cancelled.                                  *)
CreationEnds(i) ==
  /\ pod[i] = "creating"
  /\ \E p \in {"up", "none"} : pod' = [pod EXCEPT ![i] = p]
  /\ UNCHANGED <<rows, deployment, del, sync, mishaps, history>>

PodChanges(i) ==
  /\ pod[i] \in {"up", "bad"}
  /\ \E p \in {"up", "bad"} \ {pod[i]} : pod' = [pod EXCEPT ![i] = p]
  /\ UNCHANGED <<rows, deployment, del, sync, mishaps, history>>

(* Handlers and goroutines are gone, rows and pods stay.                   *)
Restart ==
  /\ mishaps < MaxMishaps /\ mishaps' = mishaps + 1
  /\ dep # "idle" /\ dep' = "ended"
  /\ ctx' = IF ctx = "live" THEN "cancelled" ELSE ctx
  /\ work' = NoWork
  /\ del' = [d \in Deletes |-> IF del[d].pc = "idle" THEN del[d]
                               ELSE Done]
  /\ sync' = NoSync
  /\ UNCHANGED <<rows, pod, history>>

---------------------------------------------------------------------------
DeploymentStep ==
  \/ InsertFails \/ Register
  \/ \E i \in Items : InsertItem(i)
  \/ Prepare \/ MarkDeploying
  \/ PhaseEnds(Components, "components", "services")
  \/ PhaseEnds(Services, "services", "routes")
  \/ RegisterRoutes \/ MarkRunning \/ ReportError \/ Deregister

ItemStep(i) ==
  StartItem(i) \/ CreatePod(i) \/ ItemDeployed(i) \/ ItemFails(i)

RequestStep(d) ==
  \/ CancelDeployment(d) \/ MarkDeleting(d)
  \/ IdentifyOrphans(d) \/ NoProxyManager(d)

DeletionStep(d) ==
  \/ \E i \in Items : \/ ListPods(d, i) \/ ListPodsFails(d, i)
                      \/ RemovePods(d, i) \/ RemovePodsFails(d, i)
                      \/ DropRow(d, i)
  \/ FinishDeletion(d)

SyncStep ==
  \/ StartSync \/ WorkerDisconnected \/ FinishSync
  \/ \E c \in Components : SyncComponent(c)
  \/ \E s \in Services : SyncService(s)

Next ==
  \/ InsertApplication
  \/ DeploymentStep
  \/ \E i \in Items : ItemStep(i) \/ CreationEnds(i) \/ PodChanges(i)
  \/ \E d \in Deletes : LoadForDeletion(d) \/ RequestStep(d) \/ DeletionStep(d)
  \/ SyncStep
  \/ Restart

Spec == Init /\ [][Next]_vars

(* Goroutines and handlers run, the ticker of the sync fires.              *)
Fairness ==
  /\ WF_vars(DeploymentStep)
  /\ \A i \in Items : WF_vars(ItemStep(i))
  /\ \A d \in Deletes : WF_vars(RequestStep(d) \/ DeletionStep(d))
  /\ WF_vars(SyncStep)

FairSpec == Spec /\ Fairness

---------------------------------------------------------------------------
(* Properties *)

Quiet == dep = "ended" /\ \A d \in Deletes : del[d].pc \in {"idle", "done"}

(* A deletion that met no error, no restart, no running deployment and no  *)
(* pod still being created leaves neither pods nor rows, however many      *)
(* requests raced for it and whatever the sync wrote meanwhile.            *)
CleanDeletion ==
  Quiet /\ app = "none" /\ mishaps = 0 /\ ~overlap /\ ~failed
    => \A i \in Items : pod[i] = "none" /\ item[i] = "none"

(* RunConcurrently hides cancelled items and reports failed ones, and the  *)
(* phases after it go on: still a deployment says Running only if every    *)
(* item was deployed.                                                      *)
RunningWasDeployed ==
  [][dep = "finish" /\ dep' = "leave" /\ app # "Running" /\ app' = "Running"
       => \A i \in Items : work[i] = "ok"]_vars

(* A request went past CancelDeployment before the deployment registered.  *)
CancelMissed ==
  ctx = "live" /\ \E d \in Deletes : del[d].pc \notin {"idle", "cancel"}

(* Unless the cancellation missed the deployment, no status of the         *)
(* deployment comes back: Deleting and Error turn into Running by the sync *)
(* only, nothing but Downloading turns into Deploying; and no deletion     *)
(* removes a row it did not mark.  Downloading turns into Running only if  *)
(* the status in between could not be written, which is logged and passed  *)
(* over (prepareDeployment).                                               *)
StatusMoves ==
  [][~CancelMissed /\ app' # app =>
       /\ app' = "Deploying" => app = "Downloading"
       /\ app' = "Running" => \/ app = "Deploying"
                              \/ app = "Downloading" /\ mishaps > 0
                              \/ sync' # sync
       /\ app' = "none" => app # "Downloading"]_vars

(* The statuses in which somebody is at work come to an end, unless a      *)
(* database call failed or the server restarted: nothing picks such        *)
(* applications up again.                                                  *)
WorkEnds ==
  app \in {"Downloading", "Deploying", "Deleting"}
    ~> app \in {"none", "Running", "Error"} \/ mishaps > 0

(* An application does not stay Running over a service whose pods are      *)
(* missing or broken, once all items have left Initializing.               *)
Broken(s) ==
  /\ dep = "ended"
  /\ item[s] \in {"Running", "Error"} /\ pod[s] \in {"none", "bad"}
  /\ \A i \in Items : item[i] # "Initializing"

SyncNotices ==
  \A s \in Services : <>[]Broken(s) => <>[](app # "Running")
=============================================================================
