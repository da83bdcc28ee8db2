---------------------- MODULE ApplicationLifecycleProofs ----------------------
(***************************************************************************)
(* Theorems about ApplicationLifecycle, for any plan of components and     *)
(* services, any number of DELETE requests and any number of mishaps.      *)
(***************************************************************************)
EXTENDS ApplicationLifecycle, TLAPS

Idle == \A d \in Deletes : del[d].pc = "idle"

---------------------------------------------------------------------------
(* Types *)

DeleteRecord ==
  [pc : {"idle", "cancel", "mark", "orphans", "delete", "remove", "drop", "done"},
   svcs : SUBSET Services, comps : SUBSET Components,
   cur : SUBSET Items, saw : BOOLEAN, errs : BOOLEAN]

(* A request's record is replaced by another one.                          *)
LEMMA RequestTyped ==
  ASSUME TypeOK, NEW d \in Deletes, NEW r \in DeleteRecord,
         del' = [del EXCEPT ![d] = r]
  PROVE  del' \in [Deletes -> DeleteRecord]
BY DEF TypeOK, DeleteRecord

(* The record of a request has its fields.                                 *)
LEMMA RequestFields ==
  ASSUME TypeOK, NEW d \in Deletes
  PROVE  /\ del \in [Deletes -> DeleteRecord]
         /\ del[d] \in DeleteRecord
BY DEF TypeOK, DeleteRecord

(* UPDATEs keep the types of the columns.                                  *)
LEMMA AppTyped ==
  ASSUME TypeOK, NEW st \in AppStatus, AppIs(st)
  PROVE  app' \in AppStatus \cup {"none"}
BY DEF TypeOK, AppIs

LEMMA ItemTyped ==
  ASSUME TypeOK, NEW i \in Items, NEW st \in ItemStatus, ItemIs(i, st)
  PROVE  item' \in [Items -> ItemStatus \cup {"none"}]
BY DEF TypeOK, ItemIs

LEMMA MishapsTyped ==
  ASSUME TypeOK, DBWorks \/ DBFails
  PROVE  mishaps' \in 0..MaxMishaps
BY LifecycleBound DEF TypeOK, DBWorks, DBFails

(* What the deployment writes under its context.                           *)
LEMMA DeploymentWritesTyped ==
  ASSUME TypeOK, NEW st \in AppStatus, DeploymentWrites(st)
  PROVE  app' \in AppStatus \cup {"none"} /\ mishaps' \in 0..MaxMishaps
<1>1. DBWorks \/ DBFails
  BY DEF DeploymentWrites
<1>2. AppIs(st) \/ UNCHANGED app
  BY DEF DeploymentWrites
<1> QED BY <1>1, <1>2, AppTyped, MishapsTyped DEF TypeOK

(* An item left behind is out of the request's work.                       *)
LEMMA SkippedTyped ==
  ASSUME TypeOK, NEW d \in Deletes, NEW i \in Items, NEW e \in BOOLEAN
  PROVE  Skipped(d, i, e) \in [Deletes -> DeleteRecord]
<1> DEFINE r == [del[d] EXCEPT !.pc = "delete", !.cur = {}, !.saw = FALSE,
                   !.svcs = @ \ {i}, !.comps = @ \ {i}, !.errs = @ \/ e]
<1>1. del \in [Deletes -> DeleteRecord] /\ del[d] \in DeleteRecord
  BY RequestFields
<1>2. r \in DeleteRecord
  BY <1>1 DEF DeleteRecord
<1>3. Skipped(d, i, e) = [del EXCEPT ![d] = r]
  BY <1>1 DEF Skipped
<1> QED BY <1>1, <1>2, <1>3

(* An item looked at is off the sync's list.                               *)
LEMMA VisitedTyped ==
  ASSUME TypeOK, NEW i \in Items, NEW b \in BOOLEAN, NEW p \in BOOLEAN
  PROVE  Visited(i, b, p) \in
           [pc : {"idle", "items"}, app : {"none", "Running", "Error"},
            svc : [Services -> ItemStatus \cup {"none"}],
            todo : SUBSET Items, bad : BOOLEAN, pending : BOOLEAN]
BY DEF TypeOK, Visited

(* The initial states are typed.                                           *)
LEMMA InitTyped == Init => TypeOK
<1> SUFFICES ASSUME Init PROVE TypeOK
  OBVIOUS
<1>1. NoDelete \in DeleteRecord
  BY DEF NoDelete, DeleteRecord
<1>2. del \in [Deletes -> DeleteRecord]
  BY <1>1 DEF Init
<1>3. sync \in [pc : {"idle", "items"}, app : {"none", "Running", "Error"},
                svc : [Services -> ItemStatus \cup {"none"}],
                todo : SUBSET Items, bad : BOOLEAN, pending : BOOLEAN]
  BY DEF Init, NoSync
<1>4. overlap \in BOOLEAN /\ failed \in BOOLEAN
  BY DEF Init
<1>5. mishaps \in 0..MaxMishaps
  BY LifecycleBound DEF Init
<1> QED BY <1>2, <1>3, <1>4, <1>5 DEF Init, TypeOK, NoWork, DeleteRecord

(* Every step keeps the types.                                             *)
LEMMA NextTyped == TypeOK /\ [Next]_vars => TypeOK'
<1> SUFFICES ASSUME TypeOK, [Next]_vars PROVE TypeOK'
  OBVIOUS
<1> USE DEF rows, deployment, history
<1>1. CASE InsertApplication
  BY <1>1 DEF InsertApplication, TypeOK, AppStatus
<1>2. ASSUME NEW i \in Items, InsertItem(i) PROVE TypeOK'
  BY <1>2 DEF InsertItem, TypeOK, ItemStatus
<1>3. CASE InsertFails
  <2>1. mishaps' \in 0..MaxMishaps
    BY <1>3, MishapsTyped DEF InsertFails
  <2> QED BY <1>3, <2>1 DEF InsertFails, TypeOK, NoWork
<1>4. CASE Register
  BY <1>4 DEF Register, TypeOK
<1>5. CASE Prepare
  BY <1>5 DEF Prepare, TypeOK
<1>6. CASE MarkDeploying
  <2>1. app' \in AppStatus \cup {"none"} /\ mishaps' \in 0..MaxMishaps
    BY <1>6, DeploymentWritesTyped DEF MarkDeploying, AppStatus
  <2> QED BY <1>6, <2>1 DEF MarkDeploying, TypeOK
<1>7. ASSUME NEW i \in Items, StartItem(i) PROVE TypeOK'
  <2>1. mishaps' \in 0..MaxMishaps
    BY <1>7, MishapsTyped DEF StartItem
  <2>2. item' \in [Items -> ItemStatus \cup {"none"}]
    BY <1>7, ItemTyped DEF StartItem, ItemStatus, TypeOK
  <2>3. work' \in [Items -> {"none", "planned", "create", "sent",
                             "ok", "failed", "cancelled"}]
    BY <1>7 DEF StartItem, TypeOK
  <2> QED BY <1>7, <2>1, <2>2, <2>3 DEF StartItem, TypeOK
<1>8. ASSUME NEW i \in Items, CreatePod(i) PROVE TypeOK'
  BY <1>8 DEF CreatePod, TypeOK
<1>9. ASSUME NEW i \in Items, ItemDeployed(i) PROVE TypeOK'
  <2>1. mishaps' \in 0..MaxMishaps
    BY <1>9, MishapsTyped DEF ItemDeployed
  <2>2. item' \in [Items -> ItemStatus \cup {"none"}]
    BY <1>9, ItemTyped DEF ItemDeployed, ItemStatus, TypeOK
  <2>3. work' \in [Items -> {"none", "planned", "create", "sent",
                             "ok", "failed", "cancelled"}]
    BY <1>9 DEF ItemDeployed, TypeOK
  <2> QED BY <1>9, <2>1, <2>2, <2>3 DEF ItemDeployed, TypeOK
<1>10. ASSUME NEW i \in Items, ItemFails(i) PROVE TypeOK'
  <2>1. mishaps' \in 0..MaxMishaps
    BY <1>10, MishapsTyped DEF ItemFails
  <2>2. item' \in [Items -> ItemStatus \cup {"none"}]
    BY <1>10, ItemTyped DEF ItemFails, ItemStatus, TypeOK
  <2>3. work' \in [Items -> {"none", "planned", "create", "sent",
                             "ok", "failed", "cancelled"}]
    BY <1>10 DEF ItemFails, TypeOK
  <2> QED BY <1>10, <2>1, <2>2, <2>3 DEF ItemFails, TypeOK
<1>11. CASE PhaseEnds(Components, "components", "services")
  BY <1>11 DEF PhaseEnds, TypeOK
<1>12. CASE PhaseEnds(Services, "services", "routes")
  BY <1>12 DEF PhaseEnds, TypeOK
<1>13. CASE RegisterRoutes
  BY <1>13 DEF RegisterRoutes, TypeOK
<1>14. CASE MarkRunning
  <2>1. app' \in AppStatus \cup {"none"} /\ mishaps' \in 0..MaxMishaps
    BY <1>14, DeploymentWritesTyped DEF MarkRunning, AppStatus
  <2> QED BY <1>14, <2>1 DEF MarkRunning, TypeOK
<1>15. CASE ReportError
  <2>1. app' \in AppStatus \cup {"none"} /\ mishaps' \in 0..MaxMishaps
    BY <1>15, DeploymentWritesTyped DEF ReportError, AppStatus
  <2> QED BY <1>15, <2>1 DEF ReportError, TypeOK
<1>16. CASE Deregister
  BY <1>16 DEF Deregister, TypeOK, NoWork
<1>17. ASSUME NEW d \in Deletes, LoadForDeletion(d) PROVE TypeOK'
  <2> DEFINE r == [del[d] EXCEPT !.pc = "cancel",
                                 !.svcs = {s \in Services : Known(s)}]
  <2>1. r \in DeleteRecord /\ del' = [del EXCEPT ![d] = r]
    BY <1>17, RequestFields DEF LoadForDeletion, DeleteRecord
  <2>2. del' \in [Deletes -> DeleteRecord]
    BY <2>1, RequestTyped
  <2>3. UNCHANGED <<app, item, pod, dep, work, ctx, sync, mishaps, failed>>
    BY <1>17 DEF LoadForDeletion
  <2>4. overlap' \in BOOLEAN
    BY <1>17 DEF LoadForDeletion, TypeOK
  <2> QED BY <2>2, <2>3, <2>4 DEF TypeOK, DeleteRecord
<1>18. ASSUME NEW d \in Deletes, CancelDeployment(d) PROVE TypeOK'
  <2> DEFINE r == [del[d] EXCEPT !.pc = "mark"]
  <2>1. r \in DeleteRecord /\ del' = [del EXCEPT ![d] = r]
    BY <1>18, RequestFields DEF CancelDeployment, DeleteRecord
  <2>2. del' \in [Deletes -> DeleteRecord]
    BY <2>1, RequestTyped
  <2>3. ctx' \in {"none", "live", "cancelled"}
    BY <1>18 DEF CancelDeployment, TypeOK
  <2>4. UNCHANGED <<app, item, pod, dep, work, sync, mishaps, overlap, failed>>
    BY <1>18 DEF CancelDeployment
  <2> QED BY <2>2, <2>3, <2>4 DEF TypeOK, DeleteRecord
<1>19. ASSUME NEW d \in Deletes, MarkDeleting(d) PROVE TypeOK'
  <2> DEFINE r == [del[d] EXCEPT !.pc = "orphans"]
  <2>1. r \in DeleteRecord /\ Done \in DeleteRecord
    BY RequestFields DEF DeleteRecord, Done, NoDelete
  <2>2. del' = [del EXCEPT ![d] = r] \/ del' = [del EXCEPT ![d] = Done]
    BY <1>19, RequestFields DEF MarkDeleting
  <2>3. del' \in [Deletes -> DeleteRecord]
    BY <2>1, <2>2, RequestTyped
  <2>4. mishaps' \in 0..MaxMishaps
    BY <1>19, MishapsTyped DEF MarkDeleting
  <2>5. app' \in AppStatus \cup {"none"}
    BY <1>19, AppTyped DEF MarkDeleting, AppStatus, TypeOK
  <2> QED BY <1>19, <2>3, <2>4, <2>5 DEF MarkDeleting, TypeOK, DeleteRecord
<1>20. ASSUME NEW d \in Deletes, IdentifyOrphans(d) PROVE TypeOK'
  <2>1. Orphaned(d) \in SUBSET Components
    BY DEF Orphaned, Candidates
  <2>2. del' \in [Deletes -> DeleteRecord]
    <3> DEFINE r(cs) == [del[d] EXCEPT !.pc = "delete", !.comps = cs]
    <3>1. Done \in DeleteRecord
      BY DEF DeleteRecord, Done, NoDelete
    <3>2. ASSUME NEW cs \in SUBSET Components PROVE r(cs) \in DeleteRecord
      BY RequestFields DEF DeleteRecord
    <3>3. CASE del' = [del EXCEPT ![d].pc = "delete",
                                  ![d].comps = Orphaned(d)]
      <4>1. del' = [del EXCEPT ![d] = r(Orphaned(d))]
        BY <3>3, RequestFields DEF DeleteRecord
      <4> QED BY <4>1, <3>2, <2>1, RequestTyped
    <3>4. ASSUME NEW c \in Orphaned(d),
                 del' = [del EXCEPT ![d].pc = "delete",
                                    ![d].comps = Orphaned(d) \ {c}]
          PROVE  del' \in [Deletes -> DeleteRecord]
      <4>1. del' = [del EXCEPT ![d] = r(Orphaned(d) \ {c})]
        BY <3>4, RequestFields DEF DeleteRecord
      <4>2. r(Orphaned(d) \ {c}) \in DeleteRecord
        BY <3>2, <2>1
      <4> QED BY <4>1, <4>2, RequestTyped
    <3>5. CASE del' = [del EXCEPT ![d] = Done]
      BY <3>5, <3>1, RequestTyped
    <3> QED BY <1>20, <3>3, <3>4, <3>5 DEF IdentifyOrphans
  <2>3. mishaps' \in 0..MaxMishaps
    BY <1>20, MishapsTyped DEF IdentifyOrphans
  <2>4. app' \in AppStatus \cup {"none"}
    BY <1>20, AppTyped DEF IdentifyOrphans, AppStatus, TypeOK
  <2> QED BY <1>20, <2>2, <2>3, <2>4
          DEF IdentifyOrphans, TypeOK, DeleteRecord
<1>20a. ASSUME NEW d \in Deletes, NoProxyManager(d) PROVE TypeOK'
  <2>1. Done \in DeleteRecord
    BY DEF DeleteRecord, Done, NoDelete
  <2>2. del' \in [Deletes -> DeleteRecord]
    BY <1>20a, <2>1, RequestTyped DEF NoProxyManager
  <2>3. mishaps' \in 0..MaxMishaps
    BY <1>20a, MishapsTyped DEF NoProxyManager
  <2>4. app' \in AppStatus \cup {"none"}
    BY <1>20a, AppTyped DEF NoProxyManager, AppStatus, TypeOK
  <2>5. failed' \in BOOLEAN /\ UNCHANGED <<item, pod, dep, work, ctx, sync>>
    BY <1>20a DEF NoProxyManager
  <2>6. UNCHANGED overlap
    BY <1>20a DEF NoProxyManager
  <2> QED BY <2>2, <2>3, <2>4, <2>5, <2>6 DEF TypeOK, DeleteRecord
<1>21. ASSUME NEW d \in Deletes, NEW i \in Items, ListPods(d, i)
       PROVE  TypeOK'
  <2>1. PICK saw \in BOOLEAN :
          del' = [del EXCEPT ![d].pc = "remove", ![d].cur = {i},
                             ![d].saw = saw]
    BY <1>21 DEF ListPods
  <2> DEFINE r == [del[d] EXCEPT !.pc = "remove", !.cur = {i}, !.saw = saw]
  <2>2. r \in DeleteRecord /\ del' = [del EXCEPT ![d] = r]
    BY <2>1, RequestFields DEF DeleteRecord
  <2>3. del' \in [Deletes -> DeleteRecord]
    BY <2>2, RequestTyped
  <2> QED BY <1>21, <2>3 DEF ListPods, TypeOK, DeleteRecord
<1>22. ASSUME NEW d \in Deletes, NEW i \in Items, ListPodsFails(d, i)
       PROVE  TypeOK'
  <2>1. del' \in [Deletes -> DeleteRecord]
    BY <1>22, SkippedTyped DEF ListPodsFails
  <2>2. item' \in [Items -> ItemStatus \cup {"none"}]
    BY <1>22, ItemTyped DEF ListPodsFails, ItemStatus
  <2>3. failed' \in BOOLEAN
    BY <1>22 DEF ListPodsFails
  <2>4. UNCHANGED <<app, pod, dep, work, ctx, sync, mishaps, overlap>>
    BY <1>22 DEF ListPodsFails
  <2> QED BY <2>1, <2>2, <2>3, <2>4 DEF TypeOK, DeleteRecord
<1>23. ASSUME NEW d \in Deletes, NEW i \in Items, RemovePods(d, i)
       PROVE  TypeOK'
  <2>1. PICK errs \in {FALSE, del[d].saw} :
          /\ del' = [del EXCEPT ![d].pc = "drop", ![d].errs = @ \/ errs]
          /\ failed' = (failed \/ errs)
    BY <1>23 DEF RemovePods
  <2>2. errs \in BOOLEAN
    BY RequestFields DEF DeleteRecord
  <2> DEFINE r == [del[d] EXCEPT !.pc = "drop", !.errs = @ \/ errs]
  <2>3. r \in DeleteRecord /\ del' = [del EXCEPT ![d] = r]
    BY <2>1, <2>2, RequestFields DEF DeleteRecord
  <2>4. del' \in [Deletes -> DeleteRecord]
    BY <2>3, RequestTyped
  <2>5. failed' \in BOOLEAN
    BY <2>1
  <2>6. pod' \in [Items -> {"none", "creating", "up", "bad"}]
    BY <1>23 DEF RemovePods, TypeOK
  <2> QED BY <1>23, <2>4, <2>5, <2>6 DEF RemovePods, TypeOK, DeleteRecord
<1>24. ASSUME NEW d \in Deletes, NEW i \in Items, RemovePodsFails(d, i)
       PROVE  TypeOK'
  <2>1. del' \in [Deletes -> DeleteRecord]
    BY <1>24, SkippedTyped DEF RemovePodsFails
  <2>2. item' \in [Items -> ItemStatus \cup {"none"}]
    BY <1>24, ItemTyped DEF RemovePodsFails, ItemStatus, TypeOK
  <2>3. pod' \in [Items -> {"none", "creating", "up", "bad"}]
    BY <1>24 DEF RemovePodsFails, TypeOK
  <2>4. failed' \in BOOLEAN
    BY <1>24 DEF RemovePodsFails
  <2>5. UNCHANGED <<app, dep, work, ctx, sync, mishaps, overlap>>
    BY <1>24 DEF RemovePodsFails
  <2> QED BY <2>1, <2>2, <2>3, <2>4, <2>5 DEF TypeOK, DeleteRecord
<1>25. ASSUME NEW d \in Deletes, NEW i \in Items, DropRow(d, i)
       PROVE  TypeOK'
  <2>1. del' \in [Deletes -> DeleteRecord]
    BY <1>25, SkippedTyped DEF DropRow
  <2>2. item' \in [Items -> ItemStatus \cup {"none"}]
    BY <1>25, ItemTyped DEF DropRow, ItemStatus, TypeOK
  <2>3. mishaps' \in 0..MaxMishaps
    BY <1>25, MishapsTyped DEF DropRow
  <2> QED BY <1>25, <2>1, <2>2, <2>3 DEF DropRow, TypeOK, DeleteRecord
<1>26. ASSUME NEW d \in Deletes, FinishDeletion(d) PROVE TypeOK'
  <2>1. Done \in DeleteRecord
    BY DEF DeleteRecord, Done, NoDelete
  <2>2. del' \in [Deletes -> DeleteRecord]
    BY <1>26, <2>1, RequestTyped DEF FinishDeletion
  <2>3. mishaps' \in 0..MaxMishaps
    BY <1>26, MishapsTyped DEF FinishDeletion
  <2>4. app' \in AppStatus \cup {"none"}
    BY <1>26, AppTyped DEF FinishDeletion, AppStatus, TypeOK
  <2>5. item' \in [Items -> ItemStatus \cup {"none"}]
    BY <1>26 DEF FinishDeletion, TypeOK
  <2> QED BY <1>26, <2>2, <2>3, <2>4, <2>5
          DEF FinishDeletion, TypeOK, DeleteRecord
<1>27. CASE StartSync
  BY <1>27 DEF StartSync, TypeOK, Items
<1>28. CASE WorkerDisconnected
  BY <1>28 DEF WorkerDisconnected, TypeOK
<1>29. ASSUME NEW c \in Components, SyncComponent(c) PROVE TypeOK'
  <2>1. c \in Items
    BY DEF Items
  <2>2. mishaps' \in 0..MaxMishaps
    BY <1>29, MishapsTyped DEF SyncComponent
  <2>3. Observed(c) \subseteq ItemStatus
    BY DEF Observed, ItemStatus
  <2>4. item' \in [Items -> ItemStatus \cup {"none"}]
    BY <1>29, <2>1, <2>3, ItemTyped DEF SyncComponent, TypeOK
  <2>5. \E b, p \in BOOLEAN : sync' = Visited(c, b, p)
    BY <1>29 DEF SyncComponent
  <2> QED BY <1>29, <2>1, <2>2, <2>4, <2>5, VisitedTyped
          DEF SyncComponent, TypeOK
<1>30. ASSUME NEW s \in Services, SyncService(s) PROVE TypeOK'
  <2>1. s \in Items
    BY DEF Items
  <2>2. mishaps' \in 0..MaxMishaps
    BY <1>30, MishapsTyped DEF SyncService
  <2>3. Observed(s) \subseteq ItemStatus
    BY DEF Observed, ItemStatus
  <2>4. item' \in [Items -> ItemStatus \cup {"none"}]
    BY <1>30, <2>1, <2>3, ItemTyped DEF SyncService, TypeOK
  <2>5. \E b, p \in BOOLEAN : sync' = Visited(s, b, p)
    BY <1>30 DEF SyncService
  <2> QED BY <1>30, <2>1, <2>2, <2>4, <2>5, VisitedTyped
          DEF SyncService, TypeOK
<1>31. CASE FinishSync
  <2>1. mishaps' \in 0..MaxMishaps
    BY <1>31, MishapsTyped DEF FinishSync
  <2>2. app' \in AppStatus \cup {"none"}
    BY <1>31, AppTyped DEF FinishSync, AppStatus, TypeOK
  <2> QED BY <1>31, <2>1, <2>2 DEF FinishSync, TypeOK, NoSync
<1>32. ASSUME NEW i \in Items, CreationEnds(i) PROVE TypeOK'
  BY <1>32 DEF CreationEnds, TypeOK
<1>33. ASSUME NEW i \in Items, PodChanges(i) PROVE TypeOK'
  BY <1>33 DEF PodChanges, TypeOK
<1>34. CASE Restart
  <2>1. mishaps' \in 0..MaxMishaps
    BY <1>34, MishapsTyped DEF Restart, DBFails
  <2>2. del' \in [Deletes -> DeleteRecord]
    <3>1. Done \in DeleteRecord
      BY DEF DeleteRecord, Done, NoDelete
    <3> QED BY <1>34, <3>1, RequestFields DEF Restart
  <2> QED BY <1>34, <2>1, <2>2 DEF Restart, TypeOK, NoWork, NoSync,
                                    DeleteRecord
<1>35. CASE UNCHANGED vars
  BY <1>35 DEF vars, TypeOK
<1> QED BY <1>1, <1>2, <1>3, <1>4, <1>5, <1>6, <1>7, <1>8, <1>9, <1>10,
           <1>11, <1>12, <1>13, <1>14, <1>15, <1>16, <1>17, <1>18, <1>19,
           <1>20, <1>21, <1>22, <1>23, <1>24, <1>25, <1>26, <1>27, <1>28,
           <1>29, <1>30, <1>31, <1>32, <1>33, <1>34, <1>35, <1>20a
    DEF Next, DeploymentStep, ItemStep, RequestStep, DeletionStep, SyncStep

(* Every reachable state is typed: an item's status never holds what its   *)
(* pods are in, and the mishaps stay within their bound.                   *)
THEOREM LifecycleTyped == Spec => []TypeOK
BY InitTyped, NextTyped, PTL DEF Spec

---------------------------------------------------------------------------
(* The invariant behind RunningWasDeployed and StatusMoves *)

(* While nobody has cancelled the deployment no item is cancelled, and     *)
(* each phase begins with every item of the phases before it deployed.     *)
DeployedInv ==
  ctx = "live" =>
    /\ dep \notin {"idle", "rows", "ended"}
    /\ \A i \in Items : work[i] # "cancelled"
    /\ dep \in {"services", "routes", "finish"}
         => \A c \in Components : work[c] = "ok"
    /\ dep \in {"routes", "finish"} => \A s \in Services : work[s] = "ok"

(* No request is past CancelDeployment.                                    *)
Early == \A d \in Deletes : del[d].pc \in {"idle", "cancel"}

(* Before a DELETE takes effect, the sync has nothing to do with an        *)
(* application whose deployment has not ended, and its status tells how    *)
(* far that is, but for a status that could not be written.                *)
EarlyInv ==
  /\ dep = "idle" => /\ app = "none" /\ sync.pc = "idle"
                     /\ Idle /\ ctx = "none"
  /\ dep \in {"rows", "prepare", "mark"} /\ Early
       => app = "Downloading" /\ sync.pc = "idle"
  /\ dep \in {"components", "services", "routes", "finish"}
       /\ ctx = "live" /\ Early
       => /\ sync.pc = "idle"
          /\ \/ app = "Deploying"
             \/ app = "Downloading" /\ mishaps > 0

(* A deletion at work has marked the application.                          *)
MarkedInv ==
  \A d \in Deletes :
    del[d].pc \in {"orphans", "delete", "remove", "drop"}
      => app # "Downloading"

StatusInv == DeployedInv /\ EarlyInv /\ MarkedInv

AtWork == {"orphans", "delete", "remove", "drop"}

(* An item left behind changes its own request only.                       *)
LEMMA SkippedFields ==
  ASSUME TypeOK, NEW d \in Deletes, NEW i \in Items, NEW e \in BOOLEAN
  PROVE  /\ Skipped(d, i, e)[d].pc = "delete"
         /\ Skipped(d, i, e)[d].cur = {}
         /\ Skipped(d, i, e)[d].svcs = del[d].svcs \ {i}
         /\ Skipped(d, i, e)[d].comps = del[d].comps \ {i}
         /\ \A f \in Deletes : f # d => Skipped(d, i, e)[f] = del[f]
BY DEF TypeOK, Skipped

(* What the steps of a request have in common.                             *)
LEMMA RequestMoves ==
  ASSUME TypeOK, NEW d \in Deletes, RequestStep(d) \/ DeletionStep(d)
  PROVE  /\ del[d].pc \notin {"idle", "done"}
         /\ del'[d].pc \notin {"idle", "cancel"}
         /\ \A e \in Deletes : e # d => del'[e] = del[e]
         /\ del'[d].pc \in AtWork => del[d].pc \in AtWork \/ MarkDeleting(d)
         /\ UNCHANGED <<dep, work, sync, overlap>>
         /\ UNCHANGED ctx \/ ctx' # "live"
<1> USE DEF rows, deployment, history, AtWork
<1> DEFINE Goal == /\ del[d].pc \notin {"idle", "done"}
                   /\ del'[d].pc \notin {"idle", "cancel"}
                   /\ \A e \in Deletes : e # d => del'[e] = del[e]
                   /\ del'[d].pc \in AtWork
                        => del[d].pc \in AtWork \/ MarkDeleting(d)
                   /\ UNCHANGED <<dep, work, sync, overlap>>
                   /\ UNCHANGED ctx \/ ctx' # "live"
<1>1. CASE CancelDeployment(d)
  BY <1>1 DEF CancelDeployment, TypeOK
<1>2. CASE MarkDeleting(d)
  BY <1>2 DEF MarkDeleting, Done, NoDelete, TypeOK
<1>3. CASE IdentifyOrphans(d)
  BY <1>3 DEF IdentifyOrphans, Done, NoDelete, TypeOK
<1>10. CASE NoProxyManager(d)
  BY <1>10 DEF NoProxyManager, Done, NoDelete, TypeOK
<1>4. ASSUME NEW i \in Items, ListPods(d, i) PROVE Goal
  BY <1>4 DEF ListPods, TypeOK
<1>5. ASSUME NEW i \in Items, ListPodsFails(d, i) PROVE Goal
  <2>1. PICK e \in BOOLEAN : del' = Skipped(d, i, e)
    BY <1>5 DEF ListPodsFails
  <2>2. /\ del'[d].pc = "delete"
        /\ \A f \in Deletes : f # d => del'[f] = del[f]
    BY <2>1, SkippedFields
  <2>3. del[d].pc \in {"delete", "remove", "drop"}
    BY <1>5 DEF ListPodsFails
  <2> QED BY <1>5, <2>2, <2>3 DEF ListPodsFails
<1>6. ASSUME NEW i \in Items, RemovePods(d, i) PROVE Goal
  BY <1>6 DEF RemovePods, TypeOK
<1>7. ASSUME NEW i \in Items, RemovePodsFails(d, i) PROVE Goal
  <2>1. PICK e \in BOOLEAN : del' = Skipped(d, i, e)
    BY <1>7 DEF RemovePodsFails
  <2>2. /\ del'[d].pc = "delete"
        /\ \A f \in Deletes : f # d => del'[f] = del[f]
    BY <2>1, SkippedFields
  <2>3. del[d].pc \in {"delete", "remove", "drop"}
    BY <1>7 DEF RemovePodsFails
  <2> QED BY <1>7, <2>2, <2>3 DEF RemovePodsFails
<1>8. ASSUME NEW i \in Items, DropRow(d, i) PROVE Goal
  <2>1. PICK e \in BOOLEAN : del' = Skipped(d, i, e)
    BY <1>8 DEF DropRow
  <2>2. /\ del'[d].pc = "delete"
        /\ \A f \in Deletes : f # d => del'[f] = del[f]
    BY <2>1, SkippedFields
  <2>3. del[d].pc \in {"delete", "remove", "drop"}
    BY <1>8 DEF DropRow
  <2> QED BY <1>8, <2>2, <2>3 DEF DropRow
<1>9. CASE FinishDeletion(d)
  BY <1>9 DEF FinishDeletion, Done, NoDelete, TypeOK
<1> QED BY <1>1, <1>2, <1>3, <1>4, <1>5, <1>6, <1>7, <1>8, <1>9, <1>10
    DEF RequestStep, DeletionStep

(* A request that begins.                                                  *)
LEMMA RequestBegins ==
  ASSUME TypeOK, NEW d \in Deletes, LoadForDeletion(d)
  PROVE  /\ del[d].pc = "idle" /\ del'[d].pc = "cancel"
         /\ del'[d].svcs = {s \in Services : Known(s)}
         /\ \A e \in Deletes : e # d => del'[e] = del[e]
         /\ app \notin {"none", "Deleting"}
         /\ UNCHANGED <<app, item, pod, dep, work, ctx, sync, mishaps, failed>>
BY DEF LoadForDeletion, Found, rows, deployment, TypeOK

(* The deployment and the pods leave the requests and the sync alone.      *)
LEMMA DeploymentFrame ==
  ASSUME DeploymentStep \/ \E i \in Items : \/ ItemStep(i)
                                            \/ CreationEnds(i) \/ PodChanges(i)
  PROVE  UNCHANGED <<del, sync, overlap, failed>>
<1> USE DEF rows, deployment, history
<1>1. CASE DeploymentStep
  BY <1>1 DEF DeploymentStep, InsertFails, Register, InsertItem, Prepare,
     MarkDeploying, PhaseEnds, RegisterRoutes, MarkRunning, ReportError,
     Deregister
<1>2. ASSUME NEW i \in Items, ItemStep(i)
      PROVE  UNCHANGED <<del, sync, overlap, failed>>
  BY <1>2 DEF ItemStep, StartItem, CreatePod, ItemDeployed, ItemFails
<1>3. ASSUME NEW i \in Items, CreationEnds(i) \/ PodChanges(i)
      PROVE  UNCHANGED <<del, sync, overlap, failed>>
  BY <1>3 DEF CreationEnds, PodChanges
<1> QED BY <1>1, <1>2, <1>3

(* An item's goroutine and the pods leave the application alone.           *)
LEMMA ItemFrame ==
  ASSUME TypeOK,
         NEW i \in Items, ItemStep(i) \/ CreationEnds(i) \/ PodChanges(i)
  PROVE  /\ UNCHANGED <<app, dep, ctx>>
         /\ mishaps > 0 => mishaps' > 0
BY DEF ItemStep, StartItem, CreatePod, ItemDeployed, ItemFails, CreationEnds,
   PodChanges, rows, deployment, history, DBWorks, DBFails, TypeOK

(* The sync leaves everything but the rows alone.                          *)
LEMMA SyncFrame ==
  ASSUME SyncStep
  PROVE  /\ UNCHANGED <<pod, dep, work, ctx, del, overlap, failed>>
         /\ UNCHANGED app \/ FinishSync
         /\ StartSync \/ sync.pc = "items"
<1> USE DEF rows, deployment, history
<1>1. CASE StartSync
  BY <1>1 DEF StartSync
<1>2. CASE WorkerDisconnected
  BY <1>2 DEF WorkerDisconnected
<1>3. CASE FinishSync
  BY <1>3 DEF FinishSync
<1>4. CASE \E c \in Components : SyncComponent(c)
  BY <1>4 DEF SyncComponent
<1>5. CASE \E s \in Services : SyncService(s)
  BY <1>5 DEF SyncService
<1> QED BY <1>1, <1>2, <1>3, <1>4, <1>5 DEF SyncStep

(* The cancellation of an item, and the start of a phase, each see the     *)
(* context as it is then.                                                  *)
LEMMA DeployedKept ==
  TypeOK /\ DeployedInv /\ EarlyInv /\ [Next]_vars => DeployedInv'
<1> SUFFICES ASSUME TypeOK, DeployedInv, EarlyInv, [Next]_vars
             PROVE  DeployedInv'
  OBVIOUS
<1> USE DEF rows, deployment, history, DeployedInv
<1>1. CASE InsertApplication
  BY <1>1 DEF InsertApplication
<1>2. ASSUME NEW i \in Items, InsertItem(i) PROVE DeployedInv'
  BY <1>2 DEF InsertItem
<1>3. CASE InsertFails
  BY <1>3 DEF InsertFails
<1>4. CASE Register
  BY <1>4 DEF Register, TypeOK
<1>5. CASE Prepare
  BY <1>5 DEF Prepare
<1>6. CASE MarkDeploying
  BY <1>6 DEF MarkDeploying
<1>7. ASSUME NEW i \in Items, ItemStep(i) PROVE DeployedInv'
  <2>1. UNCHANGED <<dep, ctx>>
    BY <1>7, ItemFrame
  <2>2. InPhase(i) /\ \E w \in {"create", "sent", "ok", "failed", "cancelled"} :
          /\ work' = [work EXCEPT ![i] = w]
          /\ ctx = "live" => w # "cancelled"
    BY <1>7 DEF ItemStep, StartItem, CreatePod, ItemDeployed, ItemFails
  <2>3. dep # "routes" /\ dep # "finish"
    BY <2>2 DEF InPhase
  <2>4. dep = "services" => i \notin Components
    BY <2>2 DEF InPhase
  <2>5. ctx = "live" => \A j \in Items : work'[j] # "cancelled"
    BY <2>2 DEF TypeOK
  <2>6. dep = "services" => \A c \in Components : work'[c] = work[c]
    BY <2>2, <2>4 DEF TypeOK, Items
  <2> QED BY <2>1, <2>3, <2>5, <2>6
<1>8. CASE PhaseEnds(Components, "components", "services")
  BY <1>8 DEF PhaseEnds, Returned, Items
<1>9. CASE PhaseEnds(Services, "services", "routes")
  BY <1>9 DEF PhaseEnds, Returned, Items
<1>10. CASE RegisterRoutes
  BY <1>10 DEF RegisterRoutes
<1>11. CASE MarkRunning
  BY <1>11 DEF MarkRunning
<1>12. CASE ReportError
  BY <1>12 DEF ReportError
<1>13. CASE Deregister
  BY <1>13 DEF Deregister
<1>14. ASSUME NEW i \in Items, CreationEnds(i) \/ PodChanges(i)
       PROVE  DeployedInv'
  BY <1>14 DEF CreationEnds, PodChanges
<1>15. ASSUME NEW d \in Deletes, LoadForDeletion(d) PROVE DeployedInv'
  BY <1>15, RequestBegins
<1>16. ASSUME NEW d \in Deletes, RequestStep(d) \/ DeletionStep(d)
       PROVE  DeployedInv'
  BY <1>16, RequestMoves
<1>17. CASE SyncStep
  BY <1>17, SyncFrame
<1>18. CASE Restart
  BY <1>18 DEF Restart
<1>19. CASE UNCHANGED vars
  BY <1>19 DEF vars
<1> QED BY <1>1, <1>2, <1>3, <1>4, <1>5, <1>6, <1>7, <1>8, <1>9, <1>10,
           <1>11, <1>12, <1>13, <1>14, <1>15, <1>16, <1>17, <1>18, <1>19
    DEF Next, DeploymentStep

(* Until a DELETE takes effect only the deployment writes the status.      *)
LEMMA EarlyKept ==
  TypeOK /\ DeployedInv /\ EarlyInv /\ [Next]_vars => EarlyInv'
<1> SUFFICES ASSUME TypeOK, DeployedInv, EarlyInv, [Next]_vars
             PROVE  EarlyInv'
  OBVIOUS
<1> USE DEF rows, deployment, history, EarlyInv
<1>1. CASE InsertApplication
  BY <1>1 DEF InsertApplication
<1>2. CASE DeploymentStep
  <2>1. UNCHANGED <<del, sync>>
    BY <1>2, DeploymentFrame
  <2>2. (Early' <=> Early) /\ (Idle' <=> Idle)
    BY <2>1 DEF Early, Idle
  <2>3. CASE \E i \in Items : InsertItem(i)
    BY <2>3, <2>1, <2>2 DEF InsertItem
  <2>4. CASE InsertFails
    BY <2>4 DEF InsertFails
  <2>5. CASE Register
    BY <2>5, <2>1, <2>2 DEF Register
  <2>6. CASE Prepare
    BY <2>6, <2>1, <2>2 DEF Prepare
  <2>7. CASE MarkDeploying
    BY <2>7, <2>1, <2>2 DEF MarkDeploying, DeploymentWrites, AppIs, DBFails,
                            TypeOK
  <2>8. CASE \/ PhaseEnds(Components, "components", "services")
             \/ PhaseEnds(Services, "services", "routes")
    BY <2>8, <2>1, <2>2 DEF PhaseEnds
  <2>9. CASE RegisterRoutes
    BY <2>9, <2>1, <2>2 DEF RegisterRoutes
  <2>10. CASE MarkRunning
    BY <2>10 DEF MarkRunning
  <2>11. CASE ReportError
    BY <2>11 DEF ReportError
  <2>12. CASE Deregister
    BY <2>12 DEF Deregister
  <2> QED BY <1>2, <2>3, <2>4, <2>5, <2>6, <2>7, <2>8, <2>9, <2>10, <2>11,
             <2>12 DEF DeploymentStep
<1>3. ASSUME NEW i \in Items, ItemStep(i) \/ CreationEnds(i) \/ PodChanges(i)
      PROVE  EarlyInv'
  <2>1. UNCHANGED <<del, sync>>
    BY <1>3, DeploymentFrame
  <2>2. (Early' <=> Early) /\ (Idle' <=> Idle)
    BY <2>1 DEF Early, Idle
  <2> QED BY <1>3, <2>1, <2>2, ItemFrame
<1>4. ASSUME NEW d \in Deletes, LoadForDeletion(d) PROVE EarlyInv'
  <2>1. Early' => Early
    BY <1>4, RequestBegins DEF Early
  <2> QED BY <1>4, <2>1, RequestBegins
<1>5. ASSUME NEW d \in Deletes, RequestStep(d) \/ DeletionStep(d)
      PROVE  EarlyInv'
  <2>1. ~Early' /\ ~Idle
    BY <1>5, RequestMoves DEF Early, Idle
  <2> QED BY <1>5, <2>1, RequestMoves
<1>6. CASE SyncStep
  <2>1. (Early' <=> Early) /\ (Idle' <=> Idle)
    BY <1>6, SyncFrame DEF Early, Idle
  <2>2. CASE StartSync
    BY <2>2, <2>1 DEF StartSync
  <2>3. CASE sync.pc = "items"
    BY <2>3, <2>1, <1>6, SyncFrame
  <2> QED BY <1>6, <2>2, <2>3, SyncFrame
<1>7. CASE Restart
  BY <1>7 DEF Restart
<1>8. CASE UNCHANGED vars
  BY <1>8 DEF vars, Early, Idle
<1> QED BY <1>1, <1>2, <1>3, <1>4, <1>5, <1>6, <1>7, <1>8 DEF Next

(* Nothing makes an application Downloading again.                         *)
LEMMA DownloadingIsFirst ==
  ASSUME TypeOK, [Next]_vars, ~InsertApplication, app' = "Downloading"
  PROVE  app = "Downloading"
<1> USE DEF rows, deployment, history
<1>1. CASE DeploymentStep
  BY <1>1 DEF DeploymentStep, InsertFails, Register, InsertItem, Prepare,
     MarkDeploying, PhaseEnds, RegisterRoutes, MarkRunning, ReportError,
     Deregister, DeploymentWrites, AppIs
<1>2. CASE \E i \in Items : ItemStep(i) \/ CreationEnds(i) \/ PodChanges(i)
  BY <1>2, ItemFrame
<1>3. ASSUME NEW d \in Deletes, LoadForDeletion(d) PROVE app = "Downloading"
  BY <1>3, RequestBegins
<1>4. ASSUME NEW d \in Deletes, RequestStep(d) PROVE app = "Downloading"
  BY <1>4 DEF RequestStep, CancelDeployment, MarkDeleting, IdentifyOrphans,
              NoProxyManager, AppIs
<1>5. ASSUME NEW d \in Deletes, DeletionStep(d) PROVE app = "Downloading"
  BY <1>5 DEF DeletionStep, ListPods, ListPodsFails, RemovePods,
              RemovePodsFails, DropRow, FinishDeletion, AppIs
<1>6. CASE SyncStep
  BY <1>6, SyncFrame DEF FinishSync, AppIs
<1>7. CASE Restart
  BY <1>7 DEF Restart
<1>8. CASE UNCHANGED vars
  BY <1>8 DEF vars
<1> QED BY <1>1, <1>2, <1>3, <1>4, <1>5, <1>6, <1>7, <1>8 DEF Next

(* A request gets to work by marking the application.                      *)
LEMMA MarkedKept ==
  TypeOK /\ EarlyInv /\ MarkedInv /\ [Next]_vars => MarkedInv'
<1> SUFFICES ASSUME TypeOK, EarlyInv, MarkedInv, [Next]_vars,
                    NEW e \in Deletes, del'[e].pc \in AtWork,
                    app' = "Downloading"
             PROVE  FALSE
  BY DEF MarkedInv, AtWork
<1> USE DEF rows, deployment, history
<1>0. del[e].pc \notin AtWork \/ InsertApplication
  BY DownloadingIsFirst DEF MarkedInv, AtWork
<1>1. CASE InsertApplication
  BY <1>1 DEF InsertApplication, EarlyInv, Idle, AtWork
<1>2. CASE \/ DeploymentStep
           \/ \E i \in Items : ItemStep(i) \/ CreationEnds(i) \/ PodChanges(i)
  <2>1. UNCHANGED del
    BY <1>2, DeploymentFrame
  <2> QED BY <1>0, <1>1, <2>1
<1>3. ASSUME NEW d \in Deletes, LoadForDeletion(d) PROVE FALSE
  BY <1>3, <1>0, <1>1, RequestBegins DEF AtWork
<1>4. ASSUME NEW d \in Deletes, RequestStep(d) \/ DeletionStep(d)
      PROVE  FALSE
  <2>1. e = d /\ MarkDeleting(d)
    BY <1>0, <1>1, <1>4, RequestMoves
  <2>2. AppIs("Deleting")
    BY <2>1 DEF MarkDeleting, Done, NoDelete, AtWork, TypeOK
  <2>3. app = "Downloading"
    BY <1>1, DownloadingIsFirst
  <2> QED BY <2>2, <2>3 DEF AppIs
<1>5. CASE SyncStep
  BY <1>5, <1>0, <1>1, SyncFrame
<1>6. CASE Restart
  BY <1>6 DEF Restart, AtWork, Done, NoDelete
<1>7. CASE UNCHANGED vars
  BY <1>7, <1>0, <1>1 DEF vars
<1> QED BY <1>1, <1>2, <1>3, <1>4, <1>5, <1>6, <1>7 DEF Next

(* Together they hold from the start and are kept by every step.           *)
THEOREM StatusInvariance == Spec => [](TypeOK /\ StatusInv)
<1>1. Init => StatusInv
  BY DEF Init, StatusInv, DeployedInv, EarlyInv, MarkedInv, Idle, NoDelete,
         NoSync
<1>2. TypeOK /\ StatusInv /\ [Next]_vars => StatusInv'
  BY DeployedKept, EarlyKept, MarkedKept DEF StatusInv
<1> QED BY InitTyped, NextTyped, <1>1, <1>2, PTL DEF Spec

(* A deployment says Running only if every item was deployed, although     *)
(* cancelled items are hidden from the phases that follow.                 *)
THEOREM RunningIsDeployed == Spec => RunningWasDeployed
<1>1. ASSUME TypeOK, StatusInv, [Next]_vars,
             dep = "finish", dep' = "leave", app # "Running", app' = "Running"
      PROVE  \A i \in Items : work[i] = "ok"
  <2>1. MarkRunning
    <3>1. CASE InsertApplication
      BY <1>1, <3>1 DEF InsertApplication
    <3>2. CASE DeploymentStep
      BY <1>1, <3>2 DEF DeploymentStep, InsertFails, Register, InsertItem,
         Prepare, MarkDeploying, PhaseEnds, RegisterRoutes, ReportError,
         Deregister
    <3>3. CASE \E i \in Items : ItemStep(i) \/ CreationEnds(i) \/ PodChanges(i)
      BY <1>1, <3>3, ItemFrame
    <3>4. ASSUME NEW d \in Deletes, \/ LoadForDeletion(d)
                                    \/ RequestStep(d) \/ DeletionStep(d)
          PROVE  FALSE
      BY <1>1, <3>4, RequestBegins, RequestMoves
    <3>5. CASE SyncStep
      BY <1>1, <3>5, SyncFrame
    <3>6. CASE Restart \/ UNCHANGED vars
      BY <1>1, <3>6 DEF Restart, vars
    <3> QED BY <1>1, <3>1, <3>2, <3>3, <3>4, <3>5, <3>6 DEF Next
  <2>2. ctx = "live"
    BY <1>1, <2>1 DEF MarkRunning, DeploymentWrites
  <2> QED BY <1>1, <2>2 DEF StatusInv, DeployedInv, Items
<1>2. TypeOK /\ StatusInv /\ [Next]_vars =>
        [dep = "finish" /\ dep' = "leave" /\ app # "Running" /\ app' = "Running"
           => \A i \in Items : work[i] = "ok"]_vars
  BY <1>1
<1> QED BY StatusInvariance, <1>2, PTL DEF Spec, RunningWasDeployed

(* Unless the cancellation missed the deployment, no status of the         *)
(* deployment comes back over one of a deletion, and no deletion removes a *)
(* row it did not mark.                                                    *)
THEOREM StatusIsNotOverwritten == Spec => StatusMoves
<1> DEFINE Move == ~CancelMissed /\ app' # app =>
             /\ app' = "Deploying" => app = "Downloading"
             /\ app' = "Running" => \/ app = "Deploying"
                                    \/ app = "Downloading" /\ mishaps > 0
                                    \/ sync' # sync
             /\ app' = "none" => app # "Downloading"
<1>1. ASSUME TypeOK, StatusInv, [Next]_vars PROVE Move
  <2> SUFFICES ASSUME ~CancelMissed, app' # app PROVE Move
    OBVIOUS
  <2> USE <1>1 DEF rows, deployment, history
  <2>0. ctx = "live" => Early
    BY DEF CancelMissed, Early
  <2>1. CASE InsertApplication
    BY <2>1 DEF InsertApplication
  <2>2. CASE MarkDeploying
    BY <2>0, <2>2 DEF MarkDeploying, DeploymentWrites, AppIs, StatusInv,
       EarlyInv
  <2>3. CASE MarkRunning
    BY <2>0, <2>3 DEF MarkRunning, DeploymentWrites, AppIs, StatusInv,
       EarlyInv
  <2>4. CASE ReportError
    BY <2>4 DEF ReportError, DeploymentWrites, AppIs
  <2>5. CASE DeploymentStep /\ ~MarkDeploying /\ ~MarkRunning /\ ~ReportError
    BY <2>5 DEF DeploymentStep, InsertFails, Register, InsertItem, Prepare,
       PhaseEnds, RegisterRoutes, Deregister
  <2>6. CASE \E i \in Items : ItemStep(i) \/ CreationEnds(i) \/ PodChanges(i)
    BY <2>6, ItemFrame
  <2>7. ASSUME NEW d \in Deletes, LoadForDeletion(d) PROVE Move
    BY <2>7, RequestBegins
  <2>8. ASSUME NEW d \in Deletes, RequestStep(d) PROVE Move
    BY <2>8 DEF RequestStep, CancelDeployment, MarkDeleting, IdentifyOrphans,
                NoProxyManager, AppIs
  <2>9. ASSUME NEW d \in Deletes, DeletionStep(d) PROVE Move
    <3>1. FinishDeletion(d)
      BY <2>9 DEF DeletionStep, ListPods, ListPodsFails, RemovePods,
                  RemovePodsFails, DropRow
    <3>2. app # "Downloading"
      BY <3>1 DEF FinishDeletion, StatusInv, MarkedInv
    <3> QED BY <3>1, <3>2 DEF FinishDeletion, AppIs
  <2>10. CASE SyncStep
    <3>1. FinishSync
      BY <2>10, SyncFrame
    <3>2. sync' # sync
      BY <3>1 DEF FinishSync, NoSync
    <3> QED BY <3>1, <3>2 DEF FinishSync, AppIs
  <2>11. CASE Restart \/ UNCHANGED vars
    BY <2>11 DEF Restart, vars
  <2> QED BY <2>1, <2>2, <2>3, <2>4, <2>5, <2>6, <2>7, <2>8, <2>9, <2>10,
             <2>11 DEF Next
<1>2. TypeOK /\ StatusInv /\ [Next]_vars => [Move]_vars
  BY <1>1
<1> QED BY StatusInvariance, <1>2, PTL DEF Spec, StatusMoves

---------------------------------------------------------------------------
(* The invariant behind CleanDeletion *)

Clean == mishaps = 0 /\ ~overlap /\ ~failed

Deleting(d) == del[d].pc \in {"delete", "remove", "drop"}

AllKnown == \A s \in Services : Known(s)

(* An undisturbed deletion meets a deployment that is over, and all pods   *)
(* that there are.                                                         *)
Settled ==
  ~Idle => dep = "ended" /\ \A i \in Items : pod[i] # "creating"

(* Until the first DELETE, the application and all items have rows.        *)
Recorded ==
  /\ dep # "idle" /\ Idle => app # "none"
  /\ dep \in {"idle", "rows"} => \A i \in Items : work[i] = "planned" => Known(i)
  /\ dep \notin {"idle", "rows"} /\ Idle => \A i \in Items : Known(i)

(* A row goes after its pods.                                              *)
PodsFirst == ~Idle => \A i \in Items : item[i] = "none" => pod[i] = "none"

(* A request deletes all services that are left, and components after      *)
(* them; an item's row after its pods.  As long as no service is gone, it  *)
(* has taken all components upon itself.                                   *)
RequestInv(d) ==
  /\ del[d].pc # "idle"
       => \A s \in Services : Known(s) => s \in del[d].svcs
  /\ del[d].pc = "done" => \A s \in Services : ~Known(s)
  /\ del[d].pc \in {"remove", "drop"}
       => \A i \in del[d].cur : i \in Turn(d) /\ del[d].cur = {i}
  /\ del[d].pc = "drop" \/ (del[d].pc = "remove" /\ ~del[d].saw)
       => \A i \in del[d].cur : pod[i] = "none"
  /\ Deleting(d) /\ AllKnown => del[d].comps = Components

(* Until a service is gone nobody need be in charge of a component;        *)
(* afterwards somebody is.                                                 *)
InCharge ==
  ~Idle => \A c \in Components : Known(c)
             => AllKnown \/ \E d \in Deletes : Deleting(d) /\ c \in del[d].comps

DeletionInv ==
  Clean => /\ Settled /\ Recorded /\ PodsFirst
           /\ \A d \in Deletes : RequestInv(d)
           /\ InCharge

(* Mishaps, overlaps and failures are not forgotten.                       *)
LEMMA CleanBefore == TypeOK /\ [Next]_vars /\ Clean' => Clean
<1> SUFFICES ASSUME TypeOK, [Next]_vars, Clean' PROVE Clean
  OBVIOUS
<1> USE DEF rows, deployment, history, DBWorks, DBFails, Clean, TypeOK
<1>1. CASE InsertApplication
  BY <1>1 DEF InsertApplication
<1>2. CASE DeploymentStep
  BY <1>2 DEF DeploymentStep, InsertFails, Register, InsertItem, Prepare,
     MarkDeploying, PhaseEnds, RegisterRoutes, MarkRunning, ReportError,
     Deregister, DeploymentWrites
<1>3. CASE \E i \in Items : ItemStep(i) \/ CreationEnds(i) \/ PodChanges(i)
  BY <1>3 DEF ItemStep, StartItem, CreatePod, ItemDeployed, ItemFails,
     CreationEnds, PodChanges
<1>4. ASSUME NEW d \in Deletes, LoadForDeletion(d) PROVE Clean
  BY <1>4 DEF LoadForDeletion
<1>5. ASSUME NEW d \in Deletes, RequestStep(d) PROVE Clean
  BY <1>5 DEF RequestStep, CancelDeployment, MarkDeleting, IdentifyOrphans,
              NoProxyManager
<1>6. ASSUME NEW d \in Deletes, DeletionStep(d) PROVE Clean
  <2>1. ASSUME NEW i \in Items, ListPods(d, i) PROVE Clean
    BY <2>1 DEF ListPods
  <2>2. ASSUME NEW i \in Items,
               ListPodsFails(d, i) \/ RemovePodsFails(d, i)
        PROVE  Clean
    BY <2>2 DEF ListPodsFails, RemovePodsFails
  <2>3. ASSUME NEW i \in Items, RemovePods(d, i) PROVE Clean
    <3>1. PICK errs \in {FALSE, del[d].saw} : failed' = (failed \/ errs)
      BY <2>3 DEF RemovePods
    <3>2. failed => failed'
      BY <3>1
    <3>3. UNCHANGED <<mishaps, overlap>>
      BY <2>3 DEF RemovePods
    <3> QED BY <3>2, <3>3
  <2>4. ASSUME NEW i \in Items, DropRow(d, i) PROVE Clean
    <3>1. UNCHANGED <<overlap, failed>> /\ (UNCHANGED mishaps \/ DBFails)
      BY <2>4 DEF DropRow
    <3> QED BY <3>1
  <2>5. CASE FinishDeletion(d)
    BY <2>5 DEF FinishDeletion
  <2> QED BY <1>6, <2>1, <2>2, <2>3, <2>4, <2>5 DEF DeletionStep
<1>7. CASE SyncStep
  <2>1. UNCHANGED <<overlap, failed>>
    BY <1>7, SyncFrame
  <2>2. UNCHANGED mishaps \/ DBFails
    <3>1. CASE StartSync \/ WorkerDisconnected
      BY <3>1 DEF StartSync, WorkerDisconnected
    <3>2. CASE FinishSync
      BY <3>2 DEF FinishSync
    <3>3. ASSUME NEW c \in Components, SyncComponent(c)
          PROVE  UNCHANGED mishaps \/ DBFails
      BY <3>3 DEF SyncComponent
    <3>4. ASSUME NEW s \in Services, SyncService(s)
          PROVE  UNCHANGED mishaps \/ DBFails
      BY <3>4 DEF SyncService
    <3> QED BY <1>7, <3>1, <3>2, <3>3, <3>4 DEF SyncStep
  <2> QED BY <2>1, <2>2
<1>8. CASE Restart
  BY <1>8 DEF Restart
<1>9. CASE UNCHANGED vars
  BY <1>9 DEF vars
<1> QED BY <1>1, <1>2, <1>3, <1>4, <1>5, <1>6, <1>7, <1>8, <1>9 DEF Next

(* A status written to a row leaves the row there, and makes none.         *)
LEMMA ItemStays ==
  ASSUME TypeOK, NEW i \in Items, NEW st \in ItemStatus, ItemIs(i, st)
  PROVE  \A j \in Items : (item'[j] = "none") <=> (item[j] = "none")
BY DEF TypeOK, ItemIs, ItemStatus

(* The sync makes no rows and removes none.                                *)
LEMMA SyncKeepsRows ==
  ASSUME TypeOK, SyncStep
  PROVE  /\ \A i \in Items : (item'[i] = "none") <=> (item[i] = "none")
         /\ (app' = "none") <=> (app = "none")
<1> USE DEF rows
<1>1. CASE StartSync \/ WorkerDisconnected
  BY <1>1 DEF StartSync, WorkerDisconnected
<1>2. CASE FinishSync
  BY <1>2 DEF FinishSync, AppIs
<1>3. ASSUME NEW c \in Components, SyncComponent(c)
      PROVE  /\ \A i \in Items : (item'[i] = "none") <=> (item[i] = "none")
             /\ UNCHANGED app
  <2>1. UNCHANGED item \/ \E st \in ItemStatus : ItemIs(c, st)
    BY <1>3 DEF SyncComponent, Observed, ItemStatus
  <2>2. c \in Items
    BY DEF Items
  <2> QED BY <1>3, <2>1, <2>2, ItemStays DEF SyncComponent
<1>4. ASSUME NEW s \in Services, SyncService(s)
      PROVE  /\ \A i \in Items : (item'[i] = "none") <=> (item[i] = "none")
             /\ UNCHANGED app
  <2>1. UNCHANGED item \/ \E st \in ItemStatus : ItemIs(s, st)
    BY <1>4 DEF SyncService, Observed, ItemStatus
  <2>2. s \in Items
    BY DEF Items
  <2> QED BY <1>4, <2>1, <2>2, ItemStays DEF SyncService
<1> QED BY <1>1, <1>2, <1>3, <1>4 DEF SyncStep

(* An item's goroutine makes no rows and removes none.                     *)
LEMMA ItemStepKeepsRows ==
  ASSUME TypeOK, NEW i \in Items, ItemStep(i)
  PROVE  \A j \in Items : (item'[j] = "none") <=> (item[j] = "none")
<1>1. UNCHANGED item \/ \E st \in ItemStatus : ItemIs(i, st)
  BY DEF ItemStep, StartItem, CreatePod, ItemDeployed, ItemFails, ItemStatus,
         rows
<1> QED BY <1>1, ItemStays

(* Before the first DELETE the deployment keeps all that is recorded.      *)
LEMMA RecordedKept ==
  ASSUME TypeOK, EarlyInv, Recorded, Idle, Clean',
         \/ InsertApplication \/ DeploymentStep
         \/ \E i \in Items : ItemStep(i) \/ CreationEnds(i) \/ PodChanges(i)
         \/ SyncStep
  PROVE  Recorded'
<1> USE DEF rows, deployment, history, Recorded, Known
<1>1. CASE InsertApplication
  BY <1>1 DEF InsertApplication
<1>2. CASE DeploymentStep
  <2>1. ASSUME NEW i \in Items, InsertItem(i) PROVE Recorded'
    BY <2>1 DEF InsertItem, TypeOK
  <2>2. CASE InsertFails
    BY <2>2 DEF InsertFails, DBFails, Clean, TypeOK
  <2>3. CASE Register
    BY <2>3 DEF Register
  <2>4. CASE MarkDeploying \/ MarkRunning \/ ReportError
    <3>1. (app' = "none") <=> (app = "none")
      BY <2>4 DEF MarkDeploying, MarkRunning, ReportError, DeploymentWrites,
                  AppIs
    <3>2. UNCHANGED item /\ dep \notin {"idle", "rows"}
          /\ dep' \notin {"idle", "rows"}
      BY <2>4 DEF MarkDeploying, MarkRunning, ReportError
    <3> QED BY <3>1, <3>2
  <2>5. CASE \/ Prepare \/ RegisterRoutes \/ Deregister
             \/ PhaseEnds(Components, "components", "services")
             \/ PhaseEnds(Services, "services", "routes")
    <3>1. UNCHANGED <<app, item>> /\ dep \notin {"idle", "rows"}
          /\ dep' \notin {"idle", "rows"}
      BY <2>5 DEF Prepare, RegisterRoutes, Deregister, PhaseEnds
    <3> QED BY <3>1
  <2> QED BY <1>2, <2>1, <2>2, <2>3, <2>4, <2>5 DEF DeploymentStep
<1>3. ASSUME NEW i \in Items, ItemStep(i) PROVE Recorded'
  <2>1. UNCHANGED <<app, dep>>
    BY <1>3, ItemFrame
  <2>2. dep \notin {"idle", "rows"}
    BY <1>3 DEF ItemStep, StartItem, CreatePod, ItemDeployed, ItemFails,
                InPhase
  <2> QED BY <1>3, <2>1, <2>2, ItemStepKeepsRows
<1>4. ASSUME NEW i \in Items, CreationEnds(i) \/ PodChanges(i)
      PROVE  Recorded'
  BY <1>4 DEF CreationEnds, PodChanges
<1>5. CASE SyncStep
  <2>1. UNCHANGED <<dep, work>>
    BY <1>5, SyncFrame
  <2> QED BY <1>5, <2>1, SyncKeepsRows
<1> QED BY <1>1, <1>2, <1>3, <1>4, <1>5

(* Without requests only the rows matter.                                  *)
LEMMA IdleSuffices == Idle /\ Recorded => DeletionInv
BY DEF DeletionInv, Idle, Settled, PodsFirst, RequestInv, Deleting, InCharge

(* A deployment that is over takes no step.                                *)
LEMMA DeploymentOver ==
  ASSUME dep = "ended"
  PROVE  /\ ~InsertApplication /\ ~DeploymentStep
         /\ \A i \in Items : ~ItemStep(i)
BY DEF InsertApplication, DeploymentStep, InsertFails, Register, InsertItem,
   Prepare, MarkDeploying, PhaseEnds, RegisterRoutes, MarkRunning, ReportError,
   Deregister, ItemStep, StartItem, CreatePod, ItemDeployed, ItemFails, InPhase

(* The parts of the invariant that concern the requests, while no request  *)
(* but d takes a step, rows and pods only go away and none is created.     *)
LEMMA OthersKept ==
  ASSUME TypeOK, NEW e \in Deletes, RequestInv(e),
         del'[e] = del[e],
         \A i \in Items : item[i] = "none" => item'[i] = "none",
         \A i \in Items : pod[i] = "none" => pod'[i] = "none"
  PROVE  RequestInv(e)'
<1>1. del[e].cur \subseteq Items
  BY RequestFields DEF DeleteRecord
<1>2. AllKnown' => AllKnown
  BY DEF AllKnown, Known, Items
<1> QED BY <1>1, <1>2 DEF RequestInv, Known, Turn, Deleting, Items

(* Only request d moves, and rows and pods only go away, pods first.       *)
Withdraws(d) ==
  /\ del'[d].pc # "idle"
  /\ \A e \in Deletes : e # d => del'[e] = del[e]
  /\ dep' = dep
  /\ \A i \in Items : item[i] = "none" => item'[i] = "none"
  /\ \A i \in Items : item'[i] = "none" => item[i] = "none" \/ pod'[i] = "none"
  /\ \A i \in Items : pod'[i] = pod[i] \/ pod'[i] = "none"

(* Request d gives up no component, and is in charge of all of them when   *)
(* it removes the first service.                                           *)
StaysInCharge(d) ==
  /\ \A c \in Components :
       Known(c)' /\ Deleting(d) /\ c \in del[d].comps
         => Deleting(d)' /\ c \in del'[d].comps
  /\ AllKnown => AllKnown' \/ (Deleting(d)' /\ del'[d].comps = Components)

(* What a step of request d has to show.                                   *)
LEMMA RequestSuffices ==
  ASSUME TypeOK, Clean, DeletionInv, ~Idle,
         NEW d \in Deletes, Withdraws(d), RequestInv(d)', StaysInCharge(d)
  PROVE  DeletionInv'
<1>1. Settled /\ PodsFirst /\ (\A e \in Deletes : RequestInv(e)) /\ InCharge
  BY DEF DeletionInv
<1>2. ~Idle'
  BY DEF Idle, Withdraws
<1>3. dep = "ended"
  BY <1>1 DEF Settled
<1>4. Settled'
  BY <1>1, <1>3 DEF Settled, Withdraws
<1>5. Recorded'
  BY <1>2, <1>3 DEF Recorded, Withdraws
<1>6. PodsFirst'
  BY <1>1 DEF PodsFirst, Withdraws
<1>7. ASSUME NEW e \in Deletes PROVE RequestInv(e)'
  <2>1. CASE e = d
    BY <2>1
  <2>2. CASE e # d
    <3>1. \A i \in Items : pod[i] = "none" => pod'[i] = "none"
      BY DEF Withdraws
    <3>2. \A i \in Items : item[i] = "none" => item'[i] = "none"
      BY DEF Withdraws
    <3>3. del'[e] = del[e] /\ RequestInv(e)
      BY <2>2, <1>1 DEF Withdraws
    <3> QED BY <3>1, <3>2, <3>3, OthersKept
  <2> QED BY <2>1, <2>2
<1>8. InCharge'
  <2> SUFFICES ASSUME NEW c \in Components, Known(c)', ~AllKnown'
               PROVE  \E e \in Deletes : Deleting(e)' /\ c \in del'[e].comps
    BY DEF InCharge
  <2>1. Known(c)
    BY DEF Known, Items, Withdraws
  <2>2. CASE AllKnown
    BY <2>2 DEF StaysInCharge
  <2>3. CASE ~AllKnown
    <3>1. PICK e \in Deletes : Deleting(e) /\ c \in del[e].comps
      BY <1>1, <2>1, <2>3 DEF InCharge
    <3>2. CASE e = d
      BY <3>1, <3>2 DEF StaysInCharge
    <3>3. CASE e # d
      <4>1. del'[e] = del[e]
        BY <3>3 DEF Withdraws
      <4> QED BY <3>1, <4>1 DEF Deleting
    <3> QED BY <3>2, <3>3
  <2> QED BY <2>2, <2>3
<1> QED BY <1>4, <1>5, <1>6, <1>7, <1>8 DEF DeletionInv

(* The first DELETE meets an application with all its rows.                *)
LEMMA LoadKeeps ==
  ASSUME TypeOK, EarlyInv, Clean, DeletionInv, Clean',
         NEW d \in Deletes, LoadForDeletion(d)
  PROVE  DeletionInv'
<1>1. /\ Settled /\ Recorded /\ PodsFirst /\ InCharge
      /\ \A e \in Deletes : RequestInv(e)
  BY DEF DeletionInv
<1>2. dep = "ended" /\ \A i \in Items : pod[i] # "creating"
  BY DEF LoadForDeletion, Clean
<1>3. UNCHANGED <<app, item, pod, dep, work>>
  BY RequestBegins
<1>4. ~Idle' /\ del'[d].pc = "cancel" /\ ~Deleting(d)
  BY RequestBegins DEF Idle, Deleting
<1>5. Settled' /\ Recorded'
  BY <1>2, <1>3, <1>4 DEF Settled, Recorded
<1>6. PodsFirst'
  BY <1>1, <1>2, <1>3 DEF PodsFirst, Recorded, Known
<1>7. ASSUME NEW e \in Deletes PROVE RequestInv(e)'
  <2>1. CASE e = d
    <3>1. del'[d].svcs = {s \in Services : Known(s)}
      BY RequestBegins
    <3> QED BY <2>1, <1>3, <1>4, <3>1 DEF RequestInv, Deleting, Known
  <2>2. CASE e # d
    <3>1. del'[e] = del[e] /\ RequestInv(e)
      BY <2>2, <1>1, RequestBegins
    <3> QED BY <3>1, <1>3, OthersKept
  <2> QED BY <2>1, <2>2
<1>8. InCharge'
  <2>1. CASE Idle
    <3>1. AllKnown
      BY <2>1, <1>1, <1>2 DEF Recorded, AllKnown, Items
    <3> QED BY <3>1, <1>3 DEF InCharge, AllKnown, Known
  <2>2. CASE ~Idle
    <3> SUFFICES ASSUME NEW c \in Components, Known(c)', ~AllKnown'
                 PROVE  \E e \in Deletes : Deleting(e)' /\ c \in del'[e].comps
      BY DEF InCharge
    <3>1. Known(c) /\ ~AllKnown
      BY <1>3 DEF Known, AllKnown
    <3>2. PICK e \in Deletes : Deleting(e) /\ c \in del[e].comps
      BY <1>1, <2>2, <3>1 DEF InCharge
    <3>3. del'[e] = del[e]
      BY <3>2, <1>4, RequestBegins
    <3> QED BY <3>2, <3>3 DEF Deleting
  <2> QED BY <2>1, <2>2
<1> QED BY <1>5, <1>6, <1>7, <1>8 DEF DeletionInv

(* The request that finds all services takes all components upon itself.   *)
LEMMA RequestKeeps ==
  ASSUME TypeOK, Clean, DeletionInv, Clean',
         NEW d \in Deletes, RequestStep(d)
  PROVE  DeletionInv'
<1> USE DEF rows, deployment, history
<1>0. /\ ~Idle /\ del[d].pc # "idle" /\ del'[d].pc # "idle" /\ dep' = dep
      /\ \A e \in Deletes : e # d => del'[e] = del[e]
  BY RequestMoves DEF Idle
<1>1. ~DBFails
  BY DEF DBFails, Clean
<1>2. RequestInv(d)
  BY DEF DeletionInv
<1>3. item' = item /\ pod' = pod
  BY DEF RequestStep, CancelDeployment, MarkDeleting, IdentifyOrphans,
         NoProxyManager
<1>4. AllKnown' <=> AllKnown
  BY <1>3 DEF AllKnown, Known
<1>5. CASE CancelDeployment(d) \/ MarkDeleting(d)
  <2>1. /\ del'[d].pc \in {"mark", "orphans"} /\ del'[d].svcs = del[d].svcs
        /\ del[d].pc \in {"cancel", "mark"}
    BY <1>1, <1>5 DEF CancelDeployment, MarkDeleting, TypeOK
  <2>2. RequestInv(d)'
    BY <1>0, <1>2, <1>3, <2>1 DEF RequestInv, Known, Deleting
  <2>3. ~Deleting(d)
    BY <2>1 DEF Deleting
  <2>4. Withdraws(d) /\ StaysInCharge(d)
    BY <1>0, <1>3, <1>4, <2>3 DEF Withdraws, StaysInCharge
  <2> QED BY <1>0, <2>2, <2>4, RequestSuffices
<1>6. CASE IdentifyOrphans(d)
  <2>1. /\ del'[d].pc = "delete" /\ del'[d].svcs = del[d].svcs
        /\ del'[d].comps = Orphaned(d) /\ del[d].pc = "orphans"
    BY <1>1, <1>6 DEF IdentifyOrphans, TypeOK
  <2>2. ASSUME AllKnown PROVE Orphaned(d) = Components
    <3>1. Services \subseteq del[d].svcs
      BY <1>0, <1>2, <2>2 DEF RequestInv, AllKnown
    <3>2. Candidates(d) = Components
      BY <2>2, <3>1, ComponentsServe DEF Candidates, AllKnown
    <3> QED BY <3>1, <3>2 DEF Orphaned
  <2>3. RequestInv(d)'
    BY <1>0, <1>2, <1>3, <1>4, <2>1, <2>2 DEF RequestInv, Known, Deleting
  <2>4. ~Deleting(d)
    BY <2>1 DEF Deleting
  <2>5. Withdraws(d) /\ StaysInCharge(d)
    BY <1>0, <1>3, <1>4, <2>4 DEF Withdraws, StaysInCharge
  <2> QED BY <1>0, <2>3, <2>5, RequestSuffices
<1>7. ~NoProxyManager(d)
  BY DEF NoProxyManager, Clean
<1> QED BY <1>5, <1>6, <1>7 DEF RequestStep

(* Pods go before rows, services before components, and what a request has *)
(* not deleted it keeps on its list.                                       *)
LEMMA DeletionKeeps ==
  ASSUME TypeOK, Clean, DeletionInv, Clean',
         NEW d \in Deletes, DeletionStep(d)
  PROVE  DeletionInv'
<1> USE DEF rows, deployment, history
<1>0. /\ ~Idle /\ del[d].pc # "idle" /\ del'[d].pc # "idle" /\ dep' = dep
      /\ \A e \in Deletes : e # d => del'[e] = del[e]
  BY RequestMoves DEF Idle
<1>1. ~DBFails /\ ~failed'
  BY DEF DBFails, Clean
<1>2. RequestInv(d) /\ Settled
  BY DEF DeletionInv
<1>3. /\ del[d].cur \subseteq Items /\ del[d].svcs \subseteq Services
      /\ del[d].comps \subseteq Components
  BY RequestFields DEF DeleteRecord
<1>4. ASSUME NEW i \in Items, ListPods(d, i) PROVE DeletionInv'
  <2>1. pod[i] # "creating"
    BY <1>0, <1>2 DEF Settled
  <2>2. /\ del[d].pc = "delete" /\ i \in Turn(d)
        /\ del' = [del EXCEPT ![d].pc = "remove", ![d].cur = {i},
                              ![d].saw = (pod[i] # "none")]
        /\ item' = item /\ pod' = pod
    BY <1>4, <2>1 DEF ListPods
  <2>3. /\ del'[d].pc = "remove" /\ del'[d].cur = {i}
        /\ del'[d].svcs = del[d].svcs /\ del'[d].comps = del[d].comps
        /\ ~del'[d].saw => pod[i] = "none"
    BY <2>2 DEF TypeOK
  <2>4. AllKnown' <=> AllKnown
    BY <2>2 DEF AllKnown, Known
  <2>5. RequestInv(d)'
    BY <1>2, <2>2, <2>3, <2>4 DEF RequestInv, Known, Deleting, Turn
  <2>6. Deleting(d)' /\ del'[d].comps = del[d].comps
    BY <2>3 DEF Deleting
  <2>7. Withdraws(d) /\ StaysInCharge(d)
    BY <1>0, <2>2, <2>4, <2>6 DEF Withdraws, StaysInCharge
  <2> QED BY <1>0, <2>5, <2>7, RequestSuffices
<1>5. ASSUME NEW i \in Items, RemovePods(d, i) PROVE DeletionInv'
  <2>1. /\ del[d].pc = "remove" /\ i \in del[d].cur /\ item' = item
        /\ pod' = [pod EXCEPT ![i] = IF del[d].saw THEN "none" ELSE @]
    BY <1>5 DEF RemovePods
  <2>2. /\ del'[d].pc = "drop" /\ del'[d].cur = del[d].cur
        /\ del'[d].svcs = del[d].svcs /\ del'[d].comps = del[d].comps
    BY <1>5 DEF RemovePods, TypeOK
  <2>3. AllKnown' <=> AllKnown
    BY <2>1 DEF AllKnown, Known
  <2>4. \A j \in Items : pod'[j] = pod[j] \/ pod'[j] = "none"
    BY <2>1 DEF TypeOK
  <2>5. \A j \in del[d].cur : pod'[j] = "none"
    BY <1>2, <1>3, <2>1 DEF RequestInv, TypeOK
  <2>6. RequestInv(d)'
    BY <1>2, <2>1, <2>2, <2>3, <2>5 DEF RequestInv, Known, Deleting, Turn
  <2>7. Deleting(d)' /\ del'[d].comps = del[d].comps
    BY <2>2 DEF Deleting
  <2>8. Withdraws(d) /\ StaysInCharge(d)
    BY <1>0, <2>1, <2>3, <2>4, <2>7 DEF Withdraws, StaysInCharge
  <2> QED BY <1>0, <2>6, <2>8, RequestSuffices
<1>6. ASSUME NEW i \in Items, DropRow(d, i) PROVE DeletionInv'
  <2>1. /\ del[d].pc = "drop" /\ i \in del[d].cur /\ pod' = pod
        /\ item' = [item EXCEPT ![i] = "none"]
        /\ del' = Skipped(d, i, FALSE)
    BY <1>1, <1>6 DEF DropRow
  <2>2. /\ del'[d].pc = "delete" /\ del'[d].svcs = del[d].svcs \ {i}
        /\ del'[d].comps = del[d].comps \ {i}
    BY <2>1, SkippedFields
  <2>3. pod[i] = "none" /\ i \in Turn(d)
    BY <1>2, <2>1 DEF RequestInv
  <2>4. /\ item'[i] = "none"
        /\ \A j \in Items : j # i => item'[j] = item[j]
    BY <2>1 DEF TypeOK
  <2>5. AllKnown' => AllKnown
    BY <2>4 DEF AllKnown, Known, Items
  <2>6. ASSUME AllKnown' PROVE i \in Components /\ FALSE
    <3>1. i \notin Services
      BY <2>4, <2>6 DEF AllKnown, Known
    <3>2. i \in Components /\ del[d].svcs = {}
      BY <2>3, <3>1, <1>3 DEF Items, Turn
    <3>3. Services = {}
      BY <2>5, <2>6, <3>2, <1>0, <1>2 DEF RequestInv, AllKnown
    <3> QED BY <3>2, <3>3, ComponentsServe
  <2>7. RequestInv(d)'
    <3>1. \A s \in Services : Known(s)' => Known(s) /\ s # i
      BY <2>4 DEF Known, Items
    <3> QED BY <1>0, <1>2, <2>2, <2>6, <3>1 DEF RequestInv
  <2>8. Deleting(d)'
    BY <2>2 DEF Deleting
  <2>9. AllKnown => del'[d].comps = Components
    <3>1. ASSUME AllKnown PROVE del[d].comps = Components /\ i \notin Components
      <4>1. del[d].comps = Components
        BY <3>1, <1>2, <2>1 DEF RequestInv, Deleting
      <4>2. ASSUME i \in Components PROVE FALSE
        <5>1. i \notin Services
          BY <4>2, ItemsAreDistinct
        <5>2. del[d].svcs = {}
          BY <5>1, <2>3, <1>3 DEF Turn
        <5>3. Services = {}
          BY <3>1, <5>2, <1>0, <1>2 DEF RequestInv, AllKnown
        <5> QED BY <4>2, <5>3, ComponentsServe
      <4> QED BY <4>1, <4>2
    <3> QED BY <3>1, <2>2
  <2>10. \A c \in Components : Known(c)' /\ c \in del[d].comps
            => c \in del'[d].comps
    BY <2>2, <2>4 DEF Known
  <2>11. /\ \A j \in Items : item[j] = "none" => item'[j] = "none"
         /\ \A j \in Items : item'[j] = "none" => item[j] = "none" \/ pod'[j] = "none"
    BY <2>1, <2>3, <2>4
  <2>12. Withdraws(d) /\ StaysInCharge(d)
    BY <1>0, <2>1, <2>8, <2>9, <2>10, <2>11 DEF Withdraws, StaysInCharge
  <2> QED BY <1>0, <2>7, <2>12, RequestSuffices
<1>7. CASE FinishDeletion(d)
  <2>1. del[d].svcs = {} /\ del[d].comps = {} /\ pod' = pod
    BY <1>7 DEF FinishDeletion, Turn
  <2>2. \A s \in Services : item[s] = "none"
    BY <1>0, <1>2, <2>1 DEF RequestInv, Known
  <2>3. \A j \in Items : item'[j] = item[j]
    BY <1>7, <2>2 DEF FinishDeletion, TypeOK
  <2>4. del'[d].pc = "done" /\ del'[d].svcs = {}
    BY <1>7 DEF FinishDeletion, Done, NoDelete, TypeOK
  <2>5. RequestInv(d)'
    BY <2>2, <2>3, <2>4 DEF RequestInv, Known, Deleting, Items
  <2>6. AllKnown' <=> AllKnown
    BY <2>3 DEF AllKnown, Known, Items
  <2>7. Withdraws(d) /\ StaysInCharge(d)
    BY <1>0, <2>1, <2>3, <2>6 DEF Withdraws, StaysInCharge
  <2> QED BY <1>0, <2>5, <2>7, RequestSuffices
<1> QED BY <1>1, <1>4, <1>5, <1>6, <1>7
    DEF DeletionStep, ListPodsFails, RemovePodsFails

(* The sync and the pods touch nothing a deletion relies on.               *)
LEMMA OutsideKeeps ==
  ASSUME TypeOK, Clean, DeletionInv, ~Idle,
         SyncStep \/ \E i \in Items : CreationEnds(i) \/ PodChanges(i)
  PROVE  DeletionInv'
<1> USE DEF rows, deployment, history
<1>1. /\ Settled /\ PodsFirst /\ (\A e \in Deletes : RequestInv(e)) /\ InCharge
  BY DEF DeletionInv
<1>2. dep = "ended" /\ \A i \in Items : pod[i] # "creating"
  BY <1>1 DEF Settled
<1>3. del' = del /\ dep' = dep
  BY SyncFrame DEF CreationEnds, PodChanges
<1>4. \A i \in Items : (item'[i] = "none") <=> (item[i] = "none")
  BY SyncKeepsRows DEF CreationEnds, PodChanges
<1>5. \A i \in Items : /\ (pod'[i] = "none") <=> (pod[i] = "none")
                       /\ pod'[i] # "creating"
  <2>1. CASE SyncStep
    BY <2>1, <1>2, SyncFrame
  <2>2. ASSUME NEW i \in Items, PodChanges(i)
        PROVE  \A j \in Items : /\ (pod'[j] = "none") <=> (pod[j] = "none")
                                /\ pod'[j] # "creating"
    BY <2>2, <1>2 DEF PodChanges, TypeOK
  <2> QED BY <2>1, <2>2, <1>2 DEF CreationEnds
<1>6. Idle' <=> Idle
  BY <1>3 DEF Idle
<1>7. AllKnown' <=> AllKnown
  BY <1>4 DEF AllKnown, Known, Items
<1>8. Settled' /\ Recorded' /\ PodsFirst'
  BY <1>1, <1>2, <1>3, <1>4, <1>5, <1>6 DEF Settled, Recorded, PodsFirst
<1>9. ASSUME NEW e \in Deletes PROVE RequestInv(e)'
  BY <1>1, <1>3, <1>4, <1>5, OthersKept
<1>10. InCharge'
  BY <1>1, <1>3, <1>4, <1>6, <1>7 DEF InCharge, Known, Deleting, Items
<1> QED BY <1>8, <1>9, <1>10 DEF DeletionInv

(* Every step keeps the invariant.                                         *)
LEMMA DeletionKept ==
  TypeOK /\ EarlyInv /\ DeletionInv /\ [Next]_vars => DeletionInv'
<1> SUFFICES ASSUME TypeOK, EarlyInv, DeletionInv, [Next]_vars, Clean'
             PROVE  DeletionInv'
  BY DEF DeletionInv
<1>1. Clean
  BY CleanBefore
<1>2. Settled /\ Recorded
  BY <1>1 DEF DeletionInv
<1>3. ASSUME Idle,
             \/ InsertApplication \/ DeploymentStep
             \/ \E i \in Items : ItemStep(i) \/ CreationEnds(i) \/ PodChanges(i)
             \/ SyncStep
      PROVE  DeletionInv'
  <2>1. del' = del
    BY <1>3, DeploymentFrame, SyncFrame DEF InsertApplication
  <2>2. Recorded' /\ Idle'
    BY <1>2, <1>3, <2>1, RecordedKept DEF Idle
  <2> QED BY <2>2 DEF DeletionInv, Idle, Settled, PodsFirst, RequestInv,
                      Deleting, InCharge
<1>4. ASSUME ~Idle, \/ InsertApplication \/ DeploymentStep
                    \/ \E i \in Items : ItemStep(i)
      PROVE  FALSE
  BY <1>2, <1>4, DeploymentOver DEF Settled
<1>5. ASSUME ~Idle, SyncStep \/ \E i \in Items : CreationEnds(i) \/ PodChanges(i)
      PROVE  DeletionInv'
  BY <1>1, <1>5, OutsideKeeps
<1>6. ASSUME NEW d \in Deletes, LoadForDeletion(d) PROVE DeletionInv'
  BY <1>1, <1>6, LoadKeeps
<1>7. ASSUME NEW d \in Deletes, RequestStep(d) PROVE DeletionInv'
  BY <1>1, <1>7, RequestKeeps
<1>8. ASSUME NEW d \in Deletes, DeletionStep(d) PROVE DeletionInv'
  BY <1>1, <1>8, DeletionKeeps
<1>9. ~Restart
  BY <1>1 DEF Restart, Clean, TypeOK
<1>10. CASE UNCHANGED vars
  BY <1>10 DEF vars, DeletionInv, Clean, Idle, Settled, Recorded, PodsFirst,
     RequestInv, Deleting, InCharge, AllKnown, Known, Turn
<1> QED BY <1>3, <1>4, <1>5, <1>6, <1>7, <1>8, <1>9, <1>10 DEF Next

(* The invariant of deletions that nothing disturbs.                       *)
THEOREM DeletionInvariance == Spec => [](TypeOK /\ StatusInv /\ DeletionInv)
<1>1. Init => DeletionInv
  BY DEF Init, DeletionInv, Idle, NoDelete, Settled, Recorded, PodsFirst,
     RequestInv, Deleting, InCharge, NoWork
<1>2. TypeOK /\ StatusInv /\ DeletionInv /\ [Next]_vars => DeletionInv'
  BY DeletionKept DEF StatusInv
<1> QED BY StatusInvariance, <1>1, <1>2, PTL DEF Spec

(* A deletion that met no error, no restart, no running deployment and no  *)
(* pod still being created leaves neither pods nor rows, however many      *)
(* requests raced for it and whatever the sync wrote meanwhile.            *)
THEOREM DeletionIsClean == Spec => []CleanDeletion
<1>1. ASSUME TypeOK, DeletionInv PROVE CleanDeletion
  <2> SUFFICES ASSUME Quiet, app = "none", Clean
               PROVE  \A i \in Items : pod[i] = "none" /\ item[i] = "none"
    BY DEF CleanDeletion, Clean
  <2>1. /\ Recorded /\ PodsFirst /\ InCharge
        /\ \A d \in Deletes : RequestInv(d)
    BY <1>1 DEF DeletionInv
  <2>2. dep = "ended" /\ \A d \in Deletes : del[d].pc \in {"idle", "done"}
    BY DEF Quiet
  <2>3. ~Idle
    BY <2>1, <2>2 DEF Recorded
  <2>4. PICK d \in Deletes : del[d].pc = "done"
    BY <2>2, <2>3 DEF Idle
  <2>5. \A s \in Services : ~Known(s)
    BY <2>1, <2>4 DEF RequestInv
  <2>6. ASSUME NEW c \in Components PROVE ~Known(c)
    <3>1. \A e \in Deletes : ~Deleting(e)
      BY <2>2 DEF Deleting
    <3>2. ASSUME Known(c) PROVE AllKnown
      BY <2>1, <2>3, <3>1, <3>2 DEF InCharge
    <3>3. ASSUME AllKnown PROVE FALSE
      BY <2>5, <3>3, ComponentsServe DEF AllKnown
    <3> QED BY <3>2, <3>3
  <2>7. \A i \in Items : item[i] = "none"
    BY <2>5, <2>6 DEF Known, Items
  <2> QED BY <2>1, <2>3, <2>7 DEF PodsFirst
<1> QED BY DeletionInvariance, <1>1, PTL
=============================================================================
