---------------------------- MODULE Datasources ----------------------------
(***************************************************************************)
(* One datasource of the catalog and the copies of its credentials         *)
(* (datasource_service.go, connector_repo.go, service_dependency_repo.go): *)
(* the row with the credentials, the links to the services of an           *)
(* application, and the connector each linked digitize pod keeps, which    *)
(* the API server reaches through the worker (client/service.go).  The     *)
(* sync job tests the stored credentials and writes the status.            *)
(*                                                                         *)
(* Credentials are the set of updates they contain, each of a field of its *)
(* own; the source may at any time insist on one of them.                  *)
(*                                                                         *)
(* No request holds a lock: each reads, tests, writes and calls the pods   *)
(* in steps of its own.                                                    *)
(***************************************************************************)
EXTENDS Naturals, FiniteSets

CONSTANTS
  Services,     \* the services that accept datasources
  Updates, Connects, Disconnects, Deletes,   \* the requests
  Rotations,    \* the updates the source comes to insist on
  MaxInFlight,  \* bound: requests under way at once
  MaxMishaps,   \* bound: lost calls and answers, failed writes, restarts
  None

Requests == Updates \cup Connects \cup Disconnects \cup Deletes
Credentials == SUBSET Updates

ASSUME DatasourcesAssumption ==
  /\ {MaxInFlight, MaxMishaps} \subseteq Nat /\ Rotations \subseteq Updates
  /\ None \notin Services \cup Requests
  /\ \A S \in Credentials : S # None
  /\ Updates \cap (Connects \cup Disconnects \cup Deletes) = {}
  /\ Connects \cap (Disconnects \cup Deletes) = {}
  /\ Disconnects \cap Deletes = {}

VARIABLES
  creds,    \* connectors.metadata; None once the row is deleted
  status,   \* connectors.status
  links,    \* service_dependencies
  pod,      \* the credentials of each pod's connector, None without one
  leaving,  \* pods whose connector is being deleted
  required, \* the updates the source insists on
  pc,       \* where each request is
  held,     \* the credentials it works with
  todo,     \* the services it has yet to deal with
  at,       \* the service whose call was made, or has to be made again
  job,      \* where the sync job is,
  verdict,  \* and the outcome of its test
  unsure,   \* history: services on which a call or a write failed, a
            \* restart cut a request off, or requests crossed
  stale,    \* history: services served last with other credentials
  kept,     \* history: updates written when no other one was about to write
  mishaps

row == <<creds, status, kept>>
requests == <<pc, held, todo, at>>
jobVars == <<job, verdict>>
history == <<unsure, stale>>
vars == <<row, links, pod, leaving, required, requests, jobVars, history,
          mishaps>>

TypeOK ==
  /\ creds \in Credentials \cup {None}
  /\ {status, verdict} \subseteq {"connected", "offline"}
  /\ links \subseteq Services
  /\ pod \in [Services -> Credentials \cup {None}]
  /\ leaving \subseteq {s \in Services : pod[s] # None}
  /\ required \subseteq Rotations
  /\ pc \in [Requests -> {"start", "persisting", "querying",
                          "sending", "recording", "committing", "done"}]
  /\ held \in [Requests -> Credentials \cup {None}]
  /\ todo \in [Requests -> SUBSET Services]
  /\ at \in [Requests -> Services \cup {None}]
  /\ job \in {"idle", "writing"}
  /\ unsure \subseteq Services /\ stale \subseteq Services
  /\ kept \subseteq Updates
  /\ mishaps \in 0..MaxMishaps

(* CreateDatasource has tested the first credentials and inserted the row. *)
Init ==
  /\ creds = {} /\ status = "connected" /\ links = {} /\ required = {}
  /\ pod = [s \in Services |-> None] /\ leaving = {}
  /\ pc = [r \in Requests |-> "start"]
  /\ held = [r \in Requests |-> None] /\ at = held
  /\ todo = [r \in Requests |-> {}]
  /\ job = "idle" /\ verdict = "offline"
  /\ unsure = {} /\ stale = {} /\ kept = {} /\ mishaps = 0
-----------------------------------------------------------------------------
Mishap == mishaps < MaxMishaps /\ mishaps' = mishaps + 1

InFlight(r) == pc[r] \notin {"start", "done"}
Quiet == \A r \in Requests : ~InFlight(r)

(* A request for a datasource that exists *)
Starts(r) ==
  /\ pc[r] = "start" /\ creds # None
  /\ Cardinality({q \in Requests : InFlight(q)}) < MaxInFlight

GoTo(r, place) == pc' = [pc EXCEPT ![r] = place]

Answer(r) ==
  /\ GoTo(r, "done")
  /\ held' = [held EXCEPT ![r] = None]
  /\ todo' = [todo EXCEPT ![r] = {}]
  /\ at' = [at EXCEPT ![r] = None]

(* The next service, or the answer *)
Forward(r, s) ==
  IF todo[r] = {s} THEN Answer(r)
  ELSE /\ GoTo(r, "sending")
       /\ todo' = [todo EXCEPT ![r] = @ \ {s}]
       /\ at' = [at EXCEPT ![r] = None]
       /\ UNCHANGED held

(* Serializable isolation: a delete that has begun fails when another
   statement writes the row.  It does not see the rows that statements
   outside of such a transaction insert elsewhere. *)
RowWritten(r, place) ==
  pc' = [q \in Requests |-> IF q = r THEN place
                            ELSE IF pc[q] = "committing" THEN "done"
                            ELSE pc[q]]

Serves(s) == pod[s] # None /\ s \notin leaving

(* History: request r has given s its credentials. *)
Mark(r, s) ==
  stale' = IF held[r] = creds THEN stale \ {s} ELSE stale \cup {s}
-----------------------------------------------------------------------------
(* UpdateDatasource *)

(* Mutant: the fields of the request are not merged with the others. *)
LoadUnmerged(u) ==
  /\ Starts(u) /\ required \subseteq {u}
  /\ held' = [held EXCEPT ![u] = {u}]
  /\ GoTo(u, "persisting")
  /\ UNCHANGED <<row, links, pod, leaving, required, todo, at, jobVars,
                 history, mishaps>>

(* The row is read, the field is merged in and the outcome is tested.  The
   source may change its mind later, the row may too. *)
UpdateLoad(u) ==
  /\ Starts(u) /\ required \subseteq creds \cup {u}
  /\ held' = [held EXCEPT ![u] = creds \cup {u}]
  /\ GoTo(u, "persisting")
  /\ UNCHANGED <<row, links, pod, leaving, required, todo, at, jobVars,
                 history, mishaps>>

Overlapped(u) == \E v \in Updates \ {u} : pc[v] = "persisting"

(* connectorRepo.Update, whatever the row says by now *)
Persist(u) ==
  /\ pc[u] = "persisting" /\ creds # None
  /\ creds' = held[u] /\ status' = "connected"
  /\ kept' = IF Overlapped(u) THEN kept ELSE kept \cup {u}
  /\ RowWritten(u, "querying")
  /\ UNCHANGED <<links, pod, leaving, required, held, todo, at, jobVars,
                 history, mishaps>>

(* propagateCredentials: GetLinkedServiceEndpoints, whose failure is
   reported in the response *)
Query(u) ==
  /\ pc[u] = "querying"
  /\ \/ /\ links # {} /\ GoTo(u, "sending")
        /\ todo' = [todo EXCEPT ![u] = links]
        /\ UNCHANGED <<held, at, unsure, mishaps>>
     \/ links = {} /\ Answer(u) /\ UNCHANGED <<unsure, mishaps>>
     \/ Mishap /\ Answer(u) /\ unsure' = unsure \cup links
  /\ UNCHANGED <<row, links, pod, leaving, required, jobVars, stale>>

Turn(u) == IF at[u] = None THEN todo[u] ELSE {at[u]}

(* Mutant: the fields of the request instead of the merged ones. *)
PutDelta(u) ==
  /\ pc[u] = "sending" /\ u \in Updates
  /\ \E s \in Turn(u) :
       /\ Serves(s)
       /\ pod' = [pod EXCEPT ![s] = @ \cup {u}]
       /\ Mark(u, s)
       /\ Forward(u, s)
  /\ UNCHANGED <<row, links, leaving, required, jobVars, unsure, mishaps>>

(* propagateToService and UpdateConnector: PUT replaces every updatable
   field of the pod's copy. *)
Put(u) ==
  /\ pc[u] = "sending" /\ u \in Updates
  /\ \E s \in Turn(u) :
       /\ Serves(s)
       /\ pod' = [pod EXCEPT ![s] = held[u]]
       /\ Mark(u, s)
       /\ Forward(u, s)
  /\ UNCHANGED <<row, links, leaving, required, jobVars, unsure, mishaps>>

(* No such connector (404), one that is being deleted (409), or a lost call
   or answer.  The second failure is reported in the response. *)
PutFails(u) ==
  /\ pc[u] = "sending" /\ u \in Updates
  /\ \E s \in Turn(u) :
       /\ \/ ~Serves(s) /\ UNCHANGED <<pod, stale, mishaps>>
          \/ Mishap /\ UNCHANGED <<pod, stale>>
          \/ /\ Mishap /\ Serves(s) /\ Mark(u, s)
             /\ pod' = [pod EXCEPT ![s] = held[u]]
       /\ IF at[u] = None
          THEN at' = [at EXCEPT ![u] = s] /\ UNCHANGED <<pc, held, todo, unsure>>
          ELSE Forward(u, s) /\ unsure' = unsure \cup {s}
  /\ UNCHANGED <<row, links, leaving, required, jobVars>>
-----------------------------------------------------------------------------
(* ConnectDatasourcesToApplication *)

ConnectLoad(k) ==
  /\ Starts(k)
  /\ held' = [held EXCEPT ![k] = creds]
  /\ todo' = [todo EXCEPT ![k] = Services]
  /\ GoTo(k, "sending")
  /\ UNCHANGED <<row, links, pod, leaving, required, at, jobVars, history,
                 mishaps>>

(* Connect: POST creates the connector.  A conflict (409) counts as success,
   also when it comes from a connector that is being deleted. *)
Post(k) ==
  /\ pc[k] = "sending" /\ k \in Connects
  /\ \E s \in todo[k] :
       /\ IF pod[s] = None
          THEN pod' = [pod EXCEPT ![s] = held[k]] /\ Mark(k, s)
          ELSE UNCHANGED <<pod, stale>>
       /\ at' = [at EXCEPT ![k] = s]
       /\ unsure' = IF s \in leaving \/ \E d \in Disconnects : s \in todo[d]
                    THEN unsure \cup {s} ELSE unsure
  /\ GoTo(k, "recording")
  /\ UNCHANGED <<row, links, leaving, required, held, todo, jobVars, mishaps>>

(* The call or its answer is lost: the request ends, with an error. *)
PostFails(k) ==
  /\ pc[k] = "sending" /\ k \in Connects /\ Mishap
  /\ \E s \in todo[k] :
       /\ \/ UNCHANGED <<pod, stale>>
          \/ /\ pod[s] = None /\ Mark(k, s)
             /\ pod' = [pod EXCEPT ![s] = held[k]]
       /\ unsure' = unsure \cup {s}
  /\ Answer(k)
  /\ UNCHANGED <<row, links, leaving, required, jobVars>>

(* A delete has begun, or is through. *)
Deleting == creds = None \/ \E x \in Deletes : pc[x] = "committing"

(* AddDependency; a failure is logged, and the request goes on. *)
Record(k) ==
  LET s == at[k] IN
  /\ pc[k] = "recording" /\ k \in Connects
  /\ \/ /\ links' = links \cup {s} /\ UNCHANGED mishaps
        /\ unsure' = IF Deleting THEN unsure \cup {s} ELSE unsure
     \/ Mishap /\ unsure' = unsure \cup {s} /\ UNCHANGED links
  /\ stale' = IF held[k] = creds THEN stale ELSE stale \cup {s}
  /\ Forward(k, s)
  /\ UNCHANGED <<row, pod, leaving, required, jobVars>>
-----------------------------------------------------------------------------
(* DisconnectDatasourcesFromApplication *)

DisconnectLoad(d) ==
  /\ Starts(d) /\ links # {}
  /\ todo' = [todo EXCEPT ![d] = links]
  /\ GoTo(d, "sending")
  /\ UNCHANGED <<row, links, pod, leaving, required, held, at, jobVars,
                 history, mishaps>>

(* DELETE marks the pod's connector delete pending; without one, its 404 is
   a success. *)
Leave(s) == leaving' = IF pod[s] = None THEN leaving ELSE leaving \cup {s}

Detach(d) ==
  /\ pc[d] = "sending" /\ d \in Disconnects
  /\ \E s \in todo[d] :
       /\ Leave(s)
       /\ at' = [at EXCEPT ![d] = s]
       /\ unsure' = IF \E k \in Connects : at[k] = s
                    THEN unsure \cup {s} ELSE unsure
  /\ GoTo(d, "recording")
  /\ UNCHANGED <<row, links, pod, required, held, todo, jobVars, stale,
                 mishaps>>

DetachFails(d) ==
  /\ pc[d] = "sending" /\ d \in Disconnects /\ Mishap
  /\ \E s \in todo[d] :
       (Leave(s) \/ UNCHANGED leaving) /\ unsure' = unsure \cup {s}
  /\ Answer(d)
  /\ UNCHANGED <<row, links, pod, required, jobVars, stale>>

(* RemoveDependency; a failure is logged. *)
Remove(d) ==
  /\ pc[d] = "recording" /\ d \in Disconnects
  /\ \/ links' = links \ {at[d]} /\ UNCHANGED <<unsure, mishaps>>
     \/ Mishap /\ unsure' = unsure \cup {at[d]} /\ UNCHANGED links
  /\ Forward(d, at[d])
  /\ UNCHANGED <<row, pod, leaving, required, jobVars, stale>>
-----------------------------------------------------------------------------
(* Mutant: the links are not counted. *)
GuardBlind(x) ==
  /\ Starts(x) /\ GoTo(x, "committing")
  /\ UNCHANGED <<row, links, pod, leaving, required, held, todo, at, jobVars,
                 history, mishaps>>

(* DeleteIfUnlinked, a transaction: the guard reads, the commit deletes. *)

Guard(x) ==
  /\ Starts(x) /\ links = {}
  /\ GoTo(x, "committing")
  /\ UNCHANGED <<row, links, pod, leaving, required, held, todo, at, jobVars,
                 history, mishaps>>

Commit(x) ==
  /\ pc[x] = "committing" /\ creds # None
  /\ creds' = None
  /\ RowWritten(x, "done")
  /\ UNCHANGED <<status, kept, links, pod, leaving, required, held, todo, at,
                 jobVars, history, mishaps>>

(* An update whose write fails, also for want of a row, or a delete whose
   transaction does, has changed nothing. *)
Refuse(r) ==
  /\ pc[r] \in {"persisting", "committing"}
  /\ Answer(r)
  /\ UNCHANGED <<row, links, pod, leaving, required, jobVars, history,
                 mishaps>>
-----------------------------------------------------------------------------
(* ConnectorSyncJob *)

(* GetByID and TestConnection, which credentials that are in order may fail
   too *)
JobTest ==
  /\ job = "idle" /\ creds # None
  /\ \/ /\ verdict' = IF required \subseteq creds THEN "connected"
                      ELSE "offline"
        /\ UNCHANGED mishaps
     \/ Mishap /\ verdict' = "offline"
  /\ job' = "writing"
  /\ UNCHANGED <<row, links, pod, leaving, required, requests, history>>

(* Mutant: only failures are written. *)
JobWriteFailure ==
  /\ job = "writing" /\ job' = "idle" /\ verdict' = "offline"
  /\ IF creds # None /\ verdict = "offline"
     THEN status' = verdict /\ RowWritten(None, "done")
     ELSE UNCHANGED <<status, pc>>
  /\ UNCHANGED <<creds, kept, links, pod, leaving, required, held, todo, at,
                 history, mishaps>>

(* UpdateStatus, whatever the row says by now; a failure is logged. *)
JobWrite ==
  /\ job = "writing" /\ job' = "idle" /\ verdict' = "offline"
  /\ \/ /\ creds # None /\ status' = verdict /\ RowWritten(None, "done")
        /\ UNCHANGED mishaps
     \/ creds = None /\ UNCHANGED <<status, pc, mishaps>>
     \/ Mishap /\ UNCHANGED <<status, pc>>
  /\ UNCHANGED <<creds, kept, links, pod, leaving, required, held, todo, at,
                 history>>
-----------------------------------------------------------------------------
(* The teardown of a pod's connector succeeds. *)
PodDrops(s) ==
  /\ s \in leaving
  /\ pod' = [pod EXCEPT ![s] = None] /\ leaving' = leaving \ {s}
  /\ UNCHANGED <<row, links, required, requests, jobVars, history, mishaps>>

(* The owner of the source replaces a credential. *)
Rotate(u) ==
  /\ u \in Rotations \ required /\ required' = required \cup {u}
  /\ UNCHANGED <<row, links, pod, leaving, requests, jobVars, history, mishaps>>

(* The API server restarts: nothing resumes a request. *)
Restart ==
  /\ Mishap
  /\ pc' = [r \in Requests |-> IF InFlight(r) THEN "done" ELSE pc[r]]
  /\ unsure' = unsure \cup (UNION {todo[r] : r \in Requests})
                      \cup (IF \E u \in Updates : pc[u] = "querying"
                            THEN links ELSE {})
  /\ held' = [r \in Requests |-> None] /\ at' = held'
  /\ todo' = [r \in Requests |-> {}]
  /\ job' = "idle" /\ verdict' = "offline"
  /\ UNCHANGED <<row, links, pod, leaving, required, stale>>

JobStep == JobTest \/ JobWrite

Next ==
  \/ \E u \in Updates :
       \/ UpdateLoad(u) \/ Persist(u) \/ Query(u)
       \/ Put(u) \/ PutFails(u) \/ Rotate(u)
  \/ \E k \in Connects : ConnectLoad(k) \/ Post(k) \/ PostFails(k) \/ Record(k)
  \/ \E d \in Disconnects :
       DisconnectLoad(d) \/ Detach(d) \/ DetachFails(d) \/ Remove(d)
  \/ \E x \in Deletes : Guard(x) \/ Commit(x)
  \/ \E r \in Requests : Refuse(r)
  \/ \E s \in Services : PodDrops(s)
  \/ JobStep \/ Restart

Spec == Init /\ [][Next]_vars

(* The ticker of the sync job goes on; requests, the source and the
   teardowns of the pods need not. *)
FairSpec == Spec /\ WF_vars(JobStep)
-----------------------------------------------------------------------------
(* With no request under way the links tell which pods hold the datasource:
   no connector is left behind where the datasource is not linked, no link
   leads to a pod without one, and a deleted datasource has no link.
   Excepted are services on which a call or a write failed, also a write of
   a link that is only logged, or that a restart kept a request from; and
   those where a connect met a disconnect or a delete, or took the conflict
   with a connector that was being deleted for a success.  That "a concurrent link cannot
   slip between the guard and the delete" (datasource_service.go:262-264) is
   more than the code does: AddDependency is no part of a serializable
   transaction. *)
LinksAgree ==
  Quiet => /\ \A s \in Services \ unsure : s \in links <=> Serves(s)
           /\ creds = None => links \subseteq unsure

(* With no request under way every linked pod has the credentials of the
   row, however updates and connects interleaved.  Excepted are the services
   LinksAgree excepts, on some of which nobody is told of anything: after a
   restart or a failed write of a link, and where a connect crossed a
   disconnect or a delete, so that every call was answered with success and
   the link leads to a pod that drops its copy.  Excepted too are services
   that a request dealt with last while it held credentials older than the
   row's. *)
CopiesAgree ==
  Quiet /\ creds # None =>
    \A s \in links \ (unsure \cup stale) : pod[s] = creds

(* The row keeps the field of an update unless another update, which had
   read the row before, was about to write it: Update replaces the whole
   metadata (connector_repo.go:388), although it is announced as "a partial
   update" (connector_repo.go:74), and UpdateDatasource merges with what it
   read before its test. *)
UpdatesAreKept == creds # None => kept \subseteq creds

(* The status comes to tell whether the source accepts the stored
   credentials, although the sync job writes the outcome of a test of those
   it read earlier over the status an update has set since. *)
StatusSettles ==
  <>[](creds = None \/ (status = "connected" <=> required \subseteq creds))

=============================================================================
