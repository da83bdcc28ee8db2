--------------------------- MODULE WorkerRegistry ---------------------------
(***************************************************************************)
(* The control plane's worker registry: the in-memory map of connected     *)
(* workers, the workers table of the database, the bootstrap tokens, and   *)
(* every handler that touches them: the Register RPC, the CommandStream    *)
(* RPC, the two HTTP operations on workers and the heartbeat sweeper.      *)
(*                                                                         *)
(* A handler is a process.  It is cut into one action for each stretch of  *)
(* code between two of its synchronisation points: the registry lock and   *)
(* the calls to the database.  Everything in between is local to the       *)
(* handler, so the cuts are all the places where handlers interleave.      *)
(***************************************************************************)
EXTENDS Naturals, FiniteSets

CONSTANTS
  Workers,       \* worker names, up to case
  LocalWorker,   \* the reserved name of the co-located worker
  Entries,       \* WorkerEntry objects the control plane may allocate
  Rows,          \* UUIDs of rows of the workers table
  Tokens,        \* bootstrap tokens
  Streams,       \* CommandStream RPCs that may be open at the same time
  Joins,         \* Register RPCs that may be in progress at the same time
  Admins,        \* HTTP requests on workers that may be in progress
  None,
  AppRows,       \* rows that applications may reference
  MaxRestarts,   \* bound on control-plane restarts
  MaxDBFaults    \* bound on failed database calls

ASSUME NoneIsNothing ==
  None \notin Workers \cup Entries \cup Rows \cup Tokens

ASSUME BoundsAreNaturals ==
  MaxRestarts \in Nat /\ MaxDBFaults \in Nat

VARIABLES
  workers,   \* Registry.workers: name -> entry, None when absent
  entry,     \* the WorkerEntry objects; .token is a history field
  row,       \* the workers table; .apps says an application references the row
  token,     \* TokenStore.tokens
  cert,      \* workers that hold a client certificate signed by the gateway
  stream,    \* CommandStream handlers
  beat,      \* heartbeat write in progress in the stream's recvLoop
  join,      \* Register handlers
  admin,     \* CreateWorker and DeleteWorker handlers
  sweep,     \* rows the sweeper has decided to mark, read in one query
  restarts, faults

vars == <<workers, entry, row, token, cert, stream, beat, join, admin, sweep,
          restarts, faults>>

---------------------------------------------------------------------------
(* State *)

Status == {"absent", "pending", "ready", "disconnected"}

NewEntry  == [name |-> None, dbid |-> None, open |-> TRUE, token |-> None]
NewRow    == [name |-> None, status |-> "absent", beat |-> "none",
              apps |-> FALSE]
NewToken  == [worker |-> None, state |-> "unissued"]
NoStream  == [pc |-> "idle", name |-> None, entry |-> None, row |-> None,
              up |-> FALSE]
NoJoin    == [pc |-> "idle", name |-> None, token |-> None, entry |-> None,
              row |-> None]
NoRequest == [pc |-> "idle", name |-> None, row |-> None, entry |-> None]

EntryObject ==
  [name : Workers \cup {None}, dbid : Rows \cup {None}, open : BOOLEAN,
   token : Tokens \cup {None}]

WorkerRow ==
  [name : Workers \cup {None}, status : Status,
   beat : {"none", "fresh", "stale"}, apps : BOOLEAN]

TokenRecord ==
  {t \in [worker : Workers \cup {None},
          state : {"unissued", "issued", "used", "dead"}] :
     t.state # "unissued" => t.worker \in Workers}

(* The local variables of a handler, with what they hold at each of its    *)
(* program points.                                                         *)
StreamHandler ==
  {h \in [pc : {"idle", "lookup", "insert", "ready", "first", "firstbeat",
                "serving", "leaving"},
          name : Workers \cup {None}, entry : Entries \cup {None},
          row : Rows \cup {None}, up : BOOLEAN] :
     /\ h.pc # "idle" => h.name \in Workers
     /\ h.pc \in {"insert", "ready"} => h.row \in Rows
     /\ h.pc \in {"ready", "first", "firstbeat", "serving"} =>
          h.entry \in Entries}

JoinHandler ==
  {h \in [pc : {"idle", "insert", "upsert", "setid"}, name : Workers \cup {None},
          token : Tokens \cup {None}, entry : Entries \cup {None},
          row : Rows \cup {None}] :
     /\ h.pc # "idle" => h.name \in Workers /\ h.token \in Tokens
     /\ h.pc \in {"upsert", "setid"} => h.entry \in Entries
     /\ h.pc = "setid" => h.row \in Rows}

AdminRequest ==
  {h \in [pc : {"idle", "evict", "mark", "reset", "remove", "close", "delete"},
          name : Workers \cup {None}, row : Rows \cup {None},
          entry : Entries \cup {None}] :
     /\ h.pc \in {"evict", "mark", "reset"} => h.name \in Workers
     /\ h.pc \in {"remove", "close", "delete"} => h.row \in Rows
     /\ h.pc = "remove" => h.entry = None}

TypeOK ==
  /\ workers \in [Workers -> Entries \cup {None}]
  /\ entry \in [Entries -> EntryObject]
  /\ row \in [Rows -> WorkerRow]
  /\ token \in [Tokens -> TokenRecord]
  /\ cert \in SUBSET Workers
  /\ stream \in [Streams -> StreamHandler]
  /\ beat \in [Streams -> Rows \cup {None}]
  /\ join \in [Joins -> JoinHandler]
  /\ admin \in [Admins -> AdminRequest]
  /\ sweep \in SUBSET Rows
  /\ restarts \in 0..MaxRestarts
  /\ faults \in 0..MaxDBFaults

Init ==
  /\ workers = [n \in Workers |-> None]
  /\ entry = [e \in Entries |-> NewEntry]
  /\ row = [r \in Rows |-> NewRow]
  /\ token = [t \in Tokens |-> NewToken]
  /\ cert = {}
  /\ stream = [s \in Streams |-> NoStream]
  /\ beat = [s \in Streams |-> None]
  /\ join = [j \in Joins |-> NoJoin]
  /\ admin = [a \in Admins |-> NoRequest]
  /\ sweep = {}
  /\ restarts = 0
  /\ faults = 0

---------------------------------------------------------------------------
(* The workers table *)

Exists(r) == row[r].status # "absent"

(* GetByName: the row of a name, if any (the name column is UNIQUE).       *)
RowOf(n) == {r \in Rows : Exists(r) /\ row[r].name = n}

DBFault == faults < MaxDBFaults /\ faults' = faults + 1

(* Update of the status of row r.  It touches no row when r was deleted,   *)
(* and every caller only logs an error.                                    *)
UpdateStatus(r, st) ==
  \/ /\ row' = IF Exists(r) THEN [row EXCEPT ![r].status = st] ELSE row
     /\ UNCHANGED faults
  \/ /\ DBFault
     /\ UNCHANGED row

(* A successful Upsert of name n returns r: the row of that name, whose    *)
(* last_heartbeat it keeps, or a row with an id never used before.         *)
Upsert(n, st, r) ==
  \/ /\ r \in RowOf(n)
     /\ row' = [row EXCEPT ![r].status = st]
  \/ /\ RowOf(n) = {}
     /\ row[r].name = None
     /\ row' = [row EXCEPT ![r] = [NewRow EXCEPT !.name = n, !.status = st]]

(* Mutant: Disconnect and Deregister look the entry up and forget delete.  *)
EvictForgotten(n) == UNCHANGED workers

(* Disconnect, first half: the name's entry leaves the map, whichever      *)
(* entry that is.                                                          *)
Evict(n) == workers' = [workers EXCEPT ![n] = None]

(* Disconnect, second half: the row of the removed entry is marked         *)
(* disconnected, if there was an entry and the database had given it an id.*)
MarkDisconnected(e) ==
  IF e # None /\ entry[e].dbid # None
  THEN UpdateStatus(entry[e].dbid, "disconnected")
  ELSE UNCHANGED <<row, faults>>

(* Mutant: Register and Restore do not check the name again under the lock.*)
InsertUnchecked(n, e, r, t) ==
  /\ entry[e].name = None
  /\ workers' = [workers EXCEPT ![n] = e]
  /\ entry' = [entry EXCEPT ![e] = [name |-> n, dbid |-> r, open |-> TRUE,
                                    token |-> t]]

(* A new entry e enters the map under name n.                              *)
Insert(n, e, r, t) ==
  /\ entry[e].name = None
  /\ workers[n] = None
  /\ workers' = [workers EXCEPT ![n] = e]
  /\ entry' = [entry EXCEPT ![e] = [name |-> n, dbid |-> r, open |-> TRUE,
                                    token |-> t]]

---------------------------------------------------------------------------
(* POST /workers: Preregister *)

PreregisterLookup(a, n) ==
  /\ admin[a].pc = "idle"
  /\ \A r \in RowOf(n) : row[r].status # "ready"
  /\ admin' = [admin EXCEPT ![a] = [NoRequest EXCEPT !.pc = "evict",
                                                     !.name = n]]
  /\ UNCHANGED <<workers, entry, row, token, cert, stream, beat, join, sweep,
                 restarts, faults>>

PreregisterEvict(a) ==
  /\ admin[a].pc = "evict"
  /\ admin' = [admin EXCEPT ![a].pc = "mark",
                            ![a].entry = workers[admin[a].name]]
  /\ Evict(admin[a].name)
  /\ UNCHANGED <<entry, row, token, cert, stream, beat, join, sweep,
                 restarts, faults>>

PreregisterMark(a) ==
  /\ admin[a].pc = "mark"
  /\ MarkDisconnected(admin[a].entry)
  /\ admin' = [admin EXCEPT ![a].pc = "reset"]
  /\ UNCHANGED <<workers, entry, token, cert, stream, beat, join, sweep,
                 restarts>>

(* The row becomes pending and a token is issued; the token is known to    *)
(* nobody before the request returns, so the two are one step.             *)
PreregisterReset(a) ==
  /\ admin[a].pc = "reset"
  /\ \/ /\ \E r \in Rows : Upsert(admin[a].name, "pending", r)
        /\ \E t \in Tokens :
             /\ token[t].state = "unissued"
             /\ token' = [token EXCEPT ![t] = [worker |-> admin[a].name,
                                               state |-> "issued"]]
        /\ UNCHANGED faults
     \/ DBFault /\ UNCHANGED <<row, token>>
  /\ admin' = [admin EXCEPT ![a] = NoRequest]
  /\ UNCHANGED <<workers, entry, cert, stream, beat, join, sweep, restarts>>

---------------------------------------------------------------------------
(* DELETE /workers/{id}: Deregister *)

(* Mutant: the id of the row is not kept.                                  *)
DeregisterCheckForgets(a, r) ==
  /\ admin[a].pc = "idle"
  /\ Exists(r)
  /\ admin' = [admin EXCEPT ![a] = [NoRequest EXCEPT !.pc = "remove"]]
  /\ UNCHANGED <<workers, entry, row, token, cert, stream, beat, join, sweep,
                 restarts, faults>>

DeregisterCheck(a, r) ==
  /\ admin[a].pc = "idle"
  /\ Exists(r)
  /\ row[r].name # LocalWorker
  /\ ~row[r].apps
  /\ admin' = [admin EXCEPT ![a] = [NoRequest EXCEPT !.pc = "remove",
                                                     !.row = r]]
  /\ UNCHANGED <<workers, entry, row, token, cert, stream, beat, join, sweep,
                 restarts, faults>>

(* The entry is found by the row id it carries, not by name.               *)
EntriesOfRow(r) ==
  {n \in Workers : workers[n] # None /\ entry[workers[n]].dbid = r}

DeregisterRemove(a) ==
  /\ admin[a].pc = "remove"
  /\ \/ /\ EntriesOfRow(admin[a].row) = {}
        /\ admin' = [admin EXCEPT ![a].pc = "close"]
        /\ UNCHANGED workers
     \/ \E n \in EntriesOfRow(admin[a].row) :
          /\ admin' = [admin EXCEPT ![a].pc = "close",
                                    ![a].entry = workers[n]]
          /\ Evict(n)
  /\ UNCHANGED <<entry, row, token, cert, stream, beat, join, sweep,
                 restarts, faults>>

DeregisterClose(a) ==
  /\ admin[a].pc = "close"
  /\ entry' = IF admin[a].entry = None THEN entry
              ELSE [entry EXCEPT ![admin[a].entry].open = FALSE]
  /\ admin' = [admin EXCEPT ![a].pc = "delete"]
  /\ UNCHANGED <<workers, row, token, cert, stream, beat, join, sweep,
                 restarts, faults>>

(* The foreign key of applications (ON DELETE RESTRICT) refuses the delete *)
(* when an application was created after the check.                        *)
DeregisterDelete(a) ==
  /\ admin[a].pc = "delete"
  /\ \/ /\ Exists(admin[a].row) /\ ~row[admin[a].row].apps
        /\ row' = [row EXCEPT ![admin[a].row].status = "absent"]
        /\ UNCHANGED faults
     \/ /\ ~Exists(admin[a].row) \/ row[admin[a].row].apps
        /\ UNCHANGED <<row, faults>>
     \/ DBFault /\ UNCHANGED row
  /\ admin' = [admin EXCEPT ![a] = NoRequest]
  /\ UNCHANGED <<workers, entry, token, cert, stream, beat, join, sweep,
                 restarts>>

---------------------------------------------------------------------------
(* The Register RPC of the gateway *)

(* Mutant: Validate does not mark the token used.                          *)
JoinValidateReusable(j, t) ==
  /\ join[j].pc = "idle"
  /\ token[t].state = "issued"
  /\ join' = [join EXCEPT ![j] = [NoJoin EXCEPT !.pc = "insert",
                                                !.name = token[t].worker,
                                                !.token = t]]
  /\ UNCHANGED <<workers, entry, row, token, cert, stream, beat, admin, sweep,
                 restarts, faults>>

(* The token is consumed before the CSR and the runtime type are checked;  *)
(* when either is refused the handler ends with the token spent.           *)
JoinValidate(j, t) ==
  /\ join[j].pc = "idle"
  /\ token[t].state = "issued"
  /\ token' = [token EXCEPT ![t].state = "used"]
  /\ \/ join' = [join EXCEPT ![j] = [NoJoin EXCEPT !.pc = "insert",
                                                   !.name = token[t].worker,
                                                   !.token = t]]
     \/ UNCHANGED join
  /\ UNCHANGED <<workers, entry, row, cert, stream, beat, admin, sweep,
                 restarts, faults>>

JoinInsert(j) ==
  /\ join[j].pc = "insert"
  /\ \/ \E e \in Entries :
          /\ Insert(join[j].name, e, None, join[j].token)
          /\ join' = [join EXCEPT ![j].pc = "upsert", ![j].entry = e]
     \/ /\ workers[join[j].name] # None
        /\ join' = [join EXCEPT ![j] = NoJoin]
        /\ UNCHANGED <<workers, entry>>
  /\ UNCHANGED <<row, token, cert, stream, beat, admin, sweep, restarts,
                 faults>>

(* The reply carries the certificate; it may be lost on its way.           *)
JoinReply(j) ==
  /\ cert' \in {cert, cert \cup {join[j].name}}
  /\ join' = [join EXCEPT ![j] = NoJoin]

JoinUpsert(j) ==
  /\ join[j].pc = "upsert"
  /\ \/ \E r \in Rows :
          /\ Upsert(join[j].name, "ready", r)
          /\ join' = [join EXCEPT ![j].pc = "setid", ![j].row = r]
          /\ UNCHANGED <<cert, faults>>
     \/ /\ DBFault
        /\ JoinReply(j)
        /\ UNCHANGED row
  /\ UNCHANGED <<workers, entry, token, stream, beat, admin, sweep, restarts>>

JoinSetID(j) ==
  /\ join[j].pc = "setid"
  /\ entry' = [entry EXCEPT ![join[j].entry].dbid = join[j].row]
  /\ JoinReply(j)
  /\ UNCHANGED <<workers, row, token, stream, beat, admin, sweep, restarts,
                 faults>>

---------------------------------------------------------------------------
(* The CommandStream RPC of the gateway *)

(* A worker daemon runs one stream at a time: it opens the next one when   *)
(* it knows that the last one is gone, which the gateway may learn later.  *)
UpStreams(n) == {s \in Streams : stream[s].name = n /\ stream[s].up}

(* identifyWorker reads the first message; Get, or the fast path of        *)
(* Restore, finds the entry in the map, else Restore asks the database.    *)
StreamOpen(s, n) ==
  /\ stream[s].pc = "idle" /\ beat[s] = None
  /\ n \in cert
  /\ UpStreams(n) = {}
  /\ stream' = [stream EXCEPT ![s] =
       [pc |-> IF workers[n] # None THEN "first" ELSE "lookup",
        name |-> n, entry |-> workers[n], row |-> None, up |-> TRUE]]
  /\ UNCHANGED <<workers, entry, row, token, cert, beat, join, admin, sweep,
                 restarts, faults>>

(* Restore refuses a name without a row or with a pending one; the stream  *)
(* then ends with Unauthenticated.                                         *)
RestoreLookup(s) ==
  /\ stream[s].pc = "lookup"
  /\ \/ \E r \in RowOf(stream[s].name) :
          /\ row[r].status # "pending"
          /\ stream' = [stream EXCEPT ![s].pc = "insert", ![s].row = r]
          /\ UNCHANGED faults
     \/ /\ \A r \in RowOf(stream[s].name) : row[r].status = "pending"
        /\ stream' = [stream EXCEPT ![s] = NoStream]
        /\ UNCHANGED faults
     \/ /\ DBFault
        /\ stream' = [stream EXCEPT ![s] = NoStream]
  /\ UNCHANGED <<workers, entry, row, token, cert, beat, join, admin, sweep,
                 restarts>>

RestoreInsert(s) ==
  /\ stream[s].pc = "insert"
  /\ \/ \E e \in Entries :
          /\ Insert(stream[s].name, e, stream[s].row, None)
          /\ stream' = [stream EXCEPT ![s].pc = "ready", ![s].entry = e]
     \/ /\ workers[stream[s].name] # None
        /\ stream' = [stream EXCEPT ![s].pc = "first", ![s].row = None,
                                    ![s].entry = workers[stream[s].name]]
        /\ UNCHANGED <<workers, entry>>
  /\ UNCHANGED <<row, token, cert, beat, join, admin, sweep, restarts, faults>>

RestoreReady(s) ==
  /\ stream[s].pc = "ready"
  /\ UpdateStatus(stream[s].row, "ready")
  /\ stream' = [stream EXCEPT ![s].pc = "first", ![s].row = None]
  /\ UNCHANGED <<workers, entry, token, cert, beat, join, admin, sweep,
                 restarts>>

(* UpdateHeartbeat, first half: the row to write is the one the name's     *)
(* current entry points to; without one the heartbeat is dropped.          *)
BeatRow(n) == IF workers[n] = None THEN None ELSE entry[workers[n]].dbid

(* The first message of a stream is a heartbeat, handled before the main   *)
(* loop and the recvLoop goroutine start.                                  *)
FirstBeat(s) ==
  /\ stream[s].pc = "first"
  /\ beat' = [beat EXCEPT ![s] = BeatRow(stream[s].name)]
  /\ stream' = [stream EXCEPT ![s].pc =
       IF beat'[s] = None THEN "serving" ELSE "firstbeat"]
  /\ UNCHANGED <<workers, entry, row, token, cert, join, admin, sweep,
                 restarts, faults>>

(* recvLoop reads a later heartbeat.                                       *)
NextBeat(s) ==
  /\ stream[s].pc = "serving" /\ stream[s].up
  /\ beat[s] = None
  /\ beat' = [beat EXCEPT ![s] = BeatRow(stream[s].name)]
  /\ UNCHANGED <<workers, entry, row, token, cert, stream, join, admin, sweep,
                 restarts, faults>>

(* UpdateHeartbeat, second half: only last_heartbeat is written.           *)
WriteBeat(s) ==
  /\ beat[s] # None
  /\ \/ /\ row' = IF Exists(beat[s]) THEN [row EXCEPT ![beat[s]].beat = "fresh"]
                  ELSE row
        /\ UNCHANGED faults
     \/ DBFault /\ UNCHANGED row
  /\ beat' = [beat EXCEPT ![s] = None]
  /\ stream' = IF stream[s].pc = "firstbeat"
               THEN [stream EXCEPT ![s].pc = "serving"] ELSE stream
  /\ UNCHANGED <<workers, entry, token, cert, join, admin, sweep, restarts>>

(* The connection breaks or the worker closes it.                          *)
LinkDown(s) ==
  /\ stream[s].up
  /\ stream' = [stream EXCEPT ![s].up = FALSE]
  /\ UNCHANGED <<workers, entry, row, token, cert, beat, join, admin, sweep,
                 restarts, faults>>

(* The main loop sees the end of the stream and calls Disconnect with the  *)
(* worker's name.                                                          *)
StreamEvict(s) ==
  /\ stream[s].pc = "serving" /\ ~stream[s].up
  /\ stream' = [stream EXCEPT ![s].pc = "leaving",
                              ![s].entry = workers[stream[s].name]]
  /\ Evict(stream[s].name)
  /\ UNCHANGED <<entry, row, token, cert, beat, join, admin, sweep, restarts,
                 faults>>

StreamMark(s) ==
  /\ stream[s].pc = "leaving"
  /\ MarkDisconnected(stream[s].entry)
  /\ stream' = [stream EXCEPT ![s] = NoStream]
  /\ UNCHANGED <<workers, entry, token, cert, beat, join, admin, sweep,
                 restarts>>

(* The main loop sees its command channel closed and returns at once.      *)
StreamClosed(s) ==
  /\ stream[s].pc = "serving"
  /\ ~entry[stream[s].entry].open
  /\ stream' = [stream EXCEPT ![s] = NoStream]
  /\ UNCHANGED <<workers, entry, row, token, cert, beat, join, admin, sweep,
                 restarts, faults>>

---------------------------------------------------------------------------
(* The sweeper: one query, then one update for each stale row *)

(* Mutant: the query does not ask for status "ready".                      *)
SweepReadAll ==
  /\ sweep = {}
  /\ sweep' = {r \in Rows : Exists(r) /\ row[r].beat # "fresh"}
  /\ UNCHANGED <<workers, entry, row, token, cert, stream, beat, join, admin,
                 restarts, faults>>

(* Mutant: a row that never had a heartbeat (NULL) is not stale.           *)
SweepReadNotNull ==
  /\ sweep = {}
  /\ sweep' = {r \in Rows : row[r].status = "ready" /\ row[r].beat = "stale"}
  /\ UNCHANGED <<workers, entry, row, token, cert, stream, beat, join, admin,
                 restarts, faults>>

SweepRead ==
  /\ sweep = {}
  /\ sweep' = {r \in Rows : row[r].status = "ready" /\ row[r].beat # "fresh"}
  /\ UNCHANGED <<workers, entry, row, token, cert, stream, beat, join, admin,
                 restarts, faults>>

SweepMark(r) ==
  /\ r \in sweep
  /\ sweep' = sweep \ {r}
  /\ UpdateStatus(r, "disconnected")
  /\ UNCHANGED <<workers, entry, token, cert, stream, beat, join, admin,
                 restarts>>

---------------------------------------------------------------------------
(* Environment *)

(* A stream whose heartbeats reach row r.                                  *)
Beating(r) ==
  \E s \in Streams :
    /\ stream[s].pc = "serving" /\ stream[s].up
    /\ BeatRow(stream[s].name) = r

(* Ninety seconds pass without a heartbeat for row r.  A serving stream    *)
(* sends one every thirty seconds, so this does not happen to a row whose  *)
(* heartbeats arrive.                                                      *)
Age(r) ==
  /\ row[r].beat = "fresh"
  /\ ~Beating(r)
  /\ row' = [row EXCEPT ![r].beat = "stale"]
  /\ UNCHANGED <<workers, entry, token, cert, stream, beat, join, admin, sweep,
                 restarts, faults>>

(* Twenty-four hours pass before an issued token is used.                  *)
Expire(t) ==
  /\ token[t].state = "issued"
  /\ token' = [token EXCEPT ![t].state = "dead"]
  /\ UNCHANGED <<workers, entry, row, cert, stream, beat, join, admin, sweep,
                 restarts, faults>>

(* Applications are deployed to a worker and deleted.                      *)
SetApps(r) ==
  /\ r \in AppRows /\ Exists(r)
  /\ row' = [row EXCEPT ![r].apps = ~row[r].apps]
  /\ UNCHANGED <<workers, entry, token, cert, stream, beat, join, admin, sweep,
                 restarts, faults>>

(* The control plane restarts: memory and handlers are gone, the database  *)
(* and the workers' certificates stay.                                     *)
Restart ==
  /\ restarts < MaxRestarts
  /\ restarts' = restarts + 1
  /\ workers' = [n \in Workers |-> None]
  /\ token' = [t \in Tokens |-> IF token[t].state = "issued"
                                THEN [token[t] EXCEPT !.state = "dead"]
                                ELSE token[t]]
  /\ stream' = [s \in Streams |-> NoStream]
  /\ beat' = [s \in Streams |-> None]
  /\ join' = [j \in Joins |-> NoJoin]
  /\ admin' = [a \in Admins |-> NoRequest]
  /\ sweep' = {}
  /\ UNCHANGED <<entry, row, cert, faults>>

---------------------------------------------------------------------------
AdminStep(a) ==
  \/ PreregisterEvict(a) \/ PreregisterMark(a) \/ PreregisterReset(a)
  \/ DeregisterRemove(a) \/ DeregisterClose(a) \/ DeregisterDelete(a)

JoinStep(j) == JoinInsert(j) \/ JoinUpsert(j) \/ JoinSetID(j)

StreamStep(s) ==
  \/ RestoreLookup(s) \/ RestoreInsert(s) \/ RestoreReady(s) \/ FirstBeat(s)
  \/ WriteBeat(s) \/ StreamEvict(s) \/ StreamMark(s) \/ StreamClosed(s)

Next ==
  \/ \E a \in Admins, n \in Workers : PreregisterLookup(a, n)
  \/ \E a \in Admins, r \in Rows : DeregisterCheck(a, r)
  \/ \E a \in Admins : AdminStep(a)
  \/ \E j \in Joins, t \in Tokens : JoinValidate(j, t)
  \/ \E j \in Joins : JoinStep(j)
  \/ \E s \in Streams, n \in Workers : StreamOpen(s, n)
  \/ \E s \in Streams : StreamStep(s) \/ NextBeat(s) \/ LinkDown(s)
  \/ SweepRead
  \/ \E r \in Rows : SweepMark(r) \/ Age(r) \/ SetApps(r)
  \/ \E t \in Tokens : Expire(t)
  \/ Restart

Spec == Init /\ [][Next]_vars

(* Goroutines run: a handler that has begun goes on, the sweeper's ticker  *)
(* fires and its loop ends, and time passes.                               *)
Fairness ==
  /\ \A a \in Admins : WF_vars(AdminStep(a))
  /\ \A j \in Joins : WF_vars(JoinStep(j))
  /\ \A s \in Streams : WF_vars(StreamStep(s))
  /\ WF_vars(SweepRead)
  /\ \A r \in Rows : WF_vars(SweepMark(r)) /\ WF_vars(Age(r))

FairSpec == Spec /\ Fairness

---------------------------------------------------------------------------
(* Properties *)

(* A bootstrap token is single use: whatever Register RPCs race with it,   *)
(* at most one WorkerEntry is ever created from it (token.go Validate,     *)
(* registry.go Register).                                                  *)
TokenRegistersOnce ==
  \A e1, e2 \in Entries :
    (e1 # e2 /\ entry[e1].token # None) => entry[e1].token # entry[e2].token

(* Closing a command channel is safe: when Deregister is about to close    *)
(* the channel of an entry, that channel is still open (a second close     *)
(* panics), no lookup can return the entry any more and no other request   *)
(* is about to close it too; and no lookup ever returns a closed channel.  *)
ChannelCloseIsSafe ==
  /\ \A n \in Workers : workers[n] # None => entry[workers[n]].open
  /\ \A a \in Admins :
       (admin[a].pc = "close" /\ admin[a].entry # None) =>
         /\ entry[admin[a].entry].open
         /\ \A n \in Workers : workers[n] # admin[a].entry
         /\ \A b \in Admins \ {a} :
              admin[b].pc = "close" => admin[b].entry # admin[a].entry

(* A row is past "pending" only if a bootstrap token of that worker was    *)
(* presented: neither the sweeper, nor a late Disconnect, nor Restore lets *)
(* a worker that never registered out of "pending".                        *)
Registered(n) ==
  \E t \in Tokens : token[t].worker = n /\ token[t].state = "used"

ReadyRowWasRegistered ==
  \A r \in Rows :
    row[r].status \in {"ready", "disconnected"} => Registered(row[r].name)

(* The registry implements the connection table: an entry never replaces   *)
(* another one silently, never re-enters the map, and is closed once.      *)
LifeOf(e) ==
  CASE entry[e].name = None -> "new"
    [] entry[e].name # None /\ (\E n \in Workers : workers[n] = e) -> "attached"
    [] entry[e].name # None /\ (\A n \in Workers : workers[n] # e) ->
         IF entry[e].open THEN "evicted" ELSE "closed"

Table == INSTANCE ConnectionTable
           WITH slot <- workers, life <- [e \in Entries |-> LifeOf(e)]

ImplementsTable == Table!Spec

(* The inductive invariant behind the three safety properties above.  An   *)
(* entry in the map carries the name it is filed under and is open; an     *)
(* entry about to be closed was born, so Insert never picks it again.      *)
TableInv ==
  /\ \A n \in Workers : workers[n] # None =>
       entry[workers[n]].name = n /\ entry[workers[n]].open
  /\ \A a \in Admins :
       (admin[a].pc = "close" /\ admin[a].entry # None) =>
         entry[admin[a].entry].name # None
  /\ ChannelCloseIsSafe

(* The token of an entry is spent, and the token a Register RPC is about   *)
(* to turn into an entry belongs to no entry and to no other such RPC.     *)
TokenInv ==
  /\ \A e \in Entries :
       entry[e].token # None => token[entry[e].token].state = "used"
  /\ \A j \in Joins : join[j].pc # "idle" =>
       /\ token[join[j].token].state = "used"
       /\ token[join[j].token].worker = join[j].name
  /\ \A j \in Joins : join[j].pc = "insert" =>
       /\ \A e \in Entries : entry[e].token # join[j].token
       /\ \A k \in Joins \ {j} :
            join[k].pc = "insert" => join[k].token # join[j].token
  /\ TokenRegistersOnce

(* Every row id a handler or an entry holds, and may later write a status  *)
(* to, is the id of a row whose worker registered.                         *)
RowInv ==
  /\ \A e \in Entries :
       entry[e].dbid # None => Registered(row[entry[e].dbid].name)
  /\ \A j \in Joins :
       join[j].pc = "setid" => row[join[j].row].name = join[j].name
  /\ \A s \in Streams :
       stream[s].pc \in {"insert", "ready"} => Registered(row[stream[s].row].name)
  /\ \A r \in sweep : Registered(row[r].name)
  /\ ReadyRowWasRegistered

IInv == TableInv /\ TokenInv /\ RowInv

(* A worker that is gone for good, with no Register RPC in progress and no *)
(* stream, does not stay "ready" in the database: the stream's Disconnect  *)
(* or, where the stream never was or its update failed, the sweeper ends   *)
(* it.  IsWorkerConnected and the resolver rely on it.                     *)
Gone(n) ==
  /\ UpStreams(n) = {}
  /\ \A j \in Joins : join[j].name # n

GoneWorkerLeavesReady ==
  \A n \in Workers :
    <>[]Gone(n) => <>[](\A r \in RowOf(n) : row[r].status # "ready")
=============================================================================
