-------------------------- MODULE WorkerRegistryProofs --------------------------
(***************************************************************************)
(* Proofs about the worker registry, for every number of workers, streams, *)
(* RPCs, HTTP requests, tokens, rows and entries: types; the map and its   *)
(* channels, with the refinement to the connection table; bootstrap tokens *)
(* and the workers table.                                                  *)
(***************************************************************************)
EXTENDS WorkerRegistry, TLAPS

---------------------------------------------------------------------------
(* Type correctness *)

(* A handler that ends is back in its idle state.                          *)
LEMMA IdleTypes ==
  /\ NoStream \in StreamHandler
  /\ NoJoin \in JoinHandler
  /\ NoRequest \in AdminRequest
  BY DEF NoStream, StreamHandler, NoJoin, JoinHandler, NoRequest, AdminRequest

(* A status update or an upsert keeps the workers table well typed.        *)
LEMMA UpdateStatusType ==
  ASSUME row \in [Rows -> WorkerRow], faults \in 0..MaxDBFaults,
         NEW r \in Rows, NEW st \in Status \ {"absent"}, UpdateStatus(r, st)
  PROVE  row' \in [Rows -> WorkerRow] /\ faults' \in 0..MaxDBFaults
  BY BoundsAreNaturals DEF UpdateStatus, DBFault, WorkerRow, Status

LEMMA UpsertType ==
  ASSUME row \in [Rows -> WorkerRow], NEW n \in Workers, NEW r \in Rows,
         NEW st \in Status \ {"absent"}, Upsert(n, st, r)
  PROVE  row' \in [Rows -> WorkerRow]
<1>1. [row[r] EXCEPT !.status = st] \in WorkerRow
  BY DEF WorkerRow
<1>2. [NewRow EXCEPT !.name = n, !.status = st] \in WorkerRow
  BY DEF WorkerRow, NewRow
<1> QED
  BY <1>1, <1>2 DEF Upsert

LEMMA MarkDisconnectedType ==
  ASSUME entry \in [Entries -> EntryObject], row \in [Rows -> WorkerRow],
         faults \in 0..MaxDBFaults,
         NEW e \in Entries \cup {None}, MarkDisconnected(e)
  PROVE  row' \in [Rows -> WorkerRow] /\ faults' \in 0..MaxDBFaults
<1>1. CASE e # None /\ entry[e].dbid # None
  <2>1. entry[e].dbid \in Rows
    BY <1>1 DEF EntryObject
  <2> QED
    BY <1>1, <2>1, UpdateStatusType DEF MarkDisconnected, Status
<1>2. CASE ~(e # None /\ entry[e].dbid # None)
  BY <1>2 DEF MarkDisconnected
<1> QED
  BY <1>1, <1>2

(* The entry Insert files under a name is well typed.                      *)
LEMMA InsertType ==
  ASSUME workers \in [Workers -> Entries \cup {None}],
         entry \in [Entries -> EntryObject],
         NEW n \in Workers, NEW e \in Entries, NEW r \in Rows \cup {None},
         NEW t \in Tokens \cup {None}, Insert(n, e, r, t)
  PROVE  /\ workers' \in [Workers -> Entries \cup {None}]
         /\ entry' \in [Entries -> EntryObject]
  BY DEF Insert, EntryObject

(* The row a heartbeat is written to exists in the type of rows.           *)
LEMMA BeatRowType ==
  ASSUME workers \in [Workers -> Entries \cup {None}],
         entry \in [Entries -> EntryObject], NEW n \in Workers
  PROVE  BeatRow(n) \in Rows \cup {None}
  BY DEF BeatRow, EntryObject

(* Every step keeps every variable in its type; one case for each action.  *)
LEMMA TypeStep ==
  ASSUME TypeOK, [Next]_vars
  PROVE  TypeOK'
<1>w. workers \in [Workers -> Entries \cup {None}] /\ entry \in [Entries -> EntryObject]
  BY DEF TypeOK
<1>r. row \in [Rows -> WorkerRow] /\ faults \in 0..MaxDBFaults
  BY DEF TypeOK
<1>t. token \in [Tokens -> TokenRecord] /\ cert \in SUBSET Workers
  BY DEF TypeOK
<1>s. stream \in [Streams -> StreamHandler] /\ beat \in [Streams -> Rows \cup {None}]
  BY DEF TypeOK
<1>j. join \in [Joins -> JoinHandler]
  BY DEF TypeOK
<1>a. admin \in [Admins -> AdminRequest]
  BY DEF TypeOK
<1>1. ASSUME NEW a \in Admins, NEW n \in Workers, PreregisterLookup(a, n)
      PROVE  TypeOK'
  <2>1. admin' \in [Admins -> AdminRequest]
    BY <1>1, <1>a DEF PreregisterLookup, AdminRequest, NoRequest
  <2> QED
    BY <1>1, <2>1 DEF PreregisterLookup, TypeOK
<1>2. ASSUME NEW a \in Admins, PreregisterEvict(a)
      PROVE  TypeOK'
  <2>1. admin[a].name \in Workers
    BY <1>2, <1>a DEF PreregisterEvict, AdminRequest
  <2>2. admin' \in [Admins -> AdminRequest]
    BY <1>2, <1>a, <1>w, <2>1 DEF PreregisterEvict, AdminRequest
  <2> QED
    BY <1>2, <2>1, <2>2 DEF PreregisterEvict, Evict, TypeOK
<1>3. ASSUME NEW a \in Admins, PreregisterMark(a)
      PROVE  TypeOK'
  <2>1. admin[a].entry \in Entries \cup {None}
    BY <1>a DEF AdminRequest
  <2>2. row' \in [Rows -> WorkerRow] /\ faults' \in 0..MaxDBFaults
    BY <1>3, <1>w, <1>r, <2>1, MarkDisconnectedType DEF PreregisterMark
  <2>3. admin' \in [Admins -> AdminRequest]
    BY <1>3, <1>a DEF PreregisterMark, AdminRequest
  <2> QED
    BY <1>3, <2>2, <2>3 DEF PreregisterMark, TypeOK
<1>4. ASSUME NEW a \in Admins, PreregisterReset(a)
      PROVE  TypeOK'
  <2>1. admin[a].name \in Workers
    BY <1>4, <1>a DEF PreregisterReset, AdminRequest
  <2>2. row' \in [Rows -> WorkerRow]
    BY <1>4, <1>r, <2>1, UpsertType DEF PreregisterReset, Status
  <2>3. token' \in [Tokens -> TokenRecord]
    BY <1>4, <1>t, <2>1 DEF PreregisterReset, TokenRecord
  <2>4. faults' \in 0..MaxDBFaults
    BY <1>4, <1>r, BoundsAreNaturals DEF PreregisterReset, DBFault
  <2>5. admin' \in [Admins -> AdminRequest]
    BY <1>4, <1>a DEF PreregisterReset, AdminRequest, NoRequest
  <2> QED
    BY <1>4, <2>2, <2>3, <2>4, <2>5 DEF PreregisterReset, TypeOK
<1>5. ASSUME NEW a \in Admins, NEW r \in Rows, DeregisterCheck(a, r)
      PROVE  TypeOK'
  <2>1. admin' \in [Admins -> AdminRequest]
    BY <1>5, <1>a DEF DeregisterCheck, AdminRequest, NoRequest
  <2> QED
    BY <1>5, <2>1 DEF DeregisterCheck, TypeOK
<1>6. ASSUME NEW a \in Admins, DeregisterRemove(a)
      PROVE  TypeOK'
  <2>1. CASE EntriesOfRow(admin[a].row) = {} /\ workers' = workers
                /\ admin' = [admin EXCEPT ![a].pc = "close"]
    <3>1. admin' \in [Admins -> AdminRequest]
      BY <1>6, <1>a, <2>1 DEF DeregisterRemove, AdminRequest
    <3> QED
      BY <1>6, <2>1, <3>1 DEF DeregisterRemove, TypeOK
  <2>2. ASSUME NEW n \in EntriesOfRow(admin[a].row), Evict(n),
               admin' = [admin EXCEPT ![a].pc = "close", ![a].entry = workers[n]]
        PROVE  TypeOK'
    <3>1. n \in Workers /\ workers[n] \in Entries
      BY <1>w, <2>2 DEF EntriesOfRow
    <3>2. admin' \in [Admins -> AdminRequest]
      <4>1. [admin[a] EXCEPT !.pc = "close", !.entry = workers[n]] \in AdminRequest
        BY <1>6, <1>a, <3>1 DEF DeregisterRemove, AdminRequest
      <4> QED
        BY <1>a, <2>2, <4>1
    <3> QED
      BY <1>6, <2>2, <3>1, <3>2 DEF DeregisterRemove, Evict, TypeOK
  <2> QED
    BY <1>6, <2>1, <2>2 DEF DeregisterRemove
<1>7. ASSUME NEW a \in Admins, DeregisterClose(a)
      PROVE  TypeOK'
  <2>1. admin' \in [Admins -> AdminRequest]
    BY <1>7, <1>a DEF DeregisterClose, AdminRequest
  <2>2. admin[a].entry \in Entries \cup {None}
    BY <1>a DEF AdminRequest
  <2>3. entry' \in [Entries -> EntryObject]
    BY <1>7, <1>w, <2>2 DEF DeregisterClose, EntryObject
  <2> QED
    BY <1>7, <2>1, <2>3 DEF DeregisterClose, TypeOK
<1>8. ASSUME NEW a \in Admins, DeregisterDelete(a)
      PROVE  TypeOK'
  <2>1. admin' \in [Admins -> AdminRequest]
    BY <1>8, <1>a DEF DeregisterDelete, AdminRequest, NoRequest
  <2>2. row' \in [Rows -> WorkerRow]
    BY <1>8, <1>r DEF DeregisterDelete, WorkerRow, Status
  <2>3. faults' \in 0..MaxDBFaults
    BY <1>8, <1>r, BoundsAreNaturals DEF DeregisterDelete, DBFault
  <2> QED
    BY <1>8, <2>1, <2>2, <2>3 DEF DeregisterDelete, TypeOK
<1>9. ASSUME NEW j \in Joins, NEW t \in Tokens, JoinValidate(j, t)
      PROVE  TypeOK'
  <2>1. token[t].worker \in Workers
    BY <1>9, <1>t DEF JoinValidate, TokenRecord
  <2>2. token' \in [Tokens -> TokenRecord]
    BY <1>9, <1>t, <2>1 DEF JoinValidate, TokenRecord
  <2>3. join' \in [Joins -> JoinHandler]
    BY <1>9, <1>j, <2>1 DEF JoinValidate, JoinHandler, NoJoin
  <2> QED
    BY <1>9, <2>2, <2>3 DEF JoinValidate, TypeOK
<1>10. ASSUME NEW j \in Joins, JoinInsert(j)
       PROVE  TypeOK'
  <2>1. join[j].name \in Workers /\ join[j].token \in Tokens
    BY <1>10, <1>j DEF JoinInsert, JoinHandler
  <2>2. ASSUME NEW e \in Entries, Insert(join[j].name, e, None, join[j].token),
               join' = [join EXCEPT ![j].pc = "upsert", ![j].entry = e]
        PROVE  TypeOK'
    <3>1. /\ workers' \in [Workers -> Entries \cup {None}]
          /\ entry' \in [Entries -> EntryObject]
      BY <1>w, <2>1, <2>2, InsertType
    <3>2. join' \in [Joins -> JoinHandler]
      <4>1. [join[j] EXCEPT !.pc = "upsert", !.entry = e] \in JoinHandler
        BY <1>j, <2>1 DEF JoinHandler
      <4> QED
        BY <1>j, <2>2, <4>1
    <3> QED
      BY <1>10, <3>1, <3>2 DEF JoinInsert, TypeOK
  <2>3. CASE /\ join' = [join EXCEPT ![j] = NoJoin]
             /\ UNCHANGED <<workers, entry>>
    <3>1. join' \in [Joins -> JoinHandler]
      BY <1>j, <2>3 DEF JoinHandler, NoJoin
    <3> QED
      BY <1>10, <2>3, <3>1 DEF JoinInsert, TypeOK
  <2> QED
    BY <1>10, <2>2, <2>3 DEF JoinInsert
<1>11. ASSUME NEW j \in Joins, JoinUpsert(j)
       PROVE  TypeOK'
  <2>1. join[j].name \in Workers
    BY <1>11, <1>j DEF JoinUpsert, JoinHandler
  <2>2. row' \in [Rows -> WorkerRow]
    BY <1>11, <1>r, <2>1, UpsertType DEF JoinUpsert, Status
  <2>3. cert' \in SUBSET Workers
    BY <1>11, <1>t, <2>1 DEF JoinUpsert, JoinReply
  <2>4. faults' \in 0..MaxDBFaults
    BY <1>11, <1>r, BoundsAreNaturals DEF JoinUpsert, DBFault
  <2>5. ASSUME NEW r \in Rows,
               join' = [join EXCEPT ![j].pc = "setid", ![j].row = r]
        PROVE  join' \in [Joins -> JoinHandler]
    <3>1. [join[j] EXCEPT !.pc = "setid", !.row = r] \in JoinHandler
      BY <1>11, <1>j DEF JoinUpsert, JoinHandler
    <3> QED
      BY <1>j, <2>5, <3>1
  <2>6. ASSUME join' = [join EXCEPT ![j] = NoJoin]
        PROVE  join' \in [Joins -> JoinHandler]
    BY <1>j, <2>6, IdleTypes
  <2>7. join' \in [Joins -> JoinHandler]
    BY <1>11, <2>5, <2>6 DEF JoinUpsert, JoinReply
  <2> QED
    BY <1>11, <2>2, <2>3, <2>4, <2>7 DEF JoinUpsert, TypeOK
<1>12. ASSUME NEW j \in Joins, JoinSetID(j)
       PROVE  TypeOK'
  <2>1. /\ join[j].name \in Workers
        /\ join[j].entry \in Entries
        /\ join[j].row \in Rows
    BY <1>12, <1>j DEF JoinSetID, JoinHandler
  <2>2. entry' \in [Entries -> EntryObject]
    BY <1>12, <1>w, <2>1 DEF JoinSetID, EntryObject
  <2>3. join' \in [Joins -> JoinHandler]
    BY <1>12, <1>j DEF JoinSetID, JoinReply, JoinHandler, NoJoin
  <2>4. cert' \in SUBSET Workers
    BY <1>12, <1>t, <2>1 DEF JoinSetID, JoinReply
  <2> QED
    BY <1>12, <2>2, <2>3, <2>4 DEF JoinSetID, TypeOK
<1>13. ASSUME NEW s \in Streams, NEW n \in Workers, StreamOpen(s, n)
       PROVE  TypeOK'
  <2>1. stream' \in [Streams -> StreamHandler]
    BY <1>13, <1>s, <1>w DEF StreamOpen, StreamHandler
  <2> QED
    BY <1>13, <2>1 DEF StreamOpen, TypeOK
<1>14. ASSUME NEW s \in Streams, RestoreLookup(s)
       PROVE  TypeOK'
  <2>1. ASSUME NEW r \in Rows,
               stream' = [stream EXCEPT ![s].pc = "insert", ![s].row = r]
        PROVE  stream' \in [Streams -> StreamHandler]
    <3>1. [stream[s] EXCEPT !.pc = "insert", !.row = r] \in StreamHandler
      BY <1>14, <1>s DEF RestoreLookup, StreamHandler
    <3> QED
      BY <1>s, <2>1, <3>1
  <2>2. ASSUME stream' = [stream EXCEPT ![s] = NoStream]
        PROVE  stream' \in [Streams -> StreamHandler]
    BY <1>s, <2>2, IdleTypes
  <2>3. stream' \in [Streams -> StreamHandler]
    BY <1>14, <2>1, <2>2 DEF RestoreLookup, RowOf
  <2>4. faults' \in 0..MaxDBFaults
    BY <1>14, <1>r, BoundsAreNaturals DEF RestoreLookup, DBFault
  <2> QED
    BY <1>14, <2>3, <2>4 DEF RestoreLookup, TypeOK
<1>15. ASSUME NEW s \in Streams, RestoreInsert(s)
       PROVE  TypeOK'
  <2>1. stream[s].name \in Workers /\ stream[s].row \in Rows
    BY <1>15, <1>s DEF RestoreInsert, StreamHandler
  <2>2. ASSUME NEW e \in Entries, Insert(stream[s].name, e, stream[s].row, None),
               stream' = [stream EXCEPT ![s].pc = "ready", ![s].entry = e]
        PROVE  TypeOK'
    <3>1. /\ workers' \in [Workers -> Entries \cup {None}]
          /\ entry' \in [Entries -> EntryObject]
      BY <1>w, <2>1, <2>2, InsertType
    <3>2. stream' \in [Streams -> StreamHandler]
      <4>1. [stream[s] EXCEPT !.pc = "ready", !.entry = e] \in StreamHandler
        BY <1>s, <2>1 DEF StreamHandler
      <4> QED
        BY <1>s, <2>2, <4>1
    <3> QED
      BY <1>15, <3>1, <3>2 DEF RestoreInsert, TypeOK
  <2>3. CASE /\ workers[stream[s].name] # None
             /\ stream' = [stream EXCEPT ![s].pc = "first", ![s].row = None,
                                         ![s].entry = workers[stream[s].name]]
             /\ UNCHANGED <<workers, entry>>
    <3>1. workers[stream[s].name] \in Entries
      BY <1>w, <2>1, <2>3
    <3>2. stream' \in [Streams -> StreamHandler]
      <4>1. [stream[s] EXCEPT !.pc = "first", !.row = None,
                              !.entry = workers[stream[s].name]] \in StreamHandler
        BY <1>s, <2>1, <3>1 DEF StreamHandler
      <4> QED
        BY <1>s, <2>3, <4>1
    <3> QED
      BY <1>15, <2>3, <3>2 DEF RestoreInsert, TypeOK
  <2> QED
    BY <1>15, <2>2, <2>3 DEF RestoreInsert
<1>16. ASSUME NEW s \in Streams, RestoreReady(s)
       PROVE  TypeOK'
  <2>1. stream[s].row \in Rows
    BY <1>16, <1>s DEF RestoreReady, StreamHandler
  <2>2. row' \in [Rows -> WorkerRow] /\ faults' \in 0..MaxDBFaults
    BY <1>16, <1>r, <2>1, UpdateStatusType DEF RestoreReady, Status
  <2>3. stream' \in [Streams -> StreamHandler]
    <3>1. [stream[s] EXCEPT !.pc = "first", !.row = None] \in StreamHandler
      BY <1>16, <1>s DEF RestoreReady, StreamHandler
    <3> QED
      BY <1>16, <1>s, <3>1 DEF RestoreReady
  <2> QED
    BY <1>16, <2>2, <2>3 DEF RestoreReady, TypeOK
<1>17. ASSUME NEW s \in Streams, FirstBeat(s)
       PROVE  TypeOK'
  <2>1. stream[s].name \in Workers
    BY <1>17, <1>s DEF FirstBeat, StreamHandler
  <2>2. beat' \in [Streams -> Rows \cup {None}]
    BY <1>17, <1>s, <1>w, <2>1, BeatRowType DEF FirstBeat
  <2>3. stream' \in [Streams -> StreamHandler]
    BY <1>17, <1>s DEF FirstBeat, StreamHandler
  <2> QED
    BY <1>17, <2>2, <2>3 DEF FirstBeat, TypeOK
<1>18. ASSUME NEW s \in Streams, NextBeat(s)
       PROVE  TypeOK'
  <2>1. stream[s].name \in Workers
    BY <1>18, <1>s DEF NextBeat, StreamHandler
  <2>2. beat' \in [Streams -> Rows \cup {None}]
    BY <1>18, <1>s, <1>w, <2>1, BeatRowType DEF NextBeat
  <2> QED
    BY <1>18, <2>2 DEF NextBeat, TypeOK
<1>19. ASSUME NEW s \in Streams, WriteBeat(s)
       PROVE  TypeOK'
  <2>1. row' \in [Rows -> WorkerRow]
    BY <1>19, <1>r, <1>s DEF WriteBeat, WorkerRow
  <2>2. faults' \in 0..MaxDBFaults
    BY <1>19, <1>r, BoundsAreNaturals DEF WriteBeat, DBFault
  <2>3. stream' \in [Streams -> StreamHandler]
    BY <1>19, <1>s DEF WriteBeat, StreamHandler
  <2>4. beat' \in [Streams -> Rows \cup {None}]
    BY <1>19, <1>s DEF WriteBeat
  <2> QED
    BY <1>19, <2>1, <2>2, <2>3, <2>4 DEF WriteBeat, TypeOK
<1>20. ASSUME NEW s \in Streams, LinkDown(s)
       PROVE  TypeOK'
  <2>1. stream' \in [Streams -> StreamHandler]
    <3>1. [stream[s] EXCEPT !.up = FALSE] \in StreamHandler
      BY <1>s DEF StreamHandler
    <3> QED
      BY <1>20, <1>s, <3>1 DEF LinkDown
  <2> QED
    BY <1>20, <2>1 DEF LinkDown, TypeOK
<1>21. ASSUME NEW s \in Streams, StreamEvict(s)
       PROVE  TypeOK'
  <2>1. stream[s].name \in Workers
    BY <1>21, <1>s DEF StreamEvict, StreamHandler
  <2>2. workers[stream[s].name] \in Entries \cup {None}
    BY <1>w, <2>1
  <2>3. stream' \in [Streams -> StreamHandler]
    <3>1. [stream[s] EXCEPT !.pc = "leaving",
                            !.entry = workers[stream[s].name]] \in StreamHandler
      BY <1>s, <2>1, <2>2 DEF StreamHandler
    <3> QED
      BY <1>21, <1>s, <3>1 DEF StreamEvict
  <2> QED
    BY <1>21, <2>1, <2>3 DEF StreamEvict, Evict, TypeOK
<1>22. ASSUME NEW s \in Streams, StreamMark(s)
       PROVE  TypeOK'
  <2>1. stream[s].entry \in Entries \cup {None}
    BY <1>s DEF StreamHandler
  <2>2. row' \in [Rows -> WorkerRow] /\ faults' \in 0..MaxDBFaults
    BY <1>22, <1>w, <1>r, <2>1, MarkDisconnectedType DEF StreamMark
  <2>3. stream' \in [Streams -> StreamHandler]
    BY <1>22, <1>s DEF StreamMark, StreamHandler, NoStream
  <2> QED
    BY <1>22, <2>2, <2>3 DEF StreamMark, TypeOK
<1>23. ASSUME NEW s \in Streams, StreamClosed(s)
       PROVE  TypeOK'
  <2>1. stream' \in [Streams -> StreamHandler]
    BY <1>23, <1>s DEF StreamClosed, StreamHandler, NoStream
  <2> QED
    BY <1>23, <2>1 DEF StreamClosed, TypeOK
<1>24. CASE SweepRead
  BY <1>24 DEF SweepRead, TypeOK
<1>25. ASSUME NEW r \in Rows, SweepMark(r)
       PROVE  TypeOK'
  <2>1. row' \in [Rows -> WorkerRow] /\ faults' \in 0..MaxDBFaults
    BY <1>25, <1>r, UpdateStatusType DEF SweepMark, Status
  <2> QED
    BY <1>25, <2>1 DEF SweepMark, TypeOK
<1>26. ASSUME NEW r \in Rows, Age(r) \/ SetApps(r)
       PROVE  TypeOK'
  <2>1. row' \in [Rows -> WorkerRow]
    <3>1. [row[r] EXCEPT !.beat = "stale"] \in WorkerRow
      BY <1>r DEF WorkerRow
    <3>2. [row[r] EXCEPT !.apps = ~row[r].apps] \in WorkerRow
      BY <1>r DEF WorkerRow
    <3> QED
      BY <1>26, <1>r, <3>1, <3>2 DEF Age, SetApps
  <2> QED
    BY <1>26, <2>1 DEF Age, SetApps, TypeOK
<1>27. ASSUME NEW t \in Tokens, Expire(t)
       PROVE  TypeOK'
  <2>1. token' \in [Tokens -> TokenRecord]
    BY <1>27, <1>t DEF Expire, TokenRecord
  <2> QED
    BY <1>27, <2>1 DEF Expire, TypeOK
<1>28. CASE Restart
  <2>1. token' \in [Tokens -> TokenRecord]
    BY <1>28, <1>t DEF Restart, TokenRecord
  <2>2. stream' \in [Streams -> StreamHandler]
    BY <1>28 DEF Restart, StreamHandler, NoStream
  <2>3. join' \in [Joins -> JoinHandler] /\ admin' \in [Admins -> AdminRequest]
    BY <1>28 DEF Restart, JoinHandler, NoJoin, AdminRequest, NoRequest
  <2>4. restarts' \in 0..MaxRestarts
    BY <1>28, BoundsAreNaturals DEF Restart, TypeOK
  <2> QED
    BY <1>28, <2>1, <2>2, <2>3, <2>4 DEF Restart, TypeOK
<1>29. CASE UNCHANGED vars
  BY <1>29 DEF vars, TypeOK
<1> QED
  BY <1>1, <1>2, <1>3, <1>4, <1>5, <1>6, <1>7, <1>8, <1>9, <1>10, <1>11,
     <1>12, <1>13, <1>14, <1>15, <1>16, <1>17, <1>18, <1>19, <1>20, <1>21,
     <1>22, <1>23, <1>24, <1>25, <1>26, <1>27, <1>28, <1>29
     DEF Next, AdminStep, JoinStep, StreamStep

LEMMA TypeInit == Init => TypeOK
<1> SUFFICES ASSUME Init PROVE TypeOK
  OBVIOUS
<1>1. entry \in [Entries -> EntryObject] /\ row \in [Rows -> WorkerRow]
  BY DEF Init, EntryObject, NewEntry, WorkerRow, NewRow, Status
<1>2. token \in [Tokens -> TokenRecord] /\ join \in [Joins -> JoinHandler]
  BY DEF Init, TokenRecord, NewToken, JoinHandler, NoJoin
<1>3. stream \in [Streams -> StreamHandler] /\ admin \in [Admins -> AdminRequest]
  BY DEF Init, StreamHandler, NoStream, AdminRequest, NoRequest
<1> QED
  BY <1>1, <1>2, <1>3, BoundsAreNaturals DEF Init, TypeOK

(* Every variable of the registry, its table and its handlers always has   *)
(* its type; a handler's local variables hold what its next action needs.  *)
THEOREM TypeCorrect == Spec => []TypeOK
  BY TypeInit, TypeStep, PTL DEF Spec

---------------------------------------------------------------------------
(* Command channels *)

(* A step that adds nothing to the map, renames and closes no entry and    *)
(* brings no request to the point of closing keeps TableInv.               *)
LEMMA TableFrame ==
  ASSUME TableInv,
         \A n \in Workers : workers'[n] = workers[n] \/ workers'[n] = None,
         \A e \in Entries : /\ entry'[e].name = entry[e].name
                            /\ entry'[e].open = entry[e].open,
         \A n \in Workers : workers[n] \in Entries \cup {None},
         \A a \in Admins : admin[a].entry \in Entries \cup {None},
         \A a \in Admins : admin'[a].pc = "close" => admin'[a] = admin[a]
  PROVE  TableInv'
<1>1. ASSUME NEW n \in Workers, workers'[n] # None
      PROVE  /\ workers'[n] = workers[n]
             /\ workers[n] \in Entries
             /\ entry'[workers'[n]].name = n
             /\ entry'[workers'[n]].open
  BY <1>1 DEF TableInv
<1>2. ASSUME NEW a \in Admins, admin'[a].pc = "close", admin'[a].entry # None
      PROVE  /\ entry'[admin'[a].entry].name # None
             /\ entry'[admin'[a].entry].open
             /\ \A n \in Workers : workers'[n] # admin'[a].entry
             /\ \A b \in Admins \ {a} :
                  admin'[b].pc = "close" => admin'[b].entry # admin'[a].entry
  BY <1>2 DEF TableInv, ChannelCloseIsSafe
<1> QED
  BY <1>1, <1>2 DEF TableInv, ChannelCloseIsSafe

(* A new entry in the map under a free name.                               *)
LEMMA TableInsert ==
  ASSUME TypeOK, TableInv,
         NEW n \in Workers, NEW e \in Entries, NEW r, NEW t,
         Insert(n, e, r, t), UNCHANGED admin
  PROVE  TableInv'
<1>w. /\ workers \in [Workers -> Entries \cup {None}]
      /\ entry \in [Entries -> EntryObject]
      /\ admin \in [Admins -> AdminRequest]
  BY DEF TypeOK
<1>1. /\ workers' = [workers EXCEPT ![n] = e]
      /\ entry' = [entry EXCEPT ![e] = [name |-> n, dbid |-> r, open |-> TRUE,
                                        token |-> t]]
      /\ entry[e].name = None
  BY DEF Insert
<1>2. None \notin Workers /\ None \notin Entries
  BY NoneIsNothing
<1>3. \A m \in Workers : workers[m] # e
  BY <1>1, <1>2 DEF TableInv
<1>4. \A a \in Admins : (admin[a].pc = "close" /\ admin[a].entry # None)
                          => admin[a].entry # e /\ admin[a].entry \in Entries
  BY <1>w, <1>1 DEF TableInv, AdminRequest
<1>5. \A f \in Entries : f # e => entry'[f] = entry[f]
  BY <1>w, <1>1
<1>6. entry'[e].name = n /\ entry'[e].open
  BY <1>w, <1>1
<1>7. \A m \in Workers : workers'[m] # None =>
        entry'[workers'[m]].name = m /\ entry'[workers'[m]].open
  BY <1>w, <1>1, <1>3, <1>5, <1>6 DEF TableInv
<1>8. \A a \in Admins : (admin[a].pc = "close" /\ admin[a].entry # None) =>
        /\ entry'[admin[a].entry].name # None
        /\ entry'[admin[a].entry].open
        /\ \A m \in Workers : workers'[m] # admin[a].entry
        /\ \A b \in Admins \ {a} :
             admin[b].pc = "close" => admin[b].entry # admin[a].entry
  BY <1>w, <1>1, <1>4, <1>5 DEF TableInv, ChannelCloseIsSafe
<1> QED
  BY <1>7, <1>8 DEF TableInv, ChannelCloseIsSafe, Insert

LEMMA TableStep ==
  ASSUME TypeOK, TableInv, [Next]_vars
  PROVE  TableInv'
<1>w. /\ \A n \in Workers : workers[n] \in Entries \cup {None}
      /\ workers \in [Workers -> Entries \cup {None}]
      /\ entry \in [Entries -> EntryObject]
  BY DEF TypeOK
<1>a. /\ admin \in [Admins -> AdminRequest]
      /\ \A a \in Admins : /\ admin[a].entry \in Entries \cup {None}
                           /\ admin[a] = admin[a]
  BY DEF TypeOK, AdminRequest
<1>s. stream \in [Streams -> StreamHandler]
  BY DEF TypeOK
<1>j. join \in [Joins -> JoinHandler]
  BY DEF TypeOK
<1>n. NoRequest.pc # "close"
  BY DEF NoRequest
<1>1. CASE UNCHANGED <<workers, entry, admin>>
  BY <1>1, <1>w, <1>a, TableFrame
<1>2. ASSUME NEW a \in Admins, NEW n \in Workers, PreregisterLookup(a, n)
      PROVE  TableInv'
  <2>1. \A b \in Admins : admin'[b].pc = "close" => admin'[b] = admin[b]
    BY <1>2, <1>a DEF PreregisterLookup, NoRequest
  <2> QED
    BY <1>2, <2>1, <1>w, <1>a, TableFrame DEF PreregisterLookup
<1>3. ASSUME NEW a \in Admins, NEW r \in Rows, DeregisterCheck(a, r)
      PROVE  TableInv'
  <2>1. \A b \in Admins : admin'[b].pc = "close" => admin'[b] = admin[b]
    BY <1>3, <1>a DEF DeregisterCheck, NoRequest
  <2> QED
    BY <1>3, <2>1, <1>w, <1>a, TableFrame DEF DeregisterCheck
<1>4. ASSUME NEW a \in Admins, PreregisterEvict(a)
      PROVE  TableInv'
  <2>1. \A b \in Admins : admin'[b].pc = "close" => admin'[b] = admin[b]
    BY <1>4, <1>a DEF PreregisterEvict, AdminRequest
  <2>2. \A n \in Workers : workers'[n] = workers[n] \/ workers'[n] = None
    BY <1>4, <1>w DEF PreregisterEvict, Evict
  <2> QED
    BY <1>4, <2>1, <2>2, <1>w, <1>a, TableFrame DEF PreregisterEvict
<1>5. ASSUME NEW a \in Admins,
             \/ PreregisterMark(a) \/ PreregisterReset(a) \/ DeregisterDelete(a)
      PROVE  TableInv'
  <2>1. \A b \in Admins : admin'[b].pc = "close" => admin'[b] = admin[b]
    <3>1. CASE admin' = [admin EXCEPT ![a].pc = "reset"]
      BY <3>1, <1>a DEF AdminRequest
    <3>2. CASE admin' = [admin EXCEPT ![a] = NoRequest]
      BY <3>2, <1>a, <1>n
    <3> QED
      BY <1>5, <3>1, <3>2
         DEF PreregisterMark, PreregisterReset, DeregisterDelete
  <2>2. UNCHANGED <<workers, entry>>
    BY <1>5 DEF PreregisterMark, PreregisterReset, DeregisterDelete
  <2> QED
    BY <2>1, <2>2, <1>w, <1>a, TableFrame
<1>6. ASSUME NEW a \in Admins, DeregisterRemove(a)
      PROVE  TableInv'
  <2>1. CASE /\ admin' = [admin EXCEPT ![a].pc = "close"]
             /\ UNCHANGED <<workers, entry>>
             /\ admin[a].entry = None
    <3>1. \A b \in Admins : /\ b # a => admin'[b] = admin[b]
                            /\ admin'[b].entry = admin[b].entry
      BY <2>1, <1>a DEF AdminRequest
    <3> QED
      BY <2>1, <3>1, <1>a DEF TableInv, ChannelCloseIsSafe
  <2>2. ASSUME NEW n \in Workers, workers[n] # None,
               workers' = [workers EXCEPT ![n] = None],
               admin' = [admin EXCEPT ![a].pc = "close",
                                      ![a].entry = workers[n]],
               UNCHANGED entry
        PROVE  TableInv'
    <3>1. \A b \in Admins : b # a => admin'[b] = admin[b]
      BY <2>2, <1>a
    <3>2. admin'[a].entry = workers[n] /\ workers[n] \in Entries
      BY <2>2, <1>a, <1>w DEF AdminRequest
    <3>3. entry[workers[n]].name = n /\ entry[workers[n]].open
      BY <2>2 DEF TableInv
    <3>4. \A m \in Workers : workers'[m] # None =>
            /\ workers'[m] = workers[m] /\ m # n
            /\ entry[workers[m]].name = m
            /\ entry[workers[m]].open
      BY <2>2, <1>w DEF TableInv
    <3>5. \A m \in Workers : workers'[m] # workers[n]
      BY <2>2, <3>3, <3>4
    <3>6. \A b \in Admins \ {a} :
            (admin[b].pc = "close" /\ admin[b].entry # None) =>
               /\ admin[b].entry # workers[n]
               /\ \A m \in Workers : workers'[m] # admin[b].entry
      BY <2>2, <3>4 DEF TableInv, ChannelCloseIsSafe
    <3>7. ASSUME NEW b \in Admins, admin'[b].pc = "close",
                 admin'[b].entry # None
          PROVE  /\ entry[admin'[b].entry].name # None
                 /\ entry[admin'[b].entry].open
                 /\ \A m \in Workers : workers'[m] # admin'[b].entry
                 /\ \A c \in Admins \ {b} :
                      admin'[c].pc = "close" => admin'[c].entry # admin'[b].entry
      <4>1. CASE b = a
        BY <4>1, <3>1, <3>2, <3>3, <3>5, <3>6, <2>2, NoneIsNothing
      <4>2. CASE b # a
        BY <4>2, <3>7, <3>1, <3>2, <3>6, NoneIsNothing
           DEF TableInv, ChannelCloseIsSafe
      <4> QED
        BY <4>1, <4>2
    <3> QED
      BY <2>2, <3>4, <3>7 DEF TableInv, ChannelCloseIsSafe
  <2> QED
    BY <1>6, <1>a, <2>1, <2>2
       DEF DeregisterRemove, EntriesOfRow, Evict, AdminRequest
<1>7. ASSUME NEW a \in Admins, DeregisterClose(a)
      PROVE  TableInv'
  <2>1. \A b \in Admins : b # a => admin'[b] = admin[b]
    BY <1>7, <1>a DEF DeregisterClose
  <2>2. admin'[a].pc # "close"
    BY <1>7, <1>a DEF DeregisterClose, AdminRequest
  <2>3. UNCHANGED workers /\ admin[a].pc = "close"
    BY <1>7 DEF DeregisterClose
  <2>4. CASE admin[a].entry = None
    BY <1>7, <2>1, <2>2, <2>3, <2>4
       DEF DeregisterClose, TableInv, ChannelCloseIsSafe
  <2>5. CASE admin[a].entry # None
    <3>1. admin[a].entry \in Entries
      BY <1>a, <2>5
    <3>2. /\ \A e \in Entries : entry'[e].name = entry[e].name
          /\ \A e \in Entries : e # admin[a].entry => entry'[e] = entry[e]
      BY <1>7, <1>w, <2>5 DEF DeregisterClose, EntryObject
    <3>3. \A n \in Workers : workers[n] # admin[a].entry
      BY <2>3, <2>5 DEF TableInv, ChannelCloseIsSafe
    <3>4. \A b \in Admins \ {a} :
            admin[b].pc = "close" => admin[b].entry # admin[a].entry
      BY <2>3, <2>5 DEF TableInv, ChannelCloseIsSafe
    <3>5. \A n \in Workers : workers'[n] # None =>
            entry'[workers'[n]].name = n /\ entry'[workers'[n]].open
      BY <1>w, <2>3, <3>2, <3>3 DEF TableInv
    <3>6. ASSUME NEW b \in Admins, admin'[b].pc = "close",
                 admin'[b].entry # None
          PROVE  /\ entry'[admin'[b].entry].name # None
                 /\ entry'[admin'[b].entry].open
                 /\ \A n \in Workers : workers'[n] # admin'[b].entry
                 /\ \A c \in Admins \ {b} :
                      admin'[c].pc = "close" => admin'[c].entry # admin'[b].entry
      <4>1. b # a /\ admin'[b] = admin[b]
        BY <2>1, <2>2, <3>6
      <4> QED
        BY <1>a, <2>1, <2>2, <2>3, <3>2, <3>4, <3>6, <4>1
           DEF TableInv, ChannelCloseIsSafe
    <3> QED
      BY <3>5, <3>6 DEF TableInv, ChannelCloseIsSafe
  <2> QED
    BY <2>4, <2>5
<1>8. ASSUME NEW j \in Joins, JoinInsert(j)
      PROVE  TableInv'
  <2>1. join[j].name \in Workers
    BY <1>8, <1>j DEF JoinInsert, JoinHandler
  <2>2. CASE UNCHANGED <<workers, entry>>
    BY <1>8, <2>2, <1>w, <1>a, TableFrame DEF JoinInsert
  <2> QED
    BY <1>8, <2>1, <2>2, TableInsert DEF JoinInsert
<1>9. ASSUME NEW s \in Streams, RestoreInsert(s)
      PROVE  TableInv'
  <2>1. stream[s].name \in Workers
    BY <1>9, <1>s DEF RestoreInsert, StreamHandler
  <2>2. CASE UNCHANGED <<workers, entry>>
    BY <1>9, <2>2, <1>w, <1>a, TableFrame DEF RestoreInsert
  <2> QED
    BY <1>9, <2>1, <2>2, TableInsert DEF RestoreInsert
<1>10. ASSUME NEW j \in Joins, JoinSetID(j)
       PROVE  TableInv'
  <2>1. \A e \in Entries : /\ entry'[e].name = entry[e].name
                           /\ entry'[e].open = entry[e].open
    BY <1>10, <1>w DEF JoinSetID, EntryObject
  <2> QED
    BY <1>10, <2>1, <1>w, <1>a, TableFrame DEF JoinSetID
<1>11. ASSUME NEW s \in Streams, StreamEvict(s)
       PROVE  TableInv'
  <2>1. \A n \in Workers : workers'[n] = workers[n] \/ workers'[n] = None
    BY <1>11, <1>w DEF StreamEvict, Evict
  <2> QED
    BY <1>11, <2>1, <1>w, <1>a, TableFrame DEF StreamEvict
<1>12. CASE Restart
  <2>1. \A b \in Admins : admin'[b].pc # "close"
    BY <1>12, <1>n DEF Restart
  <2>2. \A n \in Workers : workers'[n] = None
    BY <1>12 DEF Restart
  <2> QED
    BY <1>12, <2>1, <2>2, <1>w, <1>a, TableFrame DEF Restart
<1>13. ASSUME NEW j \in Joins, NEW t \in Tokens, JoinValidate(j, t)
       PROVE  UNCHANGED <<workers, entry, admin>>
  BY <1>13 DEF JoinValidate
<1>14. ASSUME NEW s \in Streams, NEW n \in Workers, StreamOpen(s, n)
       PROVE  UNCHANGED <<workers, entry, admin>>
  BY <1>14 DEF StreamOpen
<1>15. ASSUME NEW s \in Streams,
              \/ RestoreLookup(s) \/ RestoreReady(s) \/ FirstBeat(s)
              \/ WriteBeat(s) \/ StreamMark(s) \/ StreamClosed(s)
              \/ NextBeat(s) \/ LinkDown(s)
       PROVE  UNCHANGED <<workers, entry, admin>>
  BY <1>15 DEF RestoreLookup, RestoreReady, FirstBeat, WriteBeat, StreamMark,
               StreamClosed, NextBeat, LinkDown
<1>16. ASSUME NEW r \in Rows, SweepMark(r) \/ Age(r) \/ SetApps(r)
       PROVE  UNCHANGED <<workers, entry, admin>>
  BY <1>16 DEF SweepMark, Age, SetApps
<1>17. ASSUME NEW t \in Tokens, Expire(t)
       PROVE  UNCHANGED <<workers, entry, admin>>
  BY <1>17 DEF Expire
<1>18. ASSUME NEW j \in Joins, JoinUpsert(j)
       PROVE  UNCHANGED <<workers, entry, admin>>
  BY <1>18 DEF JoinUpsert
<1>19. CASE SweepRead
  BY <1>19, <1>1 DEF SweepRead
<1>20. CASE UNCHANGED vars
  BY <1>20, <1>1 DEF vars
<1> QED
  BY <1>1, <1>2, <1>3, <1>4, <1>5, <1>6, <1>7, <1>8, <1>9, <1>10, <1>11,
     <1>12, <1>13, <1>14, <1>15, <1>16, <1>17, <1>18, <1>19, <1>20
     DEF Next, AdminStep, JoinStep, StreamStep

LEMMA TableInit == Init => TableInv
  BY DEF Init, TableInv, ChannelCloseIsSafe, NoRequest

(* Closing a command channel is safe (registry.go Deregister).             *)
THEOREM ChannelCloseSafety == Spec => []ChannelCloseIsSafe
<1>1. TypeOK /\ TableInv /\ [Next]_vars => TableInv'
  BY TableStep
<1>2. TableInv => ChannelCloseIsSafe
  BY DEF TableInv
<1> QED
  BY <1>1, <1>2, TableInit, TypeCorrect, PTL DEF Spec

---------------------------------------------------------------------------
(* The registry implements the connection table *)

(* What LifeOf says of an entry, case by case.                             *)
LEMMA LifeCases ==
  ASSUME NEW e \in Entries
  PROVE  /\ entry[e].name = None => LifeOf(e) = "new"
         /\ (entry[e].name # None /\ \E n \in Workers : workers[n] = e)
              => LifeOf(e) = "attached"
         /\ (entry[e].name # None /\ \A n \in Workers : workers[n] # e)
              => LifeOf(e) = IF entry[e].open THEN "evicted" ELSE "closed"
  BY DEF LifeOf

LEMMA LifeCasesNext ==
  ASSUME NEW e \in Entries
  PROVE  /\ entry'[e].name = None => LifeOf(e)' = "new"
         /\ (entry'[e].name # None /\ \E n \in Workers : workers'[n] = e)
              => LifeOf(e)' = "attached"
         /\ (entry'[e].name # None /\ \A n \in Workers : workers'[n] # e)
              => LifeOf(e)' = IF entry'[e].open THEN "evicted" ELSE "closed"
  BY DEF LifeOf

(* A step that leaves the map and the entries' names and channels alone is *)
(* a stutter of the table.                                                 *)
LEMMA TableStutter ==
  ASSUME UNCHANGED workers,
         \A e \in Entries : /\ entry'[e].name = entry[e].name
                            /\ entry'[e].open = entry[e].open
  PROVE  UNCHANGED <<workers, [e \in Entries |-> LifeOf(e)]>>
<1>1. ASSUME NEW e \in Entries
      PROVE  LifeOf(e)' = LifeOf(e)
  BY DEF LifeOf
<1> QED
  BY <1>1

LEMMA InsertAttaches ==
  ASSUME TypeOK, TableInv,
         NEW n \in Workers, NEW e \in Entries, NEW r, NEW t,
         Insert(n, e, r, t)
  PROVE  Table!Attach(n, e)
<1> DEFINE life == [f \in Entries |-> LifeOf(f)]
<1>w. /\ workers \in [Workers -> Entries \cup {None}]
      /\ entry \in [Entries -> EntryObject]
      /\ None \notin Entries /\ None \notin Workers
  BY NoneIsNothing DEF TypeOK
<1>1. /\ workers' = [workers EXCEPT ![n] = e] /\ workers[n] = None
      /\ entry[e].name = None
      /\ entry'[e].name = n
      /\ \A f \in Entries : f # e => entry'[f] = entry[f]
  BY <1>w DEF Insert
<1>2. LifeOf(e) = "new"
  BY <1>1, LifeCases
<1>3. workers'[n] = e
  BY <1>1, <1>w
<1>4. LifeOf(e)' = "attached"
  BY <1>1, <1>3, <1>w, LifeCasesNext
<1>5. ASSUME NEW f \in Entries, f # e
      PROVE  LifeOf(f)' = LifeOf(f)
  <2>1. (\E m \in Workers : workers'[m] = f) <=> (\E m \in Workers : workers[m] = f)
    BY <1>1, <1>w, <1>5
  <2> QED
    BY <2>1, <1>1, <1>5, LifeCases, LifeCasesNext
<1>6. life' = [life EXCEPT ![e] = "attached"]
  BY <1>4, <1>5
<1> QED
  BY <1>1, <1>2, <1>6 DEF Table!Attach

LEMMA EvictDetaches ==
  ASSUME TypeOK, TableInv, NEW n \in Workers, Evict(n), UNCHANGED entry
  PROVE  Table!Detach(n) \/ UNCHANGED <<workers, [e \in Entries |-> LifeOf(e)]>>
<1> DEFINE life == [f \in Entries |-> LifeOf(f)]
<1>w. /\ workers \in [Workers -> Entries \cup {None}]
      /\ None \notin Entries /\ None \notin Workers
  BY NoneIsNothing DEF TypeOK
<1>1. CASE workers[n] = None
  <2>1. UNCHANGED workers
    BY <1>w, <1>1 DEF Evict
  <2> QED
    BY <2>1, TableStutter
<1>2. CASE workers[n] # None
  <2>0. PICK x \in Entries : x = workers[n]
    BY <1>w, <1>2
  <2>1. /\ x = workers[n]
        /\ entry[x].name = n /\ entry[x].open
        /\ workers' = [workers EXCEPT ![n] = None]
    BY <1>w, <1>2, <2>0 DEF TableInv, Evict
  <2>2. \A m \in Workers : workers'[m] # x
    BY <1>w, <1>2, <2>1 DEF TableInv
  <2>3. LifeOf(x)' = "evicted"
    BY <1>w, <2>1, <2>2, LifeCasesNext
  <2>4. ASSUME NEW f \in Entries, f # x
        PROVE  LifeOf(f)' = LifeOf(f)
    <3>1. (\E m \in Workers : workers'[m] = f)
            <=> (\E m \in Workers : workers[m] = f)
      BY <1>w, <2>1, <2>4
    <3> QED
      BY <3>1, <2>4, LifeCases, LifeCasesNext
  <2>5. life' = [life EXCEPT ![x] = "evicted"]
    BY <2>3, <2>4
  <2> QED
    BY <1>2, <2>1, <2>5 DEF Table!Detach
<1> QED
  BY <1>1, <1>2

LEMMA TableRefinementStep ==
  ASSUME TypeOK, TableInv, [Next]_vars
  PROVE  [Table!Next]_<<workers, [e \in Entries |-> LifeOf(e)]>>
<1> DEFINE life == [f \in Entries |-> LifeOf(f)]
<1>w. /\ workers \in [Workers -> Entries \cup {None}]
      /\ entry \in [Entries -> EntryObject]
      /\ None \notin Entries /\ None \notin Workers
  BY NoneIsNothing DEF TypeOK
<1>a. admin \in [Admins -> AdminRequest]
  BY DEF TypeOK
<1>s. stream \in [Streams -> StreamHandler]
  BY DEF TypeOK
<1>j. join \in [Joins -> JoinHandler]
  BY DEF TypeOK
<1>1. CASE UNCHANGED <<workers, entry>>
  BY <1>1, TableStutter
<1>2. ASSUME NEW n \in Workers, Evict(n), UNCHANGED entry
      PROVE  [Table!Next]_<<workers, life>>
  BY <1>2, EvictDetaches DEF Table!Next
<1>3. ASSUME NEW n \in Workers, NEW e \in Entries, NEW r, NEW t,
             Insert(n, e, r, t)
      PROVE  [Table!Next]_<<workers, life>>
  BY <1>3, InsertAttaches DEF Table!Next
<1>4. ASSUME NEW a \in Admins, PreregisterEvict(a)
      PROVE  [Table!Next]_<<workers, life>>
  <2>1. admin[a].name \in Workers
    BY <1>4, <1>a DEF PreregisterEvict, AdminRequest
  <2> QED
    BY <1>2, <1>4, <2>1 DEF PreregisterEvict
<1>5. ASSUME NEW a \in Admins, DeregisterRemove(a)
      PROVE  [Table!Next]_<<workers, life>>
  BY <1>1, <1>2, <1>5 DEF DeregisterRemove, EntriesOfRow
<1>6. ASSUME NEW a \in Admins, DeregisterClose(a), admin[a].entry # None
      PROVE  [Table!Next]_<<workers, life>>
  <2>0. PICK x \in Entries : x = admin[a].entry
    BY <1>a, <1>6 DEF AdminRequest
  <2>1. /\ x = admin[a].entry
        /\ entry[x].name # None /\ entry[x].open
        /\ \A n \in Workers : workers[n] # x
    BY <2>0, <1>6 DEF DeregisterClose, TableInv, ChannelCloseIsSafe
  <2>2. /\ UNCHANGED workers
        /\ entry'[x].name = entry[x].name /\ ~entry'[x].open
        /\ \A f \in Entries : f # x => entry'[f] = entry[f]
    BY <1>6, <1>w, <2>1 DEF DeregisterClose, EntryObject
  <2>3. LifeOf(x) = "evicted"
    BY <2>1, LifeCases
  <2>4. LifeOf(x)' = "closed"
    BY <2>1, <2>2, LifeCasesNext
  <2>5. ASSUME NEW f \in Entries, f # x
        PROVE  LifeOf(f)' = LifeOf(f)
    BY <2>2, <2>5, LifeCases, LifeCasesNext
  <2>6. life' = [life EXCEPT ![x] = "closed"]
    BY <2>4, <2>5
  <2>7. Table!Close(x)
    BY <2>1, <2>2, <2>3, <2>6 DEF Table!Close
  <2> QED
    BY <2>1, <2>7 DEF Table!Next
<1>7. ASSUME NEW a \in Admins, DeregisterClose(a), admin[a].entry = None
      PROVE  UNCHANGED <<workers, entry>>
  BY <1>7 DEF DeregisterClose
<1>8. ASSUME NEW j \in Joins, JoinInsert(j)
      PROVE  [Table!Next]_<<workers, life>>
  <2>1. join[j].name \in Workers
    BY <1>8, <1>j DEF JoinInsert, JoinHandler
  <2> QED
    BY <1>1, <1>3, <1>8, <2>1 DEF JoinInsert
<1>9. ASSUME NEW s \in Streams, RestoreInsert(s)
      PROVE  [Table!Next]_<<workers, life>>
  <2>1. stream[s].name \in Workers
    BY <1>9, <1>s DEF RestoreInsert, StreamHandler
  <2> QED
    BY <1>1, <1>3, <1>9, <2>1 DEF RestoreInsert
<1>10. ASSUME NEW j \in Joins, JoinSetID(j)
       PROVE  [Table!Next]_<<workers, life>>
  <2>1. \A e \in Entries : /\ entry'[e].name = entry[e].name
                           /\ entry'[e].open = entry[e].open
    BY <1>10, <1>w DEF JoinSetID, EntryObject
  <2> QED
    BY <1>10, <2>1, TableStutter DEF JoinSetID
<1>11. ASSUME NEW s \in Streams, StreamEvict(s)
       PROVE  [Table!Next]_<<workers, life>>
  <2>1. stream[s].name \in Workers
    BY <1>11, <1>s DEF StreamEvict, StreamHandler
  <2> QED
    BY <1>2, <1>11, <2>1 DEF StreamEvict
<1>12. CASE Restart
  <2>1. workers' = [n \in Workers |-> None] /\ UNCHANGED entry
    BY <1>12 DEF Restart
  <2>2. ASSUME NEW f \in Entries
        PROVE  LifeOf(f)' = IF LifeOf(f) = "attached" THEN "evicted"
                            ELSE LifeOf(f)
    <3>1. \A n \in Workers : workers'[n] # f
      BY <1>w, <2>1
    <3>2. CASE entry[f].name = None
      BY <2>1, <3>2, LifeCases, LifeCasesNext
    <3>3. CASE entry[f].name # None /\ \E n \in Workers : workers[n] = f
      <4>1. entry[f].open
        BY <1>w, <3>3 DEF TableInv
      <4> QED
        BY <2>1, <3>1, <3>3, <4>1, LifeCases, LifeCasesNext
    <3>4. CASE entry[f].name # None /\ \A n \in Workers : workers[n] # f
      BY <2>1, <3>1, <3>4, LifeCases, LifeCasesNext
    <3> QED
      BY <3>2, <3>3, <3>4
  <2>3. life' = [f \in Entries |-> IF life[f] = "attached" THEN "evicted"
                                   ELSE life[f]]
    BY <2>2
  <2> QED
    BY <2>1, <2>3 DEF Table!Next, Table!DetachAll
<1>13. ASSUME NEW a \in Admins,
              \/ PreregisterMark(a) \/ PreregisterReset(a) \/ DeregisterDelete(a)
              \/ (\E n \in Workers : PreregisterLookup(a, n))
              \/ (\E r \in Rows : DeregisterCheck(a, r))
       PROVE  UNCHANGED <<workers, entry>>
  BY <1>13 DEF PreregisterMark, PreregisterReset, DeregisterDelete,
               PreregisterLookup, DeregisterCheck
<1>14. ASSUME NEW j \in Joins,
              JoinUpsert(j) \/ \E t \in Tokens : JoinValidate(j, t)
       PROVE  UNCHANGED <<workers, entry>>
  BY <1>14 DEF JoinValidate, JoinUpsert
<1>15. ASSUME NEW s \in Streams,
              \/ RestoreLookup(s) \/ RestoreReady(s) \/ FirstBeat(s)
              \/ WriteBeat(s) \/ StreamMark(s) \/ StreamClosed(s)
              \/ NextBeat(s) \/ LinkDown(s)
              \/ \E n \in Workers : StreamOpen(s, n)
       PROVE  UNCHANGED <<workers, entry>>
  BY <1>15 DEF RestoreLookup, RestoreReady, FirstBeat, WriteBeat, StreamMark,
               StreamClosed, NextBeat, LinkDown, StreamOpen
<1>16. ASSUME NEW r \in Rows, SweepMark(r) \/ Age(r) \/ SetApps(r)
       PROVE  UNCHANGED <<workers, entry>>
  BY <1>16 DEF SweepMark, Age, SetApps
<1>17. ASSUME NEW t \in Tokens, Expire(t)
       PROVE  UNCHANGED <<workers, entry>>
  BY <1>17 DEF Expire
<1>18. CASE SweepRead \/ UNCHANGED vars
  BY <1>18, <1>1 DEF SweepRead, vars
<1> QED
  BY <1>1, <1>4, <1>5, <1>6, <1>7, <1>8, <1>9, <1>10, <1>11, <1>12, <1>13,
     <1>14, <1>15, <1>16, <1>17, <1>18
     DEF Next, AdminStep, JoinStep, StreamStep

(* The registry implements the connection table: whatever its handlers do, *)
(* seen from the map and the channels it only attaches, detaches and       *)
(* closes connections as ConnectionTable allows.                           *)
THEOREM TableRefinement == Spec => ImplementsTable
<1>1. Init => Table!Init
  BY DEF Init, Table!Init, LifeOf, NewEntry
<1>2. TypeOK /\ TableInv /\ [Next]_vars
        => [Table!Next]_<<workers, [e \in Entries |-> LifeOf(e)]>>
  BY TableRefinementStep
<1>3. TypeOK /\ TableInv /\ [Next]_vars => TableInv'
  BY TableStep
<1> QED
  BY <1>1, <1>2, <1>3, TableInit, TypeCorrect, PTL
     DEF Spec, ImplementsTable, Table!Spec

---------------------------------------------------------------------------
(* Which actions write which variable *)

LEMMA TokenWriters ==
  ASSUME [Next]_vars
  PROVE  \/ UNCHANGED token
         \/ \E a \in Admins : PreregisterReset(a)
         \/ \E j \in Joins, t \in Tokens : JoinValidate(j, t)
         \/ \E t \in Tokens : Expire(t)
         \/ Restart
BY DEF Next, AdminStep, JoinStep, StreamStep, vars, PreregisterLookup,
       PreregisterEvict, PreregisterMark, DeregisterCheck, DeregisterRemove,
       DeregisterClose, DeregisterDelete, JoinInsert, JoinUpsert, JoinSetID,
       StreamOpen, RestoreLookup, RestoreInsert, RestoreReady, FirstBeat,
       NextBeat, WriteBeat, LinkDown, StreamEvict, StreamMark, StreamClosed,
       SweepRead, SweepMark, Age, SetApps

LEMMA EntryWriters ==
  ASSUME [Next]_vars
  PROVE  \/ UNCHANGED entry
         \/ \E a \in Admins : DeregisterClose(a)
         \/ \E j \in Joins : JoinInsert(j) \/ JoinSetID(j)
         \/ \E s \in Streams : RestoreInsert(s)
BY DEF Next, AdminStep, JoinStep, StreamStep, vars, PreregisterLookup,
       PreregisterEvict, PreregisterMark, PreregisterReset, DeregisterCheck,
       DeregisterRemove, DeregisterDelete, JoinValidate, JoinUpsert,
       StreamOpen, RestoreLookup, RestoreReady, FirstBeat,
       NextBeat, WriteBeat, LinkDown, StreamEvict, StreamMark, StreamClosed,
       SweepRead, SweepMark, Age, SetApps, Expire, Restart

LEMMA JoinWriters ==
  ASSUME [Next]_vars
  PROVE  \/ UNCHANGED join
         \/ \E j \in Joins, t \in Tokens : JoinValidate(j, t)
         \/ \E j \in Joins : JoinInsert(j) \/ JoinUpsert(j) \/ JoinSetID(j)
         \/ Restart
BY DEF Next, AdminStep, JoinStep, StreamStep, vars, PreregisterLookup,
       PreregisterEvict, PreregisterMark, PreregisterReset, DeregisterCheck,
       DeregisterRemove, DeregisterClose, DeregisterDelete,
       StreamOpen, RestoreLookup, RestoreInsert, RestoreReady, FirstBeat,
       NextBeat, WriteBeat, LinkDown, StreamEvict, StreamMark, StreamClosed,
       SweepRead, SweepMark, Age, SetApps, Expire

LEMMA SweepWriters ==
  ASSUME [Next]_vars
  PROVE  \/ UNCHANGED sweep
         \/ SweepRead
         \/ \E r \in Rows : SweepMark(r)
         \/ Restart
BY DEF Next, AdminStep, JoinStep, StreamStep, vars, PreregisterLookup,
       PreregisterEvict, PreregisterMark, PreregisterReset, DeregisterCheck,
       DeregisterRemove, DeregisterClose, DeregisterDelete, JoinValidate,
       JoinInsert, JoinUpsert, JoinSetID,
       StreamOpen, RestoreLookup, RestoreInsert, RestoreReady, FirstBeat,
       NextBeat, WriteBeat, LinkDown, StreamEvict, StreamMark, StreamClosed,
       Age, SetApps, Expire

(* The writers of the table, by what they write.                           *)
LEMMA RowWriters ==
  ASSUME [Next]_vars
  PROVE  \/ UNCHANGED row
         \/ \E a \in Admins : \/ PreregisterMark(a)
                              \/ PreregisterReset(a)
                              \/ DeregisterDelete(a)
         \/ \E j \in Joins : JoinUpsert(j)
         \/ \E s \in Streams : RestoreReady(s) \/ WriteBeat(s) \/ StreamMark(s)
         \/ \E r \in Rows : SweepMark(r) \/ Age(r) \/ SetApps(r)
BY DEF Next, AdminStep, JoinStep, StreamStep, vars, PreregisterLookup,
       PreregisterEvict, DeregisterCheck,
       DeregisterRemove, DeregisterClose, JoinValidate,
       JoinInsert, JoinSetID,
       StreamOpen, RestoreLookup, RestoreInsert, FirstBeat,
       NextBeat, LinkDown, StreamEvict, StreamClosed,
       SweepRead, Expire, Restart

---------------------------------------------------------------------------
(* Bootstrap tokens *)

(* A spent token stays spent and keeps its worker.                         *)
LEMMA UsedStable ==
  ASSUME TypeOK, [Next]_vars, NEW t \in Tokens, token[t].state = "used"
  PROVE  token'[t] = token[t]
<1>t. token \in [Tokens -> TokenRecord]
  BY DEF TypeOK
<1>1. ASSUME NEW a \in Admins, PreregisterReset(a)
      PROVE  token'[t] = token[t]
  BY <1>1, <1>t DEF PreregisterReset
<1>2. ASSUME NEW j \in Joins, NEW u \in Tokens, JoinValidate(j, u)
      PROVE  token'[t] = token[t]
  BY <1>2, <1>t DEF JoinValidate
<1>3. ASSUME NEW u \in Tokens, Expire(u)
      PROVE  token'[t] = token[t]
  BY <1>3, <1>t DEF Expire
<1>4. CASE Restart
  BY <1>4, <1>t DEF Restart
<1> QED
  BY <1>1, <1>2, <1>3, <1>4, TokenWriters

(* A step in which no entry gets a token and no Register RPC gets past its *)
(* validation keeps TokenInv.                                              *)
LEMMA TokenFrame ==
  ASSUME TypeOK, TokenInv, [Next]_vars,
         \A e \in Entries : entry'[e].token \in {entry[e].token, None},
         \A j \in Joins : join'[j].pc # "idle" =>
           /\ join[j].pc # "idle"
           /\ join'[j].token = join[j].token
           /\ join'[j].name = join[j].name
           /\ join'[j].pc = "insert" => join[j].pc = "insert"
  PROVE  TokenInv'
<1>e. /\ \A e \in Entries : entry[e].token \in Tokens \cup {None}
      /\ \A j \in Joins : join[j].pc # "idle" => join[j].token \in Tokens
  BY DEF TypeOK, EntryObject, JoinHandler
<1>1. \A e \in Entries : entry'[e].token # None =>
        token'[entry'[e].token].state = "used"
  BY <1>e, UsedStable DEF TokenInv
<1>2. \A j \in Joins : join'[j].pc # "idle" =>
        /\ token'[join'[j].token].state = "used"
        /\ token'[join'[j].token].worker = join'[j].name
  BY <1>e, UsedStable DEF TokenInv
<1>3. \A j \in Joins : join'[j].pc = "insert" =>
        /\ \A e \in Entries : entry'[e].token # join'[j].token
        /\ \A k \in Joins \ {j} :
             join'[k].pc = "insert" => join'[k].token # join'[j].token
  <2>1. \A j \in Joins : join'[j].pc = "insert" =>
          /\ join[j].pc = "insert"
          /\ join'[j].token = join[j].token
          /\ join[j].token # None
    BY <1>e, NoneIsNothing
  <2> QED
    BY <2>1 DEF TokenInv
<1>4. TokenRegistersOnce'
  BY DEF TokenInv, TokenRegistersOnce
<1> QED
  BY <1>1, <1>2, <1>3, <1>4 DEF TokenInv

LEMMA TokenStep ==
  ASSUME TypeOK, TokenInv, [Next]_vars
  PROVE  TokenInv'
<1>e. /\ entry \in [Entries -> EntryObject]
      /\ \A e \in Entries : entry[e].token \in Tokens \cup {None}
  BY DEF TypeOK, EntryObject
<1>j. /\ join \in [Joins -> JoinHandler]
      /\ \A j \in Joins : join[j].pc # "idle" =>
           join[j].token \in Tokens /\ join[j].name \in Workers
  BY DEF TypeOK, JoinHandler
<1>t. token \in [Tokens -> TokenRecord]
  BY DEF TypeOK
<1>n. NoJoin.pc = "idle" /\ None \notin Tokens
  BY NoneIsNothing DEF NoJoin
<1> DEFINE Kept ==
      \A j \in Joins : join'[j].pc # "idle" =>
        /\ join[j].pc # "idle"
        /\ join'[j].token = join[j].token
        /\ join'[j].name = join[j].name
        /\ join'[j].pc = "insert" => join[j].pc = "insert"
<1> DEFINE NoToken == \A e \in Entries : entry'[e].token \in {entry[e].token, None}
<1>k. UNCHANGED join => Kept
  OBVIOUS
<1>f. Kept /\ NoToken => TokenInv'
  BY TokenFrame
<1> HIDE DEF Kept, NoToken
<1>1. ASSUME NEW j \in Joins, NEW t \in Tokens, JoinValidate(j, t)
      PROVE  TokenInv'
  <2>1. CASE UNCHANGED join
    BY <1>1, <2>1, <1>k, <1>f DEF JoinValidate, NoToken
  <2>2. CASE join' = [join EXCEPT ![j] =
                        [NoJoin EXCEPT !.pc = "insert",
                                       !.name = token[t].worker,
                                       !.token = t]]
    <3>1. /\ join'[j].pc = "insert" /\ join'[j].token = t
          /\ join'[j].name = token[t].worker
          /\ \A k \in Joins : k # j => join'[k] = join[k]
      BY <2>2, <1>j DEF NoJoin
    <3>2. /\ token[t].state = "issued"
          /\ token'[t].state = "used" /\ token'[t].worker = token[t].worker
          /\ UNCHANGED entry
      BY <1>1, <1>t DEF JoinValidate, TokenRecord
    <3>3. /\ \A e \in Entries : entry[e].token # t
          /\ \A k \in Joins : join[k].pc # "idle" => join[k].token # t
      BY <3>2, <1>n DEF TokenInv
    <3>4. \A e \in Entries : entry'[e].token # None =>
            token'[entry'[e].token].state = "used"
      BY <3>2, <1>e, UsedStable DEF TokenInv
    <3>5. \A k \in Joins : join'[k].pc # "idle" =>
            /\ token'[join'[k].token].state = "used"
            /\ token'[join'[k].token].worker = join'[k].name
      BY <3>1, <3>2, <1>j, UsedStable DEF TokenInv
    <3>6. \A k \in Joins : join'[k].pc = "insert" =>
            /\ \A e \in Entries : entry'[e].token # join'[k].token
            /\ \A l \in Joins \ {k} :
                 join'[l].pc = "insert" => join'[l].token # join'[k].token
      BY <3>1, <3>2, <3>3 DEF TokenInv
    <3>7. TokenRegistersOnce'
      BY <3>2 DEF TokenInv, TokenRegistersOnce
    <3> QED
      BY <3>4, <3>5, <3>6, <3>7 DEF TokenInv
  <2> QED
    BY <1>1, <2>1, <2>2 DEF JoinValidate
<1>2. ASSUME NEW j \in Joins, JoinInsert(j)
      PROVE  TokenInv'
  <2>1. CASE join' = [join EXCEPT ![j] = NoJoin] /\ UNCHANGED entry
    BY <2>1, <1>j, <1>n, <1>f DEF Kept, NoToken
  <2>2. ASSUME NEW e \in Entries,
               Insert(join[j].name, e, None, join[j].token),
               join' = [join EXCEPT ![j].pc = "upsert", ![j].entry = e]
        PROVE  TokenInv'
    <3> DEFINE u == join[j].token
    <3>1. /\ \A f \in Entries : f # e => entry'[f] = entry[f]
          /\ entry'[e].token = u
      BY <2>2, <1>e DEF Insert
    <3>2. /\ join[j].pc = "insert" /\ u \in Tokens
          /\ UNCHANGED token
      BY <1>2, <1>j DEF JoinInsert
    <3>3. /\ join'[j].pc = "upsert" /\ join'[j].token = u
          /\ join'[j].name = join[j].name
          /\ \A k \in Joins : k # j => join'[k] = join[k]
      BY <2>2, <1>j DEF JoinHandler
    <3>4. \A f \in Entries : entry[f].token # u
      BY <3>2 DEF TokenInv
    <3>5. \A f \in Entries : entry'[f].token # None =>
            token'[entry'[f].token].state = "used"
      BY <3>1, <3>2 DEF TokenInv
    <3>6. \A k \in Joins : join'[k].pc # "idle" =>
            /\ token'[join'[k].token].state = "used"
            /\ token'[join'[k].token].worker = join'[k].name
      BY <3>2, <3>3 DEF TokenInv
    <3>7. \A k \in Joins : join'[k].pc = "insert" =>
            /\ k # j /\ join[k].pc = "insert" /\ join[k].token # u
            /\ \A f \in Entries : entry'[f].token # join'[k].token
            /\ \A l \in Joins \ {k} :
                 join'[l].pc = "insert" => join'[l].token # join'[k].token
      BY <3>1, <3>2, <3>3 DEF TokenInv
    <3>8. TokenRegistersOnce'
      BY <3>1, <3>4 DEF TokenInv, TokenRegistersOnce
    <3> QED
      BY <3>5, <3>6, <3>7, <3>8 DEF TokenInv
  <2> QED
    BY <1>2, <2>1, <2>2 DEF JoinInsert
<1>3. ASSUME NEW j \in Joins, JoinUpsert(j)
      PROVE  TokenInv'
  <2>1. Kept
    <3>1. ASSUME NEW r \in Rows,
                 join' = [join EXCEPT ![j].pc = "setid", ![j].row = r]
          PROVE  Kept
      BY <1>3, <3>1, <1>j DEF Kept, JoinUpsert, JoinHandler
    <3>2. CASE join' = [join EXCEPT ![j] = NoJoin]
      BY <3>2, <1>j, <1>n DEF Kept
    <3> QED
      BY <1>3, <3>1, <3>2 DEF JoinUpsert, JoinReply
  <2> QED
    BY <1>3, <2>1, <1>f DEF JoinUpsert, NoToken
<1>4. ASSUME NEW j \in Joins, JoinSetID(j)
      PROVE  TokenInv'
  <2>1. Kept
    BY <1>4, <1>j, <1>n DEF Kept, JoinSetID, JoinReply
  <2>2. NoToken
    BY <1>4, <1>e DEF NoToken, JoinSetID, EntryObject
  <2> QED
    BY <2>1, <2>2, <1>f
<1>5. CASE Restart
  BY <1>5, <1>n, <1>f DEF Restart, Kept, NoToken
<1>6. CASE UNCHANGED join /\ UNCHANGED entry
  BY <1>6, <1>k, <1>f DEF NoToken
<1>7. ASSUME NEW a \in Admins, DeregisterClose(a)
      PROVE  TokenInv'
  <2>1. NoToken
    BY <1>7, <1>e DEF NoToken, DeregisterClose, EntryObject
  <2> QED
    BY <1>7, <2>1, <1>k, <1>f DEF DeregisterClose
<1>8. ASSUME NEW s \in Streams, RestoreInsert(s)
      PROVE  TokenInv'
  <2>1. NoToken
    BY <1>8, <1>e DEF NoToken, RestoreInsert, Insert
  <2> QED
    BY <1>8, <2>1, <1>k, <1>f DEF RestoreInsert
<1> QED
  BY <1>1, <1>2, <1>3, <1>4, <1>5, <1>6, <1>7, <1>8, EntryWriters, JoinWriters

LEMMA TokenInit == Init => TokenInv
  BY DEF Init, TokenInv, TokenRegistersOnce, NewEntry, NoJoin

(* A bootstrap token is single use (token.go Validate).                    *)
THEOREM TokenSafety == Spec => []TokenRegistersOnce
<1>1. TypeOK /\ TokenInv /\ [Next]_vars => TokenInv'
  BY TokenStep
<1>2. TokenInv => TokenRegistersOnce
  BY DEF TokenInv
<1> QED
  BY <1>1, <1>2, TokenInit, TypeCorrect, PTL DEF Spec

---------------------------------------------------------------------------
(* Rows *)

(* The row's worker presented its bootstrap token.                         *)
Good(r) == Registered(row[r].name)

LEMMA RegisteredStable ==
  ASSUME TypeOK, [Next]_vars, NEW n, Registered(n)
  PROVE  Registered(n)' /\ n \in Workers
<1>1. PICK t \in Tokens : token[t].worker = n /\ token[t].state = "used"
  BY DEF Registered
<1>2. token'[t] = token[t]
  BY <1>1, UsedStable
<1>3. n \in Workers
  BY <1>1 DEF TypeOK, TokenRecord
<1> QED
  BY <1>1, <1>2, <1>3 DEF Registered

(* An update of one row's status changes no name and no other status.      *)
LEMMA UpdateStatusEffect ==
  ASSUME row \in [Rows -> WorkerRow], NEW q \in Rows, NEW st \in Status,
         UpdateStatus(q, st)
  PROVE  \A r \in Rows : /\ row'[r].name = row[r].name
                         /\ r # q => row'[r].status = row[r].status
BY DEF UpdateStatus, WorkerRow

LEMMA UpsertEffect ==
  ASSUME row \in [Rows -> WorkerRow], NEW n \in Workers, NEW q \in Rows,
         NEW st \in Status, Upsert(n, st, q)
  PROVE  /\ \A r \in Rows : r # q => row'[r] = row[r]
         /\ row[q].name \in {n, None}
         /\ row'[q].name = n /\ row'[q].status = st
<1>1. CASE q \in RowOf(n) /\ row' = [row EXCEPT ![q].status = st]
  BY <1>1 DEF RowOf, WorkerRow
<1>2. CASE row[q].name = None /\
           row' = [row EXCEPT ![q] = [NewRow EXCEPT !.name = n, !.status = st]]
  BY <1>2 DEF NewRow
<1> QED
  BY <1>1, <1>2 DEF Upsert

(* Disconnect writes only the row whose id the entry carries.              *)
LEMMA MarkEffect ==
  ASSUME row \in [Rows -> WorkerRow], NEW e \in Entries \cup {None},
         \A f \in Entries : entry[f].dbid \in Rows \cup {None},
         MarkDisconnected(e)
  PROVE  \A r \in Rows : /\ row'[r].name = row[r].name
                         /\ row'[r].status # row[r].status =>
                              e # None /\ entry[e].dbid = r
<1>1. CASE e # None /\ entry[e].dbid # None
  <2>1. e \in Entries /\ entry[e].dbid \in Rows
    BY <1>1
  <2>2. UpdateStatus(entry[e].dbid, "disconnected")
    BY <1>1 DEF MarkDisconnected
  <2> QED
    BY <1>1, <2>1, <2>2, UpdateStatusEffect DEF Status
<1>2. CASE ~(e # None /\ entry[e].dbid # None)
  BY <1>2 DEF MarkDisconnected
<1> QED
  BY <1>1, <1>2

(* A named row keeps its name, and the status of a row becomes "ready" or  *)
(* "disconnected" only if its worker registered.                           *)
LEMMA RowEffect ==
  ASSUME TypeOK, TokenInv, RowInv, [Next]_vars, NEW r \in Rows
  PROVE  /\ row[r].name # None => row'[r].name = row[r].name
         /\ row'[r].status \in {"ready", "disconnected"} =>
              Registered(row'[r].name)
<1>r. row \in [Rows -> WorkerRow] /\ None \notin Rows /\ None \notin Workers
  BY NoneIsNothing DEF TypeOK
<1>e. \A e \in Entries : entry[e].dbid \in Rows \cup {None}
  BY DEF TypeOK, EntryObject
<1>s. \A s \in Streams : /\ stream[s] \in StreamHandler
                         /\ stream[s].entry \in Entries \cup {None}
                         /\ stream[s].pc = "ready" => stream[s].row \in Rows
  BY DEF TypeOK, StreamHandler
<1>a. \A a \in Admins : /\ admin[a].entry \in Entries \cup {None}
                        /\ admin[a].pc = "reset" => admin[a].name \in Workers
                        /\ admin[a].pc = "delete" => admin[a].row \in Rows
  BY DEF TypeOK, AdminRequest
<1>b. \A s \in Streams : beat[s] \in Rows \cup {None}
  BY DEF TypeOK
<1>st. row[r].status \in {"ready", "disconnected"} => Registered(row[r].name)
  BY DEF RowInv, ReadyRowWasRegistered
<1> DEFINE Fine ==
      /\ row[r].name # None => row'[r].name = row[r].name
      /\ row'[r].status \in {"ready", "disconnected"} => Registered(row'[r].name)
<1>u. ASSUME NEW q \in Rows, NEW st \in Status, UpdateStatus(q, st), Good(q)
      PROVE  Fine
  BY <1>r, <1>st, <1>u, UpdateStatusEffect DEF Good
<1>m. ASSUME NEW e \in Entries \cup {None}, MarkDisconnected(e)
      PROVE  Fine
  <2>1. e # None /\ entry[e].dbid = r => Registered(row[r].name)
    BY <1>r DEF RowInv
  <2> QED
    BY <1>r, <1>e, <1>st, <1>m, <2>1, MarkEffect
<1> HIDE DEF Fine
<1>1. ASSUME NEW a \in Admins, PreregisterMark(a)
      PROVE  Fine
  BY <1>1, <1>a, <1>m DEF PreregisterMark
<1>2. ASSUME NEW a \in Admins, PreregisterReset(a)
      PROVE  Fine
  <2>1. CASE UNCHANGED row
    BY <2>1, <1>st DEF Fine
  <2>2. ASSUME NEW q \in Rows, Upsert(admin[a].name, "pending", q)
        PROVE  Fine
    <3>1. admin[a].name \in Workers
      BY <1>2, <1>a DEF PreregisterReset
    <3> QED
      BY <2>2, <3>1, <1>r, <1>st, UpsertEffect DEF Fine, Status
  <2> QED
    BY <1>2, <2>1, <2>2 DEF PreregisterReset
<1>3. ASSUME NEW a \in Admins, DeregisterDelete(a)
      PROVE  Fine
  BY <1>3, <1>r, <1>a, <1>st DEF DeregisterDelete, Fine, WorkerRow
<1>4. ASSUME NEW j \in Joins, JoinUpsert(j)
      PROVE  Fine
  <2>1. CASE UNCHANGED row
    BY <2>1, <1>st DEF Fine
  <2>2. ASSUME NEW q \in Rows, Upsert(join[j].name, "ready", q)
        PROVE  Fine
    <3>1. join[j].name \in Workers /\ join[j].token \in Tokens
      BY <1>4 DEF JoinUpsert, TypeOK, JoinHandler
    <3>2. Registered(join[j].name)
      BY <1>4, <3>1 DEF JoinUpsert, TokenInv, Registered
    <3> QED
      BY <2>2, <3>1, <3>2, <1>r, <1>st, UpsertEffect DEF Fine, Status
  <2> QED
    BY <1>4, <2>1, <2>2 DEF JoinUpsert
<1>5. ASSUME NEW s \in Streams, RestoreReady(s)
      PROVE  Fine
  <2>1. stream[s].row \in Rows /\ Good(stream[s].row)
    BY <1>5, <1>s DEF RestoreReady, RowInv, Good
  <2> QED
    BY <1>5, <2>1, <1>u DEF RestoreReady, Status
<1>6. ASSUME NEW s \in Streams, WriteBeat(s)
      PROVE  Fine
  BY <1>6, <1>r, <1>b, <1>st DEF WriteBeat, Fine, WorkerRow
<1>7. ASSUME NEW s \in Streams, StreamMark(s)
      PROVE  Fine
  BY <1>7, <1>s, <1>m DEF StreamMark
<1>8. ASSUME NEW q \in Rows, SweepMark(q)
      PROVE  Fine
  <2>1. Good(q)
    BY <1>8 DEF SweepMark, RowInv, Good
  <2> QED
    BY <1>8, <2>1, <1>u DEF SweepMark, Status
<1>9. ASSUME NEW q \in Rows, Age(q) \/ SetApps(q)
      PROVE  Fine
  BY <1>9, <1>r, <1>st DEF Age, SetApps, Fine, WorkerRow
<1>10. ASSUME UNCHANGED row
       PROVE  Fine
  BY <1>10, <1>st DEF Fine
<1>11. Fine
  BY <1>1, <1>2, <1>3, <1>4, <1>5, <1>6, <1>7, <1>8, <1>9, <1>10, RowWriters
<1> QED
  BY <1>11 DEF Fine

LEMMA GoodStable ==
  ASSUME TypeOK, TokenInv, RowInv, [Next]_vars, NEW r \in Rows, Good(r)
  PROVE  Good(r)'
<1>1. PICK n \in Workers : n = row[r].name /\ Registered(n)
  BY DEF Good, Registered, TypeOK, TokenRecord
<1>2. row'[r].name = n
  BY <1>1, RowEffect, NoneIsNothing
<1>3. Registered(n)'
  BY <1>1, RegisteredStable
<1> QED
  BY <1>2, <1>3 DEF Good, Registered

(* The ids that entries, streams and the sweeper come to hold are good.    *)
LEMMA EntryIdsGood ==
  ASSUME TypeOK, TokenInv, RowInv, [Next]_vars,
         NEW e \in Entries, entry'[e].dbid # None
  PROVE  entry'[e].dbid \in Rows /\ Good(entry'[e].dbid)
<1>e. /\ entry \in [Entries -> EntryObject]
      /\ entry[e].dbid \in Rows \cup {None}
  BY DEF TypeOK, EntryObject
<1>1. CASE entry'[e].dbid = entry[e].dbid
  BY <1>1, <1>e DEF RowInv, Good
<1>2. ASSUME NEW a \in Admins, DeregisterClose(a)
      PROVE  entry'[e].dbid = entry[e].dbid
  BY <1>2, <1>e DEF DeregisterClose, EntryObject
<1>3. ASSUME NEW j \in Joins, JoinInsert(j)
      PROVE  entry'[e].dbid = entry[e].dbid
  BY <1>3, <1>e DEF JoinInsert, Insert
<1>4. ASSUME NEW j \in Joins, JoinSetID(j)
      PROVE  entry'[e].dbid \in Rows /\ Good(entry'[e].dbid)
  <2>1. /\ join[j].pc = "setid" /\ join[j].row \in Rows
        /\ join[j].token \in Tokens
    BY <1>4 DEF JoinSetID, TypeOK, JoinHandler
  <2>2. Good(join[j].row)
    BY <2>1 DEF TokenInv, RowInv, Good, Registered
  <2>3. entry'[e].dbid \in {entry[e].dbid, join[j].row}
    BY <1>4, <1>e DEF JoinSetID, EntryObject
  <2> QED
    BY <2>1, <2>2, <2>3, <1>1
<1>5. ASSUME NEW s \in Streams, RestoreInsert(s)
      PROVE  entry'[e].dbid \in Rows /\ Good(entry'[e].dbid)
  <2>1. stream[s].row \in Rows /\ Good(stream[s].row)
    BY <1>5 DEF RestoreInsert, TypeOK, StreamHandler, RowInv, Good
  <2>2. entry'[e].dbid \in {entry[e].dbid, stream[s].row}
    BY <1>5, <1>e DEF RestoreInsert, Insert
  <2> QED
    BY <2>1, <2>2, <1>1
<1> QED
  BY <1>1, <1>2, <1>3, <1>4, <1>5, EntryWriters

LEMMA StreamWriters ==
  ASSUME TypeOK, [Next]_vars, NEW s \in Streams,
         stream'[s].pc \in {"insert", "ready"}
  PROVE  \/ /\ stream[s].pc \in {"insert", "ready"}
            /\ stream'[s].row = stream[s].row
         \/ RestoreLookup(s) /\ stream'[s].row \in RowOf(stream[s].name)
                             /\ row[stream'[s].row].status # "pending"
<1>s. stream \in [Streams -> StreamHandler] /\ stream[s] \in StreamHandler
  BY DEF TypeOK
<1>n. NoStream.pc = "idle"
  BY DEF NoStream
<1> DEFINE Kept == /\ stream[s].pc \in {"insert", "ready"}
                   /\ stream'[s].row = stream[s].row
<1>1. CASE UNCHANGED stream
  BY <1>1
<1>2. ASSUME NEW u \in Streams, NEW n \in Workers, StreamOpen(u, n)
      PROVE  Kept
  BY <1>2, <1>s DEF StreamOpen
<1>3. ASSUME NEW u \in Streams, RestoreLookup(u)
      PROVE  \/ Kept
             \/ RestoreLookup(s) /\ stream'[s].row \in RowOf(stream[s].name)
                                 /\ row[stream'[s].row].status # "pending"
  <2>1. CASE stream' = [stream EXCEPT ![u] = NoStream]
    BY <2>1, <1>s, <1>n
  <2>2. ASSUME NEW r \in RowOf(stream[u].name), row[r].status # "pending",
               stream' = [stream EXCEPT ![u].pc = "insert", ![u].row = r]
        PROVE  \/ Kept
               \/ RestoreLookup(s) /\ stream'[s].row \in RowOf(stream[s].name)
                                   /\ row[stream'[s].row].status # "pending"
    <3>1. CASE u = s
      <4>1. stream'[s].row = r
        BY <2>2, <3>1, <1>s DEF StreamHandler
      <4> QED
        BY <1>3, <2>2, <3>1, <4>1
    <3>2. CASE u # s
      BY <2>2, <3>2, <1>s
    <3> QED
      BY <3>1, <3>2
  <2> QED
    BY <1>3, <2>1, <2>2 DEF RestoreLookup
<1>4. ASSUME NEW u \in Streams, RestoreInsert(u)
      PROVE  Kept
  <2>1. CASE u # s
    BY <1>4, <2>1, <1>s DEF RestoreInsert
  <2>2. CASE u = s
    <3>1. ASSUME NEW e \in Entries,
                 stream' = [stream EXCEPT ![s].pc = "ready", ![s].entry = e]
          PROVE  Kept
      BY <1>4, <2>2, <3>1, <1>s DEF RestoreInsert, StreamHandler
    <3>2. CASE stream' = [stream EXCEPT ![s].pc = "first", ![s].row = None,
                               ![s].entry = workers[stream[s].name]]
      BY <3>2, <1>s DEF StreamHandler
    <3> QED
      BY <1>4, <2>2, <3>1, <3>2 DEF RestoreInsert
  <2> QED
    BY <2>1, <2>2
<1>5. ASSUME NEW u \in Streams, RestoreReady(u)
      PROVE  Kept
  BY <1>5, <1>s DEF RestoreReady, StreamHandler
<1>6. ASSUME NEW u \in Streams, FirstBeat(u)
      PROVE  Kept
  BY <1>6, <1>s DEF FirstBeat, StreamHandler
<1>7. ASSUME NEW u \in Streams, WriteBeat(u)
      PROVE  Kept
  BY <1>7, <1>s DEF WriteBeat, StreamHandler
<1>8. ASSUME NEW u \in Streams, LinkDown(u)
      PROVE  Kept
  BY <1>8, <1>s DEF LinkDown, StreamHandler
<1>9. ASSUME NEW u \in Streams, StreamEvict(u)
      PROVE  Kept
  BY <1>9, <1>s DEF StreamEvict, StreamHandler
<1>10. ASSUME NEW u \in Streams, StreamMark(u) \/ StreamClosed(u)
       PROVE  Kept
  BY <1>10, <1>s, <1>n DEF StreamMark, StreamClosed
<1>11. CASE Restart
  BY <1>11, <1>n DEF Restart
<1>12. \/ UNCHANGED stream
       \/ \E u \in Streams, n \in Workers : StreamOpen(u, n)
       \/ \E u \in Streams : \/ StreamStep(u)
                             \/ LinkDown(u)
       \/ Restart
  BY DEF Next, AdminStep, JoinStep, vars, PreregisterLookup,
         PreregisterEvict, PreregisterMark, PreregisterReset, DeregisterCheck,
         DeregisterRemove, DeregisterClose, DeregisterDelete, JoinValidate,
         JoinInsert, JoinUpsert, JoinSetID, NextBeat,
         SweepRead, SweepMark, Age, SetApps, Expire
<1> HIDE DEF Kept
<1>13. \/ Kept
       \/ RestoreLookup(s) /\ stream'[s].row \in RowOf(stream[s].name)
                           /\ row[stream'[s].row].status # "pending"
  BY <1>1, <1>2, <1>3, <1>4, <1>5, <1>6, <1>7, <1>8, <1>9, <1>10, <1>11,
     <1>12 DEF StreamStep, Kept
<1> QED
  BY <1>13 DEF Kept

LEMMA StreamIdsGood ==
  ASSUME TypeOK, RowInv, [Next]_vars, NEW s \in Streams,
         stream'[s].pc \in {"insert", "ready"}
  PROVE  stream'[s].row \in Rows /\ Good(stream'[s].row)
<1>1. CASE /\ stream[s].pc \in {"insert", "ready"}
           /\ stream'[s].row = stream[s].row
  BY <1>1 DEF TypeOK, StreamHandler, RowInv, Good
<1>2. CASE /\ stream'[s].row \in RowOf(stream[s].name)
           /\ row[stream'[s].row].status # "pending"
  <2>1. /\ stream'[s].row \in Rows
        /\ row[stream'[s].row].status \in {"ready", "disconnected"}
    BY <1>2 DEF RowOf, Exists, TypeOK, WorkerRow, Status
  <2> QED
    BY <2>1 DEF RowInv, ReadyRowWasRegistered, Good
<1> QED
  BY <1>1, <1>2, StreamWriters

LEMMA SweepIdsGood ==
  ASSUME TypeOK, RowInv, [Next]_vars, NEW r \in sweep'
  PROVE  r \in Rows /\ Good(r)
<1>1. CASE r \in sweep
  BY <1>1 DEF TypeOK, RowInv, Good
<1>2. CASE SweepRead
  BY <1>2 DEF SweepRead, RowInv, ReadyRowWasRegistered, Good
<1> QED
  BY <1>1, <1>2, SweepWriters DEF SweepMark, Restart

LEMMA JoinIdsNamed ==
  ASSUME TypeOK, TokenInv, RowInv, [Next]_vars, NEW j \in Joins,
         join'[j].pc = "setid"
  PROVE  row'[join'[j].row].name = join'[j].name
<1>j. /\ join \in [Joins -> JoinHandler] /\ join[j] \in JoinHandler
      /\ NoJoin.pc = "idle" /\ None \notin Workers
  BY NoneIsNothing DEF TypeOK, NoJoin
<1>1. CASE join'[j] = join[j]
  <2>1. /\ join[j].row \in Rows /\ join[j].name \in Workers
        /\ row[join[j].row].name = join[j].name
    BY <1>1, <1>j DEF JoinHandler, RowInv
  <2> QED
    BY <1>1, <1>j, <2>1, RowEffect
<1>2. ASSUME NEW k \in Joins, NEW t \in Tokens, JoinValidate(k, t)
      PROVE  join'[j] = join[j]
  BY <1>2, <1>j DEF JoinValidate, NoJoin
<1>3. ASSUME NEW k \in Joins, JoinInsert(k)
      PROVE  join'[j] = join[j]
  BY <1>3, <1>j DEF JoinInsert, JoinHandler
<1>4. ASSUME NEW k \in Joins, JoinSetID(k)
      PROVE  join'[j] = join[j]
  BY <1>4, <1>j DEF JoinSetID, JoinReply
<1>5. ASSUME NEW k \in Joins, JoinUpsert(k)
      PROVE  row'[join'[j].row].name = join'[j].name
  <2>1. CASE k # j
    BY <1>1, <1>5, <1>j, <2>1 DEF JoinUpsert, JoinReply
  <2>2. CASE k = j
    <3>1. PICK r \in Rows : /\ Upsert(join[j].name, "ready", r)
                            /\ join' = [join EXCEPT ![j].pc = "setid",
                                                    ![j].row = r]
      BY <1>5, <1>j, <2>2 DEF JoinUpsert, JoinReply
    <3>2. join'[j].row = r /\ join'[j].name = join[j].name
      BY <3>1, <1>j DEF JoinHandler
    <3>3. join[j].name \in Workers /\ row \in [Rows -> WorkerRow]
      BY <1>5, <1>j, <2>2 DEF JoinUpsert, JoinHandler, TypeOK
    <3> QED
      BY <3>1, <3>2, <3>3, UpsertEffect DEF Status
  <2> QED
    BY <2>1, <2>2
<1>6. CASE Restart
  BY <1>6, <1>j DEF Restart
<1> QED
  BY <1>1, <1>2, <1>3, <1>4, <1>5, <1>6, JoinWriters

LEMMA RowStep ==
  ASSUME TypeOK, TokenInv, RowInv, [Next]_vars
  PROVE  RowInv'
<1>1. ASSUME NEW e \in Entries, entry'[e].dbid # None
      PROVE  Registered(row[entry[e].dbid].name)'
  <2>1. PICK r \in Rows : r = entry'[e].dbid /\ Good(r)
    BY <1>1, EntryIdsGood
  <2> QED
    BY <2>1, GoodStable DEF Good, Registered
<1>2. \A j \in Joins :
        join'[j].pc = "setid" => row'[join'[j].row].name = join'[j].name
  BY JoinIdsNamed
<1>3. ASSUME NEW s \in Streams, stream'[s].pc \in {"insert", "ready"}
      PROVE  Registered(row[stream[s].row].name)'
  <2>1. PICK r \in Rows : r = stream'[s].row /\ Good(r)
    BY <1>3, StreamIdsGood
  <2> QED
    BY <2>1, GoodStable DEF Good, Registered
<1>4. ASSUME NEW r \in sweep'
      PROVE  Registered(row[r].name)'
  <2>1. r \in Rows /\ Good(r)
    BY SweepIdsGood
  <2> QED
    BY <2>1, GoodStable DEF Good
<1>5. ASSUME NEW r \in Rows, row'[r].status \in {"ready", "disconnected"}
      PROVE  Registered(row[r].name)'
  <2>1. Registered(row'[r].name)
    BY <1>5, RowEffect
  <2>2. PICK n \in Workers : n = row'[r].name /\ Registered(n)
    BY <2>1 DEF Registered, TypeOK, TokenRecord
  <2> QED
    BY <2>2, RegisteredStable DEF Registered
<1> QED
  BY <1>1, <1>2, <1>3, <1>4, <1>5 DEF RowInv, ReadyRowWasRegistered

LEMMA RowInit == Init => RowInv
  BY DEF Init, RowInv, ReadyRowWasRegistered, NewEntry, NewRow, NoStream, NoJoin

(* The inductive invariant of the registry.                                *)
THEOREM Invariance == Spec => []IInv
<1>1. Init => IInv
  BY TableInit, TokenInit, RowInit DEF IInv
<1>2. TypeOK /\ IInv /\ [Next]_vars => IInv'
  BY TableStep, TokenStep, RowStep DEF IInv
<1> QED
  BY <1>1, <1>2, TypeCorrect, PTL DEF Spec

(* A row leaves "pending" only for a worker that registered (registry.go   *)
(* Preregister, Restore, Disconnect and SweepStale).                       *)
THEOREM RowSafety == Spec => []ReadyRowWasRegistered
<1>1. IInv => ReadyRowWasRegistered
  BY DEF IInv, RowInv
<1> QED
  BY <1>1, Invariance, PTL
=============================================================================
