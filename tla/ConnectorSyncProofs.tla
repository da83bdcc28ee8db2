------------------------ MODULE ConnectorSyncProofs ------------------------
(***************************************************************************)
(* Theorems about ConnectorSync, for any connectors, contents, batch size  *)
(* and bounds.  A connector has one tick at a time and a pending deletion  *)
(* is final: SyncInv, which speaks of the connectors' rows, their logs and *)
(* the places of ticks alone.  A deleted connector is gone for good, and   *)
(* owned documents are whole: DataInv, which adds what refers to a         *)
(* document and what its tick may still do.                                *)
(***************************************************************************)
EXTENDS ConnectorSync, TLAPS

ConnStatus == {"out of sync", "syncing", "up to date", "delete pending",
               "gone"}
SyncStatus == {"started", "cancel pending", "completed", "cancelled",
               "failed"}

CoreTypes ==
  /\ conn \in [Connectors -> ConnStatus]
  /\ log \in [Connectors -> Seq(SyncStatus)]
  /\ at \in [Ticks -> {"none"} \cup Busy \cup Awaiting]

(* What a connector's tick and its row say of its logs: SyncIsExclusive
   alone is not inductive, since the dispatch of a sync counts on finding no
   open log, and its end on finding its own log or none. *)
ConnectorInv(c) ==
  /\ \A t \in Live(c) :
       /\ Live(c) = {t}
       /\ conn[c] \in {"syncing", "delete pending", "gone"}
       /\ conn[c] # "gone" => OpenLogs(c) = {t[2]} /\ t[2] = Len(log[c])
  /\ conn[c] \in {"out of sync", "up to date"} => OpenLogs(c) = {}
  /\ conn[c] = "gone" => DOMAIN log[c] = {}

SyncInv == CoreTypes /\ \A c \in Connectors : ConnectorInv(c)
-----------------------------------------------------------------------------
(* Logs and ticks *)

LEMMA EmptyLog == <<>> \in Seq(SyncStatus) /\ DOMAIN <<>> = {}
  OBVIOUS

(* A log is a function, whose values a step may map. *)
LEMMA LogIsFunction ==
  ASSUME NEW s \in Seq(SyncStatus)
  PROVE  \E k \in Nat :
           DOMAIN s = 1..k /\ Len(s) = k /\ s \in [1..k -> SyncStatus]
  OBVIOUS

LEMMA FunctionIsLog ==
  ASSUME NEW k \in Nat, NEW s \in [1..k -> SyncStatus]
  PROVE  s \in Seq(SyncStatus) /\ Len(s) = k
  OBVIOUS

LEMMA TickParts ==
  ASSUME NEW t \in Ticks
  PROVE  /\ t[1] \in Connectors /\ t[2] \in Nat \ {0}
         /\ t = <<t[1], t[2]>>
<1>1. PICK c \in Connectors : t \in {c} \X (1..MaxSyncs[c])
  BY DEF Ticks
<1>2. MaxSyncs[c] \in Nat
  BY ConnectorAssumption
<1> QED
  BY <1>1, <1>2

LEMMA NextTick ==
  ASSUME NEW c \in Connectors, NEW n \in Nat \ {0}, n <= MaxSyncs[c]
  PROVE  <<c, n>> \in Ticks
<1>1. MaxSyncs[c] \in Nat
  BY ConnectorAssumption
<1>2. <<c, n>> \in {c} \X (1..MaxSyncs[c])
  BY <1>1
<1> QED
  BY <1>2 DEF Ticks
-----------------------------------------------------------------------------
(* The kinds of steps, as far as rows, logs and places go *)

(* A tick goes on, or something happens that none of them notices. *)
QuietStep ==
  /\ UNCHANGED <<conn, log>>
  /\ \/ UNCHANGED at
     \/ \E t \in Ticks, place \in Busy \cup Awaiting :
          at[t] # "none" /\ at' = [at EXCEPT ![t] = place]

EndStep ==
  \E t \in Ticks, s \in {"completed", "cancelled", "failed"} :
    at[t] # "none" /\ EndTick(t, s)

DispatchStep == \E c \in Connectors : Dispatch(c)
StopStep == \E c \in Connectors : Stop(c)
DeleteStep == \E c \in Connectors : Delete(c)

TeardownStep ==
  \E c \in Connectors :
    /\ UNCHANGED at
    /\ conn' = [conn EXCEPT ![c] = "gone"] /\ log' = [log EXCEPT ![c] = <<>>]

LEMMA CoroutineSteps ==
  ASSUME NEW t \in Ticks, CoroutineStep(t)
  PROVE  QuietStep \/ EndStep
<1> DEFINE goes == \E place \in Busy \cup Awaiting : Advance(t, place)
           ends == \E s \in {"completed", "cancelled", "failed"} :
                     EndTick(t, s)
<1>1. goes /\ at[t] # "none" => QuietStep
  BY DEF Advance, QuietStep
<1>2. ends /\ at[t] # "none" => EndStep
  BY DEF EndStep
<1>3. ASSUME NEW x, PassOn(t, x)
      PROVE  goes
  BY <1>3 DEF PassOn, Busy
<1>4. CASE Begin(t)
  <2>1. at[t] # "none" /\ (goes \/ ends)
    BY <1>4 DEF Begin, GoTo, Awaiting
  <2> QED
    BY <2>1, <1>1, <1>2
<1>5. CASE Scan(t)
  <2>1. at[t] # "none" /\ goes
    BY <1>5 DEF Scan, Busy
  <2> QED
    BY <2>1, <1>1
<1>6. CASE ConnectFails(t) \/ Finish(t) \/ PollInterrupted(t)
  <2>1. at[t] # "none" /\ ends
    BY <1>6 DEF ConnectFails, Finish, PollInterrupted
  <2> QED
    BY <2>1, <1>2
<1>7. CASE LookUp(t) \/ Share(t)
  <2>1. at[t] # "none" /\ goes
    BY <1>7, <1>3 DEF LookUp, Share, GoTo, Busy
  <2> QED
    BY <2>1, <1>1
<1>8. CASE NextBatch(t) \/ Download(t)
  <2>1. at[t] # "none" /\ (goes \/ ends)
    BY <1>8 DEF NextBatch, Download, GoTo, Busy, Awaiting
  <2> QED
    BY <2>1, <1>1, <1>2
<1>9. CASE BatchFails(t) \/ Launch(t) \/ PollOver(t)
  <2>1. at[t] # "none" /\ goes
    BY <1>9 DEF BatchFails, Launch, PollOver, GoTo, Busy, Awaiting
  <2> QED
    BY <2>1, <1>1
<1> QED
  BY <1>4, <1>5, <1>6, <1>7, <1>8, <1>9 DEF CoroutineStep

LEMMA ThreadSteps ==
  ASSUME NEW t \in Ticks, ThreadStep(t) \/ JobEnds(t)
  PROVE  QuietStep
  BY DEF ThreadStep, Disown, CountOwners, EraseVictim, Sweep, JobEnds,
         CleanupStep, QuietStep, Awaiting

LEMMA TeardownSteps ==
  ASSUME NEW c \in Connectors, Teardown(c) \/ TeardownTimesOut(c)
  PROVE  QuietStep \/ TeardownStep
  BY DEF Teardown, TakeAway, TeardownTimesOut, TeardownEnds, QuietStep, TeardownStep

LEMMA StepKinds ==
  ASSUME [Next]_vars
  PROVE  \/ QuietStep \/ EndStep \/ DispatchStep \/ StopStep \/ DeleteStep
         \/ TeardownStep \/ Restart
<1>1. ASSUME NEW c \in Connectors, NEW x \in Contents, Vanish(c, x)
      PROVE  QuietStep
  BY <1>1 DEF Vanish, QuietStep
<1>2. CASE UNCHANGED vars
  BY <1>2 DEF vars, QuietStep
<1> QED
  BY <1>1, <1>2, CoroutineSteps, ThreadSteps, TeardownSteps
     DEF Next, DispatchStep, StopStep, DeleteStep
-----------------------------------------------------------------------------
(* Each kind keeps the types and the invariant. *)

(* A connector whose row, logs and ticks stay as they are *)
LEMMA Untouched ==
  ASSUME NEW c \in Connectors, ConnectorInv(c),
         conn'[c] = conn[c], log'[c] = log[c], Live(c)' = Live(c)
  PROVE  ConnectorInv(c)'
  BY DEF ConnectorInv, OpenLogs

LEMMA QuietKeeps ==
  ASSUME SyncInv, QuietStep
  PROVE  SyncInv'
<1>1. CoreTypes'
  BY DEF SyncInv, CoreTypes, QuietStep
<1>2. ASSUME NEW c \in Connectors
      PROVE  Live(c)' = Live(c)
  BY DEF SyncInv, CoreTypes, QuietStep, Live, TicksOf, Busy, Awaiting
<1> QED
  BY <1>1, <1>2, Untouched DEF SyncInv, QuietStep

LEMMA EndKeeps ==
  ASSUME SyncInv, EndStep
  PROVE  SyncInv'
<1>0. PICK t \in Ticks, s \in {"completed", "cancelled", "failed"} :
        at[t] # "none" /\ EndTick(t, s)
  BY DEF EndStep
<1>p. PICK b \in Connectors, n \in Nat \ {0} : t = <<b, n>>
  BY TickParts
<1>t. CoreTypes
  BY DEF SyncInv
<1>1. /\ at' = [at EXCEPT ![t] = "none"]
      /\ Finalize(t, s)
  BY <1>0 DEF EndTick
<1>2. ConnectorInv(b) /\ t \in Live(b)
  BY <1>0, <1>p DEF SyncInv, Live, TicksOf
<1>3. Live(b)' = {}
  <2>1. \A u \in Ticks : at'[u] = IF u = t THEN "none" ELSE at[u]
    BY <1>1, <1>t DEF CoreTypes
  <2>2. Live(b) = {t}
    BY <1>2 DEF ConnectorInv
  <2> QED
    BY <2>1, <2>2 DEF Live, TicksOf
<1>4. /\ \A c \in Connectors \ {b} : conn'[c] = conn[c] /\ log'[c] = log[c]
      /\ conn' \in [Connectors -> ConnStatus]
      /\ log' \in [Connectors -> Seq(SyncStatus)]
  <2>1. CASE UNCHANGED <<conn, log>>
    BY <2>1, <1>t DEF CoreTypes
  <2>2. CASE LogStatus(t) # None
    <3>1. n \in DOMAIN log[b]
      BY <2>2, <1>p DEF LogStatus
    <3>2. /\ [log[b] EXCEPT ![n] = s] \in Seq(SyncStatus)
          /\ [log[b] EXCEPT ![n] = "failed"] \in Seq(SyncStatus)
      <4>1. /\ log[b] \in Seq(SyncStatus) /\ s \in SyncStatus
            /\ "failed" \in SyncStatus
        BY <1>t DEF CoreTypes, SyncStatus
      <4> QED
        BY <4>1, <3>1
    <3>3. \/ log' = [log EXCEPT ![b] = [log[b] EXCEPT ![n] = s]]
          \/ log' = [log EXCEPT ![b] = [log[b] EXCEPT ![n] = "failed"]]
          \/ log' = log
      BY <1>1, <1>p, <2>2 DEF Finalize
    <3>4. \/ conn' = conn
          \/ conn' = [conn EXCEPT ![b] = "up to date"]
          \/ conn' = [conn EXCEPT ![b] = "out of sync"]
          \/ conn' = [conn EXCEPT ![b] = "delete pending"]
      BY <1>1, <1>p DEF Finalize
    <3> QED
      BY <3>2, <3>3, <3>4, <1>t DEF CoreTypes, ConnStatus
  <2> QED
    BY <1>1, <2>1, <2>2 DEF Finalize
<1>5. CoreTypes'
  BY <1>1, <1>4, <1>t DEF CoreTypes
<1>6. ConnectorInv(b)'
  <2>1. CASE UNCHANGED <<conn, log>>
    <3>1. conn[b] \in {"syncing", "delete pending", "gone"}
      BY <1>2 DEF ConnectorInv
    <3> QED
      BY <2>1, <3>1, <1>2, <1>3 DEF ConnectorInv
  <2>2. CASE ~UNCHANGED <<conn, log>>
    <3>1. LogStatus(t) # None
      BY <1>1, <2>2 DEF Finalize
    <3>2. n \in DOMAIN log[b]
      BY <3>1, <1>p DEF LogStatus
    <3>3. conn[b] # "gone" /\ OpenLogs(b) = {n}
      <4>1. conn[b] # "gone"
        BY <3>2, <1>2 DEF ConnectorInv
      <4> QED
        BY <4>1, <1>2, <1>p DEF ConnectorInv
    <3>4. \/ log'[b] = [log[b] EXCEPT ![n] = s]
          \/ log'[b] = [log[b] EXCEPT ![n] = "failed"]
      BY <1>1, <1>p, <1>t, <2>2, <3>1 DEF Finalize, CoreTypes
    <3>5. OpenLogs(b)' = {}
      BY <3>3, <3>4 DEF OpenLogs
    <3>6. conn'[b] # "gone"
      BY <1>1, <1>p, <1>t, <3>3 DEF Finalize, CoreTypes
    <3> QED
      BY <1>3, <3>5, <3>6 DEF ConnectorInv
  <2> QED
    BY <2>1, <2>2
<1>7. ASSUME NEW c \in Connectors \ {b}
      PROVE  ConnectorInv(c)'
  <2>1. Live(c)' = Live(c)
    BY <1>1, <1>p, <1>t DEF Live, TicksOf, CoreTypes
  <2> QED
    BY <1>4, <2>1, Untouched DEF SyncInv
<1> QED
  BY <1>5, <1>6, <1>7 DEF SyncInv

LEMMA DispatchKeeps ==
  ASSUME SyncInv, DispatchStep
  PROVE  SyncInv'
<1>0. PICK b \in Connectors : Dispatch(b)
  BY DEF DispatchStep
<1>t. CoreTypes /\ ConnectorInv(b)
  BY DEF SyncInv
<1>n. PICK n \in Nat \ {0} : n = Len(log[b]) + 1 /\ n <= MaxSyncs[b]
  <2>1. Len(log[b]) \in Nat
    BY <1>t DEF CoreTypes
  <2>2. Len(log[b]) + 1 <= MaxSyncs[b]
    BY <1>0 DEF Dispatch
  <2>3. Len(log[b]) + 1 \in Nat \ {0}
    BY <2>1
  <2> QED
    BY <2>2, <2>3
<1>1. /\ conn' = [conn EXCEPT ![b] = "syncing"]
      /\ log' = [log EXCEPT ![b] = Append(log[b], "started")]
      /\ at' = [at EXCEPT ![<<b, n>>] = "new"]
      /\ conn[b] \in {"out of sync", "up to date"}
  BY <1>0, <1>n, <1>t DEF Dispatch, LockIsFree, CoreTypes, ConnStatus
<1>2. <<b, n>> \in Ticks
  BY <1>n, NextTick
<1>3. Live(b) = {} /\ OpenLogs(b) = {}
  BY <1>1, <1>t DEF ConnectorInv
<1>4. log'[b] = Append(log[b], "started") /\ conn'[b] = "syncing"
  BY <1>1, <1>t DEF CoreTypes
<1>5. CoreTypes'
  <2>1. log[b] \in Seq(SyncStatus) /\ "started" \in SyncStatus
    BY <1>t DEF CoreTypes, SyncStatus
  <2>2. Append(log[b], "started") \in Seq(SyncStatus)
    BY <2>1
  <2>3. log' \in [Connectors -> Seq(SyncStatus)]
    BY <1>1, <1>t, <2>2 DEF CoreTypes
  <2>4. conn' \in [Connectors -> ConnStatus]
    BY <1>1, <1>t DEF CoreTypes, ConnStatus
  <2>5. at' \in [Ticks -> {"none"} \cup Busy \cup Awaiting]
    BY <1>1, <1>t DEF CoreTypes, Awaiting
  <2> QED
    BY <2>3, <2>4, <2>5 DEF CoreTypes
<1>a. \A u \in Ticks : at'[u] = IF u = <<b, n>> THEN "new" ELSE at[u]
  BY <1>1, <1>t DEF CoreTypes
<1>6. Live(b)' = {<<b, n>>}
  <2>1. \A u \in Ticks : u[1] = b => at[u] = "none"
    BY <1>3 DEF Live, TicksOf
  <2> QED
    BY <1>a, <1>2, <2>1 DEF Live, TicksOf
<1>7. OpenLogs(b)' = {n} /\ n = Len(log[b])'
  <2>1. log[b] \in Seq(SyncStatus)
    BY <1>t DEF CoreTypes
  <2>2. /\ DOMAIN Append(log[b], "started") = DOMAIN log[b] \cup {n}
        /\ \A k \in DOMAIN log[b] : Append(log[b], "started")[k] = log[b][k]
        /\ Append(log[b], "started")[n] = "started"
        /\ Len(Append(log[b], "started")) = n
    BY <2>1, <1>n
  <2> QED
    BY <2>2, <1>3, <1>4 DEF OpenLogs
<1>8. ConnectorInv(b)'
  BY <1>4, <1>6, <1>7 DEF ConnectorInv
<1>9. ASSUME NEW c \in Connectors \ {b}
      PROVE  ConnectorInv(c)'
  <2>1. conn'[c] = conn[c] /\ log'[c] = log[c]
    BY <1>1, <1>t DEF CoreTypes
  <2>2. \A u \in Ticks : u[1] = c => at'[u] = at[u]
    BY <1>a
  <2>3. Live(c)' = Live(c)
    BY <2>2 DEF Live, TicksOf
  <2> QED
    BY <2>1, <2>3, Untouched DEF SyncInv
<1> QED
  BY <1>5, <1>8, <1>9 DEF SyncInv

LEMMA StopKeeps ==
  ASSUME SyncInv, StopStep
  PROVE  SyncInv'
<1>0. PICK b \in Connectors : Stop(b)
  BY DEF StopStep
<1>t. CoreTypes /\ ConnectorInv(b)
  BY DEF SyncInv
<1>1. PICK n \in OpenLogs(b) :
        log' = [log EXCEPT ![b] = [log[b] EXCEPT ![n] = "cancel pending"]]
  BY <1>0 DEF Stop
<1>2. conn' = conn /\ at' = at /\ conn[b] = "syncing"
  BY <1>0 DEF Stop
<1>3. /\ log[b] \in Seq(SyncStatus) /\ n \in DOMAIN log[b]
      /\ log'[b] = [log[b] EXCEPT ![n] = "cancel pending"]
  BY <1>1, <1>t DEF CoreTypes, OpenLogs
<1>4. log'[b] \in Seq(SyncStatus) /\ Len(log'[b]) = Len(log[b])
  <2>1. "cancel pending" \in SyncStatus
    BY DEF SyncStatus
  <2>2. PICK k \in Nat : /\ Len(log[b]) = k
                         /\ log[b] \in [1..k -> SyncStatus]
    BY <1>3, LogIsFunction
  <2>3. log'[b] \in [1..k -> SyncStatus]
    BY <1>3, <2>1, <2>2
  <2> QED
    BY <2>2, <2>3, FunctionIsLog
<1>5. OpenLogs(b)' = OpenLogs(b)
  BY <1>1, <1>3 DEF OpenLogs
<1>6. CoreTypes'
  BY <1>1, <1>2, <1>3, <1>4, <1>t DEF CoreTypes
<1>7. \A c \in Connectors : Live(c)' = Live(c)
  BY <1>2 DEF Live, TicksOf
<1>8. ConnectorInv(b)'
  BY <1>2, <1>4, <1>5, <1>7, <1>t DEF ConnectorInv
<1>9. ASSUME NEW c \in Connectors \ {b}
      PROVE  ConnectorInv(c)'
  <2>1. log'[c] = log[c]
    BY <1>1, <1>t DEF CoreTypes
  <2> QED
    BY <1>2, <1>7, <2>1, Untouched DEF SyncInv
<1> QED
  BY <1>6, <1>8, <1>9 DEF SyncInv

LEMMA DeleteKeeps ==
  ASSUME SyncInv, DeleteStep
  PROVE  SyncInv'
<1>0. PICK b \in Connectors : Delete(b)
  BY DEF DeleteStep
<1>t. CoreTypes /\ ConnectorInv(b)
  BY DEF SyncInv
<1>1. /\ conn' = [conn EXCEPT ![b] = "delete pending"]
      /\ conn[b] # "gone" /\ log' = log /\ at' = at
  BY <1>0 DEF Delete
<1>2. CoreTypes' /\ conn'[b] = "delete pending"
  BY <1>1, <1>t DEF CoreTypes, ConnStatus
<1>3. \A c \in Connectors : Live(c)' = Live(c)
  BY <1>1 DEF Live, TicksOf
<1>4. ConnectorInv(b)'
  BY <1>1, <1>2, <1>3, <1>t DEF ConnectorInv, OpenLogs
<1>5. ASSUME NEW c \in Connectors \ {b}
      PROVE  ConnectorInv(c)'
  <2>1. conn'[c] = conn[c]
    BY <1>1, <1>t DEF CoreTypes
  <2> QED
    BY <1>1, <1>3, <2>1, Untouched DEF SyncInv
<1> QED
  BY <1>2, <1>4, <1>5 DEF SyncInv

LEMMA TeardownKeeps ==
  ASSUME SyncInv, TeardownStep
  PROVE  SyncInv'
<1>0. PICK b \in Connectors :
        /\ UNCHANGED at
        /\ conn' = [conn EXCEPT ![b] = "gone"]
        /\ log' = [log EXCEPT ![b] = <<>>]
  BY DEF TeardownStep
<1>t. CoreTypes /\ ConnectorInv(b)
  BY DEF SyncInv
<1>1. conn'[b] = "gone" /\ DOMAIN log'[b] = {}
  BY <1>0, <1>t, EmptyLog DEF CoreTypes
<1>2. CoreTypes'
  BY <1>0, <1>t, EmptyLog DEF CoreTypes, ConnStatus
<1>3. \A c \in Connectors : Live(c)' = Live(c)
  BY <1>0 DEF Live, TicksOf
<1>4. ConnectorInv(b)'
  BY <1>1, <1>3, <1>t DEF ConnectorInv
<1>5. ASSUME NEW c \in Connectors \ {b}
      PROVE  ConnectorInv(c)'
  <2>1. conn'[c] = conn[c] /\ log'[c] = log[c]
    BY <1>0, <1>t DEF CoreTypes
  <2> QED
    BY <1>3, <2>1, Untouched DEF SyncInv
<1> QED
  BY <1>2, <1>4, <1>5 DEF SyncInv

(* Recovery closes the logs of what was syncing, and every tick is gone. *)
LEMMA RestartKeeps ==
  ASSUME SyncInv, Restart
  PROVE  SyncInv'
<1>t. CoreTypes
  BY DEF SyncInv
<1>1. at' = [t \in Ticks |-> "none"]
  BY DEF Restart
<1>2. ASSUME NEW c \in Connectors
      PROVE  /\ conn'[c] = IF conn[c] = "syncing" THEN "out of sync"
                           ELSE conn[c]
             /\ log'[c] = [n \in DOMAIN log[c] |->
                  IF conn[c] = "syncing" /\ n \in OpenLogs(c) THEN "failed"
                  ELSE log[c][n]]
  BY DEF Restart
<1>3. ASSUME NEW c \in Connectors
      PROVE  log'[c] \in Seq(SyncStatus)
  <2>1. log[c] \in Seq(SyncStatus)
    BY <1>t DEF CoreTypes
  <2>2. PICK k \in Nat :
          DOMAIN log[c] = 1..k /\ log[c] \in [1..k -> SyncStatus]
    BY <2>1, LogIsFunction
  <2>3. log'[c] = [n \in 1..k |->
          IF conn[c] = "syncing" /\ n \in OpenLogs(c) THEN "failed"
          ELSE log[c][n]]
    BY <1>2, <2>2
  <2>4. log'[c] \in [1..k -> SyncStatus]
    BY <2>2, <2>3 DEF SyncStatus
  <2> QED
    BY <2>4
<1>4. CoreTypes'
  <2>1. conn' \in [Connectors -> ConnStatus]
    <3>1. conn' = [c \in Connectors |-> IF conn[c] = "syncing"
                                        THEN "out of sync" ELSE conn[c]]
      BY DEF Restart
    <3> QED
      BY <3>1, <1>t DEF CoreTypes, ConnStatus
  <2>2. log' \in [Connectors -> Seq(SyncStatus)]
    <3>1. log' = [c \in Connectors |-> log'[c]]
      BY DEF Restart
    <3> QED
      BY <3>1, <1>3
  <2> QED
    BY <1>1, <2>1, <2>2 DEF CoreTypes
<1>5. ASSUME NEW c \in Connectors
      PROVE  ConnectorInv(c)'
  <2>1. Live(c)' = {}
    BY <1>1 DEF Live, TicksOf
  <2>2. CASE conn[c] = "syncing"
    <3>1. OpenLogs(c)' = {}
      BY <1>2, <2>2 DEF OpenLogs
    <3> QED
      BY <1>2, <2>1, <2>2, <3>1 DEF ConnectorInv
  <2>3. CASE conn[c] # "syncing"
    <3>1. log'[c] = log[c] /\ conn'[c] = conn[c]
      <4>1. log'[c] = [n \in DOMAIN log[c] |-> log[c][n]]
        BY <1>2, <2>3
      <4>2. log[c] \in Seq(SyncStatus)
        BY <1>t DEF CoreTypes
      <4>3. PICK k \in Nat :
              DOMAIN log[c] = 1..k /\ log[c] \in [1..k -> SyncStatus]
        BY <4>2, LogIsFunction
      <4>4. log'[c] = log[c]
        BY <4>1, <4>3
      <4> QED
        BY <1>2, <2>3, <4>4
    <3> QED
      BY <2>1, <3>1 DEF ConnectorInv, SyncInv, OpenLogs
  <2> QED
    BY <2>2, <2>3
<1> QED
  BY <1>4, <1>5 DEF SyncInv
-----------------------------------------------------------------------------
LEMMA SyncInvInit == Init => SyncInv
<1> SUFFICES ASSUME Init PROVE SyncInv
  OBVIOUS
<1>1. CoreTypes
  BY EmptyLog DEF Init, CoreTypes, ConnStatus
<1>2. ASSUME NEW c \in Connectors
      PROVE  ConnectorInv(c)
  <2>1. Live(c) = {} /\ conn[c] = "out of sync" /\ DOMAIN log[c] = {}
    BY EmptyLog DEF Init, Live, TicksOf
  <2> QED
    BY <2>1 DEF ConnectorInv, OpenLogs
<1> QED
  BY <1>1, <1>2 DEF SyncInv

LEMMA SyncInvStep == SyncInv /\ [Next]_vars => SyncInv'
  BY StepKinds, QuietKeeps, EndKeeps, DispatchKeeps, StopKeeps, DeleteKeeps,
     TeardownKeeps, RestartKeeps

(* Dispatches, stops, deletions, teardowns, lost writes and restarts in any
   order leave a connector with one tick, whose log is its last and only
   open one. *)
THEOREM SyncExclusion == Spec => []SyncIsExclusive
<1>1. SyncInv => SyncIsExclusive
  BY DEF SyncInv, ConnectorInv, SyncIsExclusive
<1> QED
  BY <1>1, SyncInvInit, SyncInvStep, PTL DEF Spec

DeletionKept ==
  \A c \in Connectors :
    /\ conn[c] = "delete pending" => conn'[c] \in {"delete pending", "gone"}
    /\ conn[c] = "gone" => conn'[c] = "gone"

LEMMA DeletionStep == SyncInv /\ [Next]_vars => DeletionKept
<1> SUFFICES ASSUME SyncInv, [Next]_vars PROVE DeletionKept
  OBVIOUS
<1>t. conn \in [Connectors -> ConnStatus]
  BY DEF SyncInv, CoreTypes
<1>1. CASE QuietStep
  BY <1>1 DEF QuietStep, DeletionKept
<1>2. CASE EndStep
  <2>0. PICK t \in Ticks, s \in {"completed", "cancelled", "failed"} :
          EndTick(t, s)
    BY <1>2 DEF EndStep
  <2>1. Finalize(t, s) /\ t[1] \in Connectors
    BY <2>0, TickParts DEF EndTick
  <2>2. conn[t[1]] = "gone" => LogStatus(t) = None
    BY <2>1 DEF SyncInv, ConnectorInv, LogStatus
  <2> QED
    BY <1>t, <2>1, <2>2 DEF Finalize, DeletionKept
<1>3. CASE DispatchStep
  BY <1>t, <1>3 DEF DispatchStep, Dispatch, LockIsFree, DeletionKept
<1>4. CASE StopStep
  BY <1>4 DEF StopStep, Stop, DeletionKept
<1>5. CASE DeleteStep
  BY <1>t, <1>5 DEF DeleteStep, Delete, DeletionKept
<1>6. CASE TeardownStep
  BY <1>t, <1>6 DEF TeardownStep, DeletionKept
<1>7. CASE Restart
  BY <1>7 DEF Restart, DeletionKept
<1> QED
  BY <1>1, <1>2, <1>3, <1>4, <1>5, <1>6, <1>7, StepKinds

(* Neither the end of a tick, a dispatch nor recovery takes a deletion back:
   a finalization finds "delete pending" and leaves it, or finds no log of a
   connector that is gone. *)
THEOREM DeletionStays == Spec => DeletionIsFinal
<1>1. SyncInv /\ [Next]_vars => [DeletionKept]_conn
  BY DeletionStep
<1> QED
  BY <1>1, SyncInvInit, SyncInvStep, PTL
     DEF Spec, DeletionIsFinal, DeletionKept

-----------------------------------------------------------------------------
(* The types of the other variables *)

TickTypes ==
  /\ todo \in [Ticks -> SUBSET Contents]
  /\ shared \in [Ticks -> SUBSET Contents]
  /\ batch \in [Ticks -> SUBSET Contents]
  /\ orphans \in [Ticks -> SUBSET Contents]
  /\ found \in [Ticks -> Docs \cup {None}]
  /\ victim \in [Ticks -> Docs \cup {None}]
  /\ flawed \in [Ticks -> {"no", "invalid", "failed"}]
  /\ counted \in [Ticks -> BOOLEAN]
  /\ job \in [Ticks -> {"none", "running", "cancel_pending", "stuck", "over"}]

DataTypes ==
  /\ doc \in [Docs -> {"none", "ingesting", "completed", "failed"}]
  /\ owned \in [Connectors \X Contents -> Docs \cup {None}]
  /\ raced \subseteq Connectors \X Contents

BoundTypes ==
  /\ source \in [Connectors -> SUBSET Contents]
  /\ teardowns \in [Connectors -> Nat]
  /\ outlived \subseteq Connectors /\ unread \subseteq Connectors
  /\ changes \in [Connectors -> Nat] /\ deletes \in [Connectors -> Nat]
  /\ mishaps \in 0..MaxMishaps

OtherTypes == TickTypes /\ DataTypes /\ BoundTypes

LEMMA TypeParts == TypeOK <=> CoreTypes /\ OtherTypes
  BY DEF TypeOK, CoreTypes, OtherTypes, TickTypes, DataTypes, BoundTypes,
         ConnStatus, SyncStatus

LEMMA DocParts ==
  ASSUME NEW d \in Docs
  PROVE  /\ d[1] \in Ticks /\ d[2] \in Contents /\ d = <<d[1], d[2]>>
         /\ d # None
  BY NoneIsNoDocument DEF Docs

LEMMA OwnedDoc ==
  ASSUME DataTypes, NEW c \in Connectors, NEW x \in Contents
  PROVE  /\ <<c, x>> \in DOMAIN owned
         /\ owned[<<c, x>>] \in Docs \cup {None}
  BY DEF DataTypes

LEMMA FaultTypes ==
  ASSUME TickTypes, NEW t \in Ticks, NEW f \in {"invalid", "failed"},
         Fault(t, f)
  PROVE  flawed' \in [Ticks -> {"no", "invalid", "failed"}]
  BY DEF TickTypes, Fault

LEMMA MishapTypes ==
  ASSUME BoundTypes, Mishap
  PROVE  mishaps' \in 0..MaxMishaps
  BY ConnectorAssumption DEF BoundTypes, Mishap

LEMMA AdvanceTypes ==
  ASSUME BoundTypes, NEW t, NEW place, Advance(t, place),
         UNCHANGED mishaps \/ Mishap
  PROVE  BoundTypes'
<1>1. mishaps' \in 0..MaxMishaps
  BY MishapTypes DEF BoundTypes
<1> QED
  BY <1>1 DEF Advance, BoundTypes, deletion

LEMMA GoToTypes ==
  ASSUME BoundTypes, NEW t, NEW place, GoTo(t, place)
  PROVE  BoundTypes'
  BY AdvanceTypes DEF GoTo

LEMMA EndTypes ==
  ASSUME OtherTypes, NEW t \in Ticks, NEW s, EndTick(t, s),
         job' \in [Ticks -> {"none", "running", "cancel_pending", "stuck",
                             "over"}],
         UNCHANGED <<source, deletion>>
  PROVE  TickTypes' /\ BoundTypes'
<1>1. mishaps' \in 0..MaxMishaps
  <2>1. \/ mishaps' = mishaps
        \/ Mishap
    BY DEF EndTick, Finalize
  <2> QED
    BY <2>1, MishapTypes DEF OtherTypes, BoundTypes
<1>2. BoundTypes'
  BY <1>1 DEF OtherTypes, BoundTypes, EndTick, deletion
<1>3. TickTypes'
  BY DEF OtherTypes, TickTypes, EndTick
<1> QED
  BY <1>2, <1>3

LEMMA VanishTypes ==
  ASSUME OtherTypes, NEW c \in Connectors, NEW x \in Contents, Vanish(c, x)
  PROVE  OtherTypes'
<1>1. TickTypes' /\ DataTypes'
  BY DEF Vanish, OtherTypes, TickTypes, DataTypes, tickVars, dataVars
<1>2. BoundTypes'
  BY DEF Vanish, OtherTypes, BoundTypes, deletion
<1> QED
  BY <1>1, <1>2 DEF OtherTypes

LEMMA BeginTypes ==
  ASSUME OtherTypes, NEW t \in Ticks,
         Begin(t) \/ ConnectFails(t) \/ Finish(t)
  PROVE  OtherTypes'
<1>1. DataTypes' /\ UNCHANGED <<source, job>>
  BY DEF Begin, ConnectFails, Finish, GoTo, Advance, OtherTypes,
         DataTypes, dataVars
<1>2. CASE \E s : EndTick(t, s) /\ UNCHANGED deletion
  BY <1>1, <1>2, EndTypes DEF OtherTypes, TickTypes
<1>3. CASE GoTo(t, "connecting") /\ UNCHANGED tickVars
  <2>1. TickTypes'
    BY <1>1, <1>3 DEF OtherTypes, TickTypes, tickVars
  <2> QED
    BY <1>1, <1>3, <2>1, GoToTypes DEF OtherTypes
<1> QED
  BY <1>2, <1>3 DEF Begin, ConnectFails, Finish

LEMMA ScanTypes ==
  ASSUME OtherTypes, NEW t \in Ticks, Scan(t)
  PROVE  OtherTypes'
<1>1. DataTypes' /\ BoundTypes'
  BY AdvanceTypes DEF Scan, OtherTypes, DataTypes, dataVars
<1>2. PICK known \in {Owns(t[1]), {}}, all \in SUBSET Contents :
        /\ shared' = [shared EXCEPT ![t] = (source[t[1]] \ known) \cap all]
        /\ todo' = [todo EXCEPT ![t] = source[t[1]] \ (known \cup all)]
        /\ orphans' = [orphans EXCEPT ![t] = known \ source[t[1]]]
        /\ UNCHANGED <<found, flawed, batch, victim, counted, job>>
  BY DEF Scan
<1>3. known \subseteq Contents /\ source[t[1]] \subseteq Contents
  BY TickParts DEF Owns, OtherTypes, BoundTypes
<1>4. /\ (source[t[1]] \ known) \cap all \in SUBSET Contents
      /\ source[t[1]] \ (known \cup all) \in SUBSET Contents
      /\ known \ source[t[1]] \in SUBSET Contents
  BY <1>3
<1>5. TickTypes'
  BY <1>2, <1>4 DEF OtherTypes, TickTypes
<1> QED
  BY <1>1, <1>5 DEF OtherTypes

LEMMA PassOnTypes ==
  ASSUME OtherTypes, NEW t \in Ticks, NEW x, PassOn(t, x),
         UNCHANGED mishaps \/ Mishap
  PROVE  BoundTypes' /\ shared' \in [Ticks -> SUBSET Contents]
  BY AdvanceTypes DEF PassOn, OtherTypes, TickTypes

LEMMA LookUpTypes ==
  ASSUME OtherTypes, NEW t \in Ticks, LookUp(t)
  PROVE  OtherTypes'
<1>0. PICK x \in shared[t] :
        \/ PassOn(t, x) /\ UNCHANGED found /\ (UNCHANGED mishaps \/ Mishap)
        \/ /\ \E c \in OwnersOf(x) :
                found' = [found EXCEPT ![t] = owned[<<c, x>>]]
           /\ GoTo(t, "sharing") /\ UNCHANGED shared
  BY DEF LookUp
<1>1. x \in Contents
  BY DEF OtherTypes, TickTypes
<1>2. BoundTypes' /\ shared' \in [Ticks -> SUBSET Contents]
  BY <1>0, PassOnTypes, GoToTypes DEF OtherTypes, TickTypes
<1>3. found' \in [Ticks -> Docs \cup {None}]
  <2>1. CASE UNCHANGED found
    BY <2>1 DEF OtherTypes, TickTypes
  <2>2. ASSUME NEW c \in OwnersOf(x),
               found' = [found EXCEPT ![t] = owned[<<c, x>>]]
        PROVE  found' \in [Ticks -> Docs \cup {None}]
    <3>1. owned[<<c, x>>] \in Docs \cup {None}
      BY <1>1, OwnedDoc DEF OtherTypes, OwnersOf
    <3> QED
      BY <2>2, <3>1 DEF OtherTypes, TickTypes
  <2> QED
    BY <1>0, <2>1, <2>2
<1>4. DataTypes' /\ TickTypes'
  BY <1>2, <1>3 DEF LookUp, OtherTypes, TickTypes, DataTypes, dataVars
<1> QED
  BY <1>2, <1>4 DEF OtherTypes

LEMMA ShareTypes ==
  ASSUME OtherTypes, NEW t \in Ticks, Share(t)
  PROVE  OtherTypes'
<1>1. found[t] \in Docs
  BY DEF Share, OtherTypes, TickTypes
<1>2. <<t[1], found[t][2]>> \in Connectors \X Contents
  BY <1>1, DocParts, TickParts
<1>3. DataTypes'
  <2>1. owned' \in [Connectors \X Contents -> Docs \cup {None}]
    BY <1>1, <1>2 DEF Share, OtherTypes, DataTypes
  <2>2. raced' \subseteq Connectors \X Contents
    BY <1>2 DEF Share, OtherTypes, DataTypes
  <2> QED
    BY <2>1, <2>2 DEF Share, OtherTypes, DataTypes
<1>4. BoundTypes' /\ shared' \in [Ticks -> SUBSET Contents]
  BY PassOnTypes DEF Share
<1>5. found' \in [Ticks -> Docs \cup {None}]
  BY DEF Share, OtherTypes, TickTypes
<1>6. TickTypes'
  BY <1>4, <1>5 DEF Share, OtherTypes, TickTypes
<1> QED
  BY <1>3, <1>4, <1>6 DEF OtherTypes

LEMMA NextBatchTypes ==
  ASSUME OtherTypes, NEW t \in Ticks, NextBatch(t)
  PROVE  OtherTypes'
<1>1. DataTypes' /\ UNCHANGED job
  BY DEF NextBatch, OtherTypes, DataTypes, dataVars
<1>2. CASE \E s : EndTick(t, s) /\ UNCHANGED <<source, deletion>>
  BY <1>1, <1>2, EndTypes DEF OtherTypes, TickTypes
<1>3. CASE GoTo(t, "cleaning") /\ UNCHANGED tickVars
  <2>1. TickTypes'
    BY <1>1, <1>3 DEF OtherTypes, TickTypes, tickVars
  <2> QED
    BY <1>1, <1>3, <2>1, GoToTypes DEF OtherTypes
<1>4. ASSUME GoTo(t, "downloading"), NEW B \in SUBSET todo[t],
             batch' = [batch EXCEPT ![t] = B],
             todo' = [todo EXCEPT ![t] = @ \ B],
             UNCHANGED <<shared, found, flawed, orphans, victim, counted>>
      PROVE  OtherTypes'
  <2>1. todo[t] \subseteq Contents
    BY DEF OtherTypes, TickTypes
  <2>2. B \in SUBSET Contents /\ todo[t] \ B \in SUBSET Contents
    BY <2>1
  <2>3. TickTypes'
    BY <1>1, <1>4, <2>2 DEF OtherTypes, TickTypes
  <2> QED
    BY <1>1, <1>4, <2>3, GoToTypes DEF OtherTypes
<1> QED
  BY <1>2, <1>3, <1>4 DEF NextBatch, kSubset

LEMMA DownloadTypes ==
  ASSUME OtherTypes, NEW t \in Ticks, Download(t) \/ BatchFails(t)
  PROVE  OtherTypes'
<1>1. DataTypes' /\ UNCHANGED job
  BY DEF Download, BatchFails, OtherTypes, DataTypes, dataVars
<1>2. CASE EndTick(t, "cancelled") /\ UNCHANGED <<source, deletion>>
  BY <1>1, <1>2, EndTypes DEF OtherTypes, TickTypes
<1>3. ASSUME NEW B \in SUBSET Contents, batch' = [batch EXCEPT ![t] = B],
             NEW f \in {"invalid", "failed"}, UNCHANGED flawed \/ Fault(t, f),
             NEW place, GoTo(t, place),
             UNCHANGED <<todo, shared, found, orphans, victim, counted>>
      PROVE  OtherTypes'
  <2>1. flawed' \in [Ticks -> {"no", "invalid", "failed"}]
    BY <1>3, FaultTypes DEF OtherTypes, TickTypes
  <2>2. TickTypes'
    BY <1>1, <1>3, <2>1 DEF OtherTypes, TickTypes
  <2> QED
    BY <1>1, <1>3, <2>2, GoToTypes DEF OtherTypes
<1>4. batch[t] \subseteq Contents
  BY DEF OtherTypes, TickTypes
<1>5. CASE BatchFails(t)
  <2>1. /\ batch' = [batch EXCEPT ![t] = {}] /\ Fault(t, "failed")
        /\ GoTo(t, "batching")
        /\ UNCHANGED <<todo, shared, found, orphans, victim, counted>>
    BY <1>5 DEF BatchFails
  <2>2. {} \in SUBSET Contents
    OBVIOUS
  <2> QED
    BY <1>3, <2>1, <2>2
<1>6. CASE Download(t)
  BY <1>2, <1>3, <1>4, <1>6 DEF Download
<1> QED
  BY <1>5, <1>6

LEMMA LaunchTypes ==
  ASSUME OtherTypes, NEW t \in Ticks, Launch(t)
  PROVE  OtherTypes'
<1>1. BoundTypes'
  BY GoToTypes DEF Launch, OtherTypes
<1>2. TickTypes'
  BY DEF Launch, OtherTypes, TickTypes, tickVars
<1>3. DataTypes'
  BY DEF Launch, OtherTypes, DataTypes
<1> QED
  BY <1>1, <1>2, <1>3 DEF OtherTypes

LEMMA JobEndsTypes ==
  ASSUME OtherTypes, NEW t \in Ticks, JobEnds(t)
  PROVE  OtherTypes'
<1>1. BoundTypes'
  BY DEF JobEnds, OtherTypes, BoundTypes, deletion, bounds
<1>2. TickTypes'
  BY DEF JobEnds, OtherTypes, TickTypes
<1>3. DataTypes'
  BY DEF JobEnds, OtherTypes, DataTypes
<1> QED
  BY <1>1, <1>2, <1>3 DEF OtherTypes

LEMMA PollInterruptedTypes ==
  ASSUME OtherTypes, NEW t \in Ticks, PollInterrupted(t)
  PROVE  OtherTypes'
<1>1. job' \in [Ticks -> {"none", "running", "cancel_pending", "stuck",
                          "over"}]
  BY DEF PollInterrupted, OtherTypes, TickTypes
<1>2. DataTypes'
  BY DEF PollInterrupted, OtherTypes, DataTypes
<1> QED
  BY <1>1, <1>2, EndTypes DEF PollInterrupted, OtherTypes

LEMMA PollOverTypes ==
  ASSUME OtherTypes, NEW t \in Ticks, PollOver(t)
  PROVE  OtherTypes'
<1>1. BoundTypes'
  BY AdvanceTypes DEF PollOver, OtherTypes
<1>2. flawed' \in [Ticks -> {"no", "invalid", "failed"}]
  BY FaultTypes DEF PollOver, OtherTypes, TickTypes
<1>3. TickTypes'
  BY <1>2 DEF PollOver, OtherTypes, TickTypes
<1>4. \A p \in Connectors \X Contents : FileOf(t, p[2]) \in Docs
  BY DEF FileOf, Docs
<1>5. owned' \in [Connectors \X Contents -> Docs \cup {None}]
  BY <1>4 DEF PollOver, Register, OtherTypes, DataTypes
<1>6. DataTypes'
  BY <1>5 DEF PollOver, OtherTypes, DataTypes
<1> QED
  BY <1>1, <1>3, <1>6 DEF OtherTypes

LEMMA FlawTypes ==
  ASSUME OtherTypes, NEW t \in Ticks,
         \/ flawed' = flawed /\ mishaps' = mishaps
         \/ Mishap /\ Fault(t, "failed")
  PROVE  /\ flawed' \in [Ticks -> {"no", "invalid", "failed"}]
         /\ mishaps' \in 0..MaxMishaps
  BY MishapTypes, FaultTypes DEF OtherTypes, TickTypes, BoundTypes

LEMMA EraseTypes ==
  ASSUME OtherTypes, NEW t \in Ticks, NEW D, Erase(t, D)
  PROVE  /\ doc' \in [Docs -> {"none", "ingesting", "completed", "failed"}]
         /\ flawed' \in [Ticks -> {"no", "invalid", "failed"}]
         /\ mishaps' \in 0..MaxMishaps
<1>1. PICK E \in SUBSET D :
        doc' = [d \in Docs |-> IF d \in E THEN "none" ELSE doc[d]]
  BY DEF Erase
<1>2. doc' \in [Docs -> {"none", "ingesting", "completed", "failed"}]
  BY <1>1 DEF OtherTypes, DataTypes
<1>3. \/ flawed' = flawed /\ mishaps' = mishaps
      \/ Mishap /\ Fault(t, "failed")
  BY DEF Erase
<1>4. /\ flawed' \in [Ticks -> {"no", "invalid", "failed"}]
      /\ mishaps' \in 0..MaxMishaps
  BY <1>3, FlawTypes
<1> QED
  BY <1>2, <1>4

LEMMA ThreadTypes ==
  ASSUME OtherTypes, NEW t \in Ticks, ThreadStep(t)
  PROVE  OtherTypes'
<1>0. UNCHANGED <<source, todo, shared, found, batch, job, deletion, changes,
                  deletes>>
  BY DEF ThreadStep, Disown, CountOwners, EraseVictim, Sweep, CleanupStep
<1>1. /\ flawed' \in [Ticks -> {"no", "invalid", "failed"}]
      /\ mishaps' \in 0..MaxMishaps
      /\ doc' \in [Docs -> {"none", "ingesting", "completed", "failed"}]
  <2>1. CASE UNCHANGED doc /\ (\/ flawed' = flawed /\ mishaps' = mishaps
                               \/ Mishap /\ Fault(t, "failed")
                               \/ Mishap /\ UNCHANGED flawed)
    <3>1. doc' \in [Docs -> {"none", "ingesting", "completed", "failed"}]
      BY <2>1 DEF OtherTypes, DataTypes
    <3>2. CASE Mishap /\ UNCHANGED flawed
      BY <3>1, <3>2, MishapTypes DEF OtherTypes, TickTypes
    <3>3. CASE \/ flawed' = flawed /\ mishaps' = mishaps
               \/ Mishap /\ Fault(t, "failed")
      BY <3>1, <3>3, FlawTypes
    <3> QED
      BY <2>1, <3>2, <3>3
  <2>2. ASSUME NEW D, Erase(t, D)
        PROVE  /\ flawed' \in [Ticks -> {"no", "invalid", "failed"}]
               /\ mishaps' \in 0..MaxMishaps
               /\ doc' \in [Docs -> {"none", "ingesting", "completed",
                                    "failed"}]
    BY <2>2, EraseTypes
  <2> QED
    BY <2>1, <2>2
       DEF ThreadStep, Disown, CountOwners, EraseVictim, Sweep, dataVars
<1>2. BoundTypes'
  BY <1>0, <1>1 DEF OtherTypes, BoundTypes, deletion
<1>3. /\ orphans' \in [Ticks -> SUBSET Contents]
      /\ counted' \in [Ticks -> BOOLEAN]
      /\ owned' \in [Connectors \X Contents -> Docs \cup {None}]
      /\ raced' \subseteq Connectors \X Contents
  <2>t. /\ orphans \in [Ticks -> SUBSET Contents]
        /\ counted \in [Ticks -> BOOLEAN]
        /\ owned \in [Connectors \X Contents -> Docs \cup {None}]
        /\ raced \subseteq Connectors \X Contents
    BY DEF OtherTypes, TickTypes, DataTypes
  <2>1. counted' \in [Ticks -> BOOLEAN]
    BY <2>t DEF ThreadStep, Disown, CountOwners, EraseVictim, Sweep
  <2>2. CASE Disown(t)
    <3>1. PICK x \in orphans[t] :
            /\ orphans' = [orphans EXCEPT ![t] = orphans[t] \ {x}]
            /\ \/ owned' = [owned EXCEPT ![<<t[1], x>>] = None]
               \/ owned' = owned
            /\ \/ raced' = raced \ {<<t[1], x>>}
               \/ raced' = raced
      BY <2>2 DEF Disown
    <3>2. orphans' \in [Ticks -> SUBSET Contents]
      BY <2>t, <3>1
    <3>3. owned' \in [Connectors \X Contents -> Docs \cup {None}]
      BY <2>t, <3>1
    <3> QED
      BY <2>t, <2>1, <3>1, <3>2, <3>3
  <2>3. CASE ~Disown(t)
    BY <2>t, <2>1, <2>3
       DEF ThreadStep, CountOwners, EraseVictim, Sweep, dataVars
  <2> QED
    BY <2>2, <2>3
<1>4. victim' \in [Ticks -> Docs \cup {None}]
  <2>1. ASSUME NEW x \in orphans[t]
        PROVE  owned[<<t[1], x>>] \in Docs \cup {None}
    <3>1. x \in Contents
      BY DEF OtherTypes, TickTypes
    <3> QED
      BY <3>1, OwnedDoc, TickParts DEF OtherTypes
  <2> QED
    BY <2>1 DEF ThreadStep, Disown, CountOwners, EraseVictim, Sweep,
                OtherTypes, TickTypes
<1>5. TickTypes'
  BY <1>0, <1>1, <1>3, <1>4 DEF OtherTypes, TickTypes
<1>6. DataTypes'
  BY <1>1, <1>3 DEF DataTypes
<1> QED
  BY <1>2, <1>5, <1>6 DEF OtherTypes

LEMMA TeardownTypes ==
  ASSUME OtherTypes, NEW c \in Connectors, Teardown(c) \/ TeardownTimesOut(c)
  PROVE  OtherTypes'
<1>0. TeardownEnds(c)
  BY DEF Teardown, TeardownTimesOut
<1>1. TickTypes'
  BY <1>0 DEF TeardownEnds, tickVars, OtherTypes, TickTypes
<1>2. teardowns' \in [Connectors -> Nat]
  <2>1. teardowns[c] \in Nat /\ teardowns[c] > 0
    BY <1>0 DEF TeardownEnds, OtherTypes, BoundTypes
  <2>2. teardowns[c] - 1 \in Nat
    BY <2>1
  <2> QED
    BY <1>0, <2>2 DEF TeardownEnds, OtherTypes, BoundTypes
<1>3. /\ outlived' \subseteq Connectors /\ unread' \subseteq Connectors
      /\ mishaps' \in 0..MaxMishaps
  <2>1. mishaps' = mishaps \/ Mishap
    BY DEF Teardown, TeardownTimesOut
  <2>2. mishaps' \in 0..MaxMishaps
    BY <2>1, MishapTypes DEF OtherTypes, BoundTypes
  <2>3. /\ outlived' = outlived \/ outlived' = outlived \cup {c}
        /\ unread' = unread \/ unread' = unread \cup {c}
    BY DEF Teardown, TakeAway, TeardownTimesOut
  <2> QED
    BY <2>2, <2>3 DEF OtherTypes, BoundTypes
<1>4. BoundTypes'
  BY <1>0, <1>2, <1>3 DEF TeardownEnds, OtherTypes, BoundTypes
<1>5. DataTypes'
  <2>1. \/ UNCHANGED dataVars
        \/ \E K, D : Disowned(c, K) /\ Erased(D)
    BY DEF Teardown, TeardownTimesOut
  <2> QED
    BY <2>1 DEF Disowned, Erased, dataVars, OtherTypes, DataTypes
<1> QED
  BY <1>1, <1>4, <1>5 DEF OtherTypes

LEMMA RestartTypes ==
  ASSUME OtherTypes, Restart
  PROVE  OtherTypes'
<1>1. BoundTypes'
  <2>1. mishaps' \in 0..MaxMishaps
    BY MishapTypes DEF Restart, OtherTypes
  <2> QED
    BY <2>1 DEF Restart, OtherTypes, BoundTypes
<1>2. TickTypes'
  BY DEF Restart, TickTypes
<1>3. DataTypes'
  BY DEF Restart, OtherTypes, DataTypes
<1> QED
  BY <1>1, <1>2, <1>3 DEF OtherTypes

LEMMA OtherTypesStep == OtherTypes /\ [Next]_vars => OtherTypes'
<1> SUFFICES ASSUME OtherTypes, [Next]_vars PROVE OtherTypes'
  OBVIOUS
<1>1. CASE UNCHANGED vars
  BY <1>1 DEF vars, tickVars, dataVars, bounds, deletion, OtherTypes,
              TickTypes, DataTypes, BoundTypes
<1>2. ASSUME NEW c \in Connectors, Dispatch(c) \/ Stop(c) \/ Delete(c)
      PROVE  OtherTypes'
  <2>1. TickTypes' /\ DataTypes'
    BY <1>2 DEF Dispatch, Stop, Delete, OtherTypes, TickTypes, DataTypes,
           tickVars, dataVars
  <2>2. CASE Dispatch(c) \/ Stop(c)
    BY <2>1, <2>2 DEF Dispatch, Stop, OtherTypes, BoundTypes, deletion, bounds
  <2>3. CASE Delete(c)
    <3>1. teardowns \in [Connectors -> Nat] /\ deletes \in [Connectors -> Nat]
      BY DEF OtherTypes, BoundTypes
    <3>2. /\ teardowns' = [teardowns EXCEPT ![c] = teardowns[c] + 1]
          /\ deletes' = [deletes EXCEPT ![c] = deletes[c] + 1]
      BY <2>3 DEF Delete
    <3>3. teardowns[c] + 1 \in Nat /\ deletes[c] + 1 \in Nat
      BY <3>1
    <3>4. teardowns' \in [Connectors -> Nat]
      BY <3>1, <3>2, <3>3
    <3>5. deletes' \in [Connectors -> Nat]
      BY <3>1, <3>2, <3>3
    <3> QED
      BY <2>1, <2>3, <3>4, <3>5 DEF Delete, OtherTypes, BoundTypes
  <2> QED
    BY <1>2, <2>2, <2>3
<1>3. ASSUME NEW t \in Ticks, CoroutineStep(t)
      PROVE  OtherTypes'
  BY <1>3, BeginTypes, ScanTypes, LookUpTypes, ShareTypes, NextBatchTypes,
     DownloadTypes, LaunchTypes, PollInterruptedTypes, PollOverTypes
     DEF CoroutineStep
<1> QED
  BY <1>1, <1>2, <1>3, VanishTypes, TeardownTypes, ThreadTypes, JobEndsTypes,
     RestartTypes DEF Next

LEMMA OtherTypesInit == Init => OtherTypes
<1> SUFFICES ASSUME Init PROVE OtherTypes
  OBVIOUS
<1>1. TickTypes
  BY DEF Init, TickTypes
<1>2. DataTypes
  BY DEF Init, DataTypes
<1>3. BoundTypes
  <2>1. mishaps \in 0..MaxMishaps
    <3>1. MaxMishaps \in Nat /\ mishaps = 0
      BY ConnectorAssumption DEF Init
    <3> QED
      BY <3>1
  <2>2. /\ teardowns \in [Connectors -> Nat] /\ changes \in [Connectors -> Nat]
        /\ deletes \in [Connectors -> Nat]
    BY DEF Init
  <2>3. source \in [Connectors -> SUBSET Contents] /\ outlived = {} /\ unread = {}
    BY DEF Init
  <2> QED
    BY <2>1, <2>2, <2>3 DEF BoundTypes
<1> QED
  BY <1>1, <1>2, <1>3 DEF OtherTypes

(* What a lookup returns and a cleanup removes is a document or none, and
   the ends of teardowns never outnumber their starts: the state of ticks,
   jobs, documents and rows is typed. *)
THEOREM SyncTyped == Spec => []TypeOK
<1>1. SyncInv /\ OtherTypes => TypeOK
  BY TypeParts DEF SyncInv
<1> QED
  BY <1>1, SyncInvInit, SyncInvStep, OtherTypesInit, OtherTypesStep, PTL
     DEF Spec
-----------------------------------------------------------------------------
(* A deleted connector *)

(* Only the teardown that goes through takes the row of a connector away. *)
LEMMA GoneByTeardown ==
  ASSUME SyncInv, [Next]_vars, NEW c \in Connectors, conn'[c] = "gone"
  PROVE  conn[c] = "gone" \/ Teardown(c)
<1>t. conn \in [Connectors -> ConnStatus]
  BY DEF SyncInv, CoreTypes
<1>1. CASE UNCHANGED conn
  BY <1>1
<1>2. CASE EndStep
  <2>0. PICK t \in Ticks, s \in {"completed", "cancelled", "failed"} :
          Finalize(t, s)
    BY <1>2 DEF EndStep, EndTick
  <2> QED
    BY <1>t, <2>0 DEF Finalize
<1>3. CASE DispatchStep
  BY <1>t, <1>3 DEF DispatchStep, Dispatch
<1>4. CASE StopStep
  BY <1>4 DEF StopStep, Stop
<1>5. CASE DeleteStep
  BY <1>t, <1>5 DEF DeleteStep, Delete
<1>6. CASE Restart
  BY <1>6 DEF Restart
<1>7. ASSUME NEW b \in Connectors, Teardown(b)
      PROVE  conn[c] = "gone" \/ Teardown(c)
  BY <1>t, <1>7 DEF Teardown, TakeAway
<1>8. CASE QuietStep
  BY <1>8 DEF QuietStep
<1>9. \/ UNCHANGED conn \/ EndStep \/ DispatchStep \/ StopStep \/ DeleteStep
      \/ Restart \/ QuietStep \/ \E b \in Connectors : Teardown(b)
  <2>1. ASSUME NEW b \in Connectors, TeardownTimesOut(b)
        PROVE  UNCHANGED conn
    BY <2>1 DEF TeardownTimesOut
  <2>2. ASSUME NEW b \in Connectors, NEW x \in Contents, Vanish(b, x)
        PROVE  UNCHANGED conn
    BY <2>2 DEF Vanish
  <2>3. CASE UNCHANGED vars
    BY <2>3 DEF vars
  <2> QED
    BY <2>1, <2>2, <2>3, CoroutineSteps, ThreadSteps
       DEF Next, DispatchStep, StopStep, DeleteStep
<1> QED
  BY <1>1, <1>2, <1>3, <1>4, <1>5, <1>6, <1>7, <1>8, <1>9

(* A coroutine belongs to a live tick, whose job and rows it may change. *)
LEMMA CoroutineTouches ==
  ASSUME OtherTypes, NEW t \in Ticks, CoroutineStep(t)
  PROVE  /\ at[t] # "none"
         /\ \A u \in Ticks \ {t} : job'[u] = job[u]
         /\ \A c \in Connectors : \A x \in Contents :
              c # t[1] => owned'[<<c, x>>] = owned[<<c, x>>]
<1>t. /\ job \in [Ticks -> {"none", "running", "cancel_pending", "stuck",
                            "over"}]
      /\ owned \in [Connectors \X Contents -> Docs \cup {None}]
  BY DEF OtherTypes, TickTypes, DataTypes
<1>1. CASE Begin(t) \/ Scan(t) \/ ConnectFails(t) \/ LookUp(t) \/ NextBatch(t)
           \/ Download(t) \/ BatchFails(t) \/ Finish(t)
  <2>1. at[t] # "none" /\ UNCHANGED <<job, owned>>
    BY <1>1 DEF Begin, Scan, ConnectFails, LookUp, NextBatch, Download,
                BatchFails, Finish, dataVars
  <2> QED
    BY <2>1
<1>2. CASE Share(t)
  BY <1>2, <1>t DEF Share
<1>3. CASE Launch(t) \/ PollInterrupted(t)
  BY <1>3, <1>t DEF Launch, PollInterrupted
<1>4. CASE PollOver(t)
  <2>1. ASSUME NEW c \in Connectors, NEW x \in Contents, c # t[1]
        PROVE  owned'[<<c, x>>] = owned[<<c, x>>]
    <3>1. <<c, x>> \in DOMAIN owned /\ <<c, x>>[1] = c
      BY <1>t
    <3> QED
      BY <1>4, <2>1, <3>1 DEF PollOver, Register
  <2> QED
    BY <1>4, <1>t, <2>1 DEF PollOver
<1> QED
  BY <1>1, <1>2, <1>3, <1>4 DEF CoroutineStep

(* A connector without a live tick gets no row and no active job. *)
LEMMA IdleGetsNothing ==
  ASSUME OtherTypes, [Next]_vars, NEW c \in Connectors, Live(c) = {}
  PROVE  ActiveJobs(c)' \subseteq ActiveJobs(c) /\ Owns(c)' \subseteq Owns(c)
<1> SUFFICES
      /\ \A t \in TicksOf(c) : job'[t] = job[t] \/ job'[t] \in {"none", "over"}
      /\ \A x \in Contents : owned'[<<c, x>>] \in {owned[<<c, x>>], None}
  BY DEF ActiveJobs, Owns, TicksOf
<1>t. /\ job \in [Ticks -> {"none", "running", "cancel_pending", "stuck",
                            "over"}]
      /\ owned \in [Connectors \X Contents -> Docs \cup {None}]
  BY DEF OtherTypes, TickTypes, DataTypes
<1>0. \A t \in TicksOf(c) : t \in Ticks /\ t[1] = c /\ at[t] = "none"
  BY DEF Live, TicksOf
<1>1. CASE UNCHANGED <<job, owned>>
  BY <1>1
<1>2. ASSUME NEW t \in Ticks, CoroutineStep(t)
      PROVE  /\ \A u \in TicksOf(c) : job'[u] = job[u]
             /\ \A x \in Contents : owned'[<<c, x>>] = owned[<<c, x>>]
  <2>1. at[t] # "none" /\ t[1] # c
    BY <1>0, <1>2, CoroutineTouches DEF TicksOf
  <2> QED
    BY <1>0, <1>2, <2>1, CoroutineTouches
<1>3. CASE \E t \in Ticks : ThreadStep(t)
  <2>1. /\ UNCHANGED job
        /\ \A x \in Contents :
             owned'[<<c, x>>] \in {owned[<<c, x>>], None}
    BY <1>3, <1>t
       DEF ThreadStep, Disown, CountOwners, EraseVictim, Sweep, CleanupStep,
           dataVars
  <2> QED
    BY <2>1
<1>4. CASE \E t \in Ticks : JobEnds(t)
  BY <1>4, <1>0, <1>t DEF JobEnds
<1>5. CASE \E b \in Connectors : Teardown(b) \/ TeardownTimesOut(b)
  <2>1. UNCHANGED job
    BY <1>5 DEF Teardown, TeardownTimesOut, TeardownEnds
  <2>2. \/ UNCHANGED owned
        \/ \E S : owned' = [p \in DOMAIN owned |-> IF p \in S THEN None
                                                  ELSE owned[p]]
    <3>1. ASSUME NEW b \in Connectors, Teardown(b)
          PROVE  \E S : owned' = [p \in DOMAIN owned |->
                                   IF p \in S THEN None ELSE owned[p]]
      <4>1. PICK K : Disowned(b, K)
        BY <3>1 DEF Teardown
      <4> QED
        BY <4>1 DEF Disowned
    <3> QED
      BY <1>5, <3>1 DEF TeardownTimesOut, dataVars
  <2>3. \A x \in Contents : owned'[<<c, x>>] \in {owned[<<c, x>>], None}
    BY <1>t, <2>2
  <2> QED
    BY <2>1, <2>3
<1>6. CASE Restart
  BY <1>6, <1>0 DEF Restart
<1> QED
  BY <1>1, <1>2, <1>3, <1>4, <1>5, <1>6
     DEF Next, Vanish, Dispatch, Stop, Delete, dataVars, vars

LEMMA GoneStaysIdle ==
  ASSUME SyncInv, [Next]_vars, NEW c \in Connectors, conn[c] = "gone",
         Live(c) = {}
  PROVE  Live(c)' = {}
<1>t. at \in [Ticks -> {"none"} \cup Busy \cup Awaiting]
  BY DEF SyncInv, CoreTypes
<1> SUFFICES ASSUME NEW u \in Ticks, u[1] = c
             PROVE  at'[u] = "none"
  BY DEF Live, TicksOf
<1>0. at[u] = "none"
  BY DEF Live, TicksOf
<1>1. CASE UNCHANGED at
  BY <1>0, <1>1
<1>2. CASE QuietStep
  BY <1>0, <1>2, <1>t DEF QuietStep
<1>3. CASE EndStep
  BY <1>0, <1>3, <1>t DEF EndStep, EndTick
<1>4. CASE DispatchStep
  <2>1. PICK b \in Connectors :
          conn[b] # "gone" /\ \E n : at' = [at EXCEPT ![<<b, n>>] = "new"]
    BY <1>4 DEF DispatchStep, Dispatch, LockIsFree
  <2>2. PICK n : at' = [at EXCEPT ![<<b, n>>] = "new"]
    BY <2>1
  <2>3. u # <<b, n>>
    BY <2>1
  <2> QED
    BY <1>0, <1>t, <2>2, <2>3
<1>5. CASE Restart
  BY <1>5 DEF Restart
<1> QED
  BY <1>1, <1>2, <1>3, <1>4, <1>5, StepKinds
     DEF StopStep, Stop, DeleteStep, Delete, TeardownStep

LEMMA OutlivedStays ==
  ASSUME [Next]_vars
  PROVE  outlived \subseteq outlived' /\ unread \subseteq unread'
<1>1. ASSUME NEW t \in Ticks, CoroutineStep(t) \/ ThreadStep(t) \/ JobEnds(t)
      PROVE  UNCHANGED <<outlived, unread>>
  BY <1>1
     DEF CoroutineStep, Begin, Scan, ConnectFails, LookUp, Share, PassOn,
         NextBatch, Download, BatchFails, Launch, PollInterrupted, PollOver,
         Finish, GoTo, Advance, ThreadStep, Disown, CountOwners, EraseVictim, Sweep,
         CleanupStep, JobEnds, deletion
<1> QED
  BY <1>1 DEF Next, Vanish, Dispatch, Stop, Delete, Teardown, TakeAway,
              TeardownTimesOut, Restart, deletion, vars

LEMMA GoneStep ==
  SyncInv /\ OtherTypes /\ GoneOwnsNothing /\ [Next]_vars => GoneOwnsNothing'
<1> SUFFICES ASSUME SyncInv, OtherTypes, GoneOwnsNothing, [Next]_vars,
                    NEW c \in Connectors, c \notin outlived',
                    conn'[c] = "gone"
             PROVE  /\ Live(c)' = {} /\ ActiveJobs(c)' = {}
                    /\ c \notin unread' => Owns(c)' = {}
  BY DEF GoneOwnsNothing
<1>1. CASE conn[c] = "gone"
  <2>1. /\ Live(c) = {} /\ ActiveJobs(c) = {}
        /\ c \notin unread' => Owns(c) = {}
    BY <1>1, OutlivedStays DEF GoneOwnsNothing
  <2> QED
    BY <1>1, <2>1, GoneStaysIdle, IdleGetsNothing
<1>2. CASE conn[c] # "gone"
  <2>1. Teardown(c) /\ conn' # conn
    BY <1>2, GoneByTeardown
  <2>2. PICK K : TakeAway(c, K) /\ Disowned(c, K)
    BY <2>1 DEF Teardown
  <2>3. Live(c) = {}
    BY <2>2 DEF TakeAway
  <2>4. UNCHANGED <<at, job>> /\ ActiveJobs(c) = {}
    BY <2>1 DEF Teardown, TeardownEnds, NoActiveJobs
  <2>5. ASSUME c \notin unread', NEW x \in Contents
        PROVE  owned'[<<c, x>>] = None
    <3>1. K = Contents
      BY <2>2, <2>5 DEF TakeAway
    <3> QED
      BY <2>2, <3>1 DEF Disowned, OtherTypes, DataTypes
  <2> QED
    BY <2>3, <2>4, <2>5 DEF Live, ActiveJobs, TicksOf, Owns
<1> QED
  BY <1>1, <1>2

LEMMA GoneInit == Init => GoneOwnsNothing
  BY DEF Init, GoneOwnsNothing

(* A deleted connector has no sync, no job and no row, and none comes back:
   the steps that make one need a live tick, and a dispatch refuses it.  The
   exceptions are the connector whose teardown saw no job while its sync was
   before it or between two, and, for its rows alone, one whose teardown
   could not read them and did not notice. *)
THEOREM GoneIsClean == Spec => []GoneOwnsNothing
  BY SyncInvInit, SyncInvStep, OtherTypesInit, OtherTypesStep, GoneInit,
     GoneStep, PTL DEF Spec
-----------------------------------------------------------------------------
(* The documents connectors own *)

Referenced(d) ==
  Registered(d) \/ \E t \in Ticks : found[t] = d \/ victim[t] = d

(* The tick t has left the file of content x behind: nothing will give the
   two a document again. *)
LeftTick(t) ==
  conn[t[1]] = "gone" \/ t[2] <= Len(log[t[1]])
LeftFile(t, x) ==
  at[t] \notin {"new", "connecting"}
    /\ (at[t] = "none" \/ x \notin todo[t] \cup batch[t])
Past(d) == LeftTick(d[1]) /\ LeftFile(d[1], d[2])

RowsFit == \A p \in DOMAIN owned : owned[p] # None => owned[p][2] = p[2]

(* A victim nobody else owns is in no row but those that do not count. *)
CountedAlone ==
  \A t \in Ticks : counted[t] =>
    /\ victim[t] # None
    /\ \A q \in DOMAIN owned \ raced : owned[q] # victim[t]

BatchTaken(t) ==
  at[t] \in {"downloading", "launching", "waiting"} =>
    todo[t] \cap batch[t] = {}

RowsInv == RowsFit /\ OwnedDocumentsExist /\ CountedAlone

PastInv ==
  /\ \A d \in Docs : Referenced(d) => Past(d)
  /\ \A t \in Ticks : BatchTaken(t)

(* OwnedDocumentsExist alone is not inductive: a launch gives documents the
   status ingesting, and nothing would keep it from one that is owned. *)
DataInv == RowsInv /\ PastInv
-----------------------------------------------------------------------------
(* What is past stays so. *)

LEMMA LogsGrow ==
  ASSUME SyncInv, [Next]_vars, NEW c \in Connectors
  PROVE  conn'[c] # "gone" => Len(log[c]) <= Len(log'[c])
<1> SUFFICES ASSUME conn'[c] # "gone"
             PROVE  Len(log[c]) <= Len(log'[c])
  OBVIOUS
<1>t. /\ log \in [Connectors -> Seq(SyncStatus)]
      /\ conn \in [Connectors -> ConnStatus]
      /\ log[c] \in Seq(SyncStatus) /\ Len(log[c]) \in Nat
  BY DEF SyncInv, CoreTypes
<1>1. CASE log'[c] = log[c]
  BY <1>1, <1>t
<1>2. ASSUME NEW n \in DOMAIN log[c], NEW s \in SyncStatus,
             log'[c] = [log[c] EXCEPT ![n] = s]
      PROVE  Len(log[c]) <= Len(log'[c])
  <2>1. PICK k \in Nat : Len(log[c]) = k /\ log[c] \in [1..k -> SyncStatus]
    BY <1>t, LogIsFunction
  <2>2. log'[c] \in [1..k -> SyncStatus]
    BY <1>2, <2>1
  <2> QED
    BY <2>1, <2>2, FunctionIsLog
<1>3. CASE QuietStep \/ DeleteStep
  BY <1>1, <1>3 DEF QuietStep, DeleteStep, Delete
<1>4. CASE EndStep
  <2>0. PICK t \in Ticks, s \in {"completed", "cancelled", "failed"} :
          Finalize(t, s)
    BY <1>4 DEF EndStep, EndTick
  <2>1. CASE log'[c] # log[c]
    <3>1. /\ LogStatus(t) # None
          /\ \/ log' = [log EXCEPT ![t[1]][t[2]] = s]
             \/ log' = [log EXCEPT ![t[1]][t[2]] = "failed"]
      BY <2>0, <2>1 DEF Finalize
    <3>2. t[1] = c /\ t[2] \in DOMAIN log[c]
      BY <1>t, <2>1, <3>1 DEF LogStatus
    <3>3. /\ \/ log'[c] = [log[c] EXCEPT ![t[2]] = s]
             \/ log'[c] = [log[c] EXCEPT ![t[2]] = "failed"]
          /\ s \in SyncStatus /\ "failed" \in SyncStatus
      BY <1>t, <3>1, <3>2 DEF SyncStatus
    <3> QED
      BY <1>2, <3>2, <3>3
  <2> QED
    BY <1>1, <2>1
<1>5. CASE DispatchStep
  <2>0. PICK b \in Connectors : log' = [log EXCEPT ![b] = Append(@, "started")]
    BY <1>5 DEF DispatchStep, Dispatch
  <2>1. log'[c] = log[c] \/ log'[c] = Append(log[c], "started")
    BY <1>t, <2>0
  <2>2. Len(Append(log[c], "started")) = Len(log[c]) + 1
    BY <1>t
  <2> QED
    BY <1>t, <2>1, <2>2
<1>6. CASE StopStep
  <2>0. PICK b \in Connectors : Stop(b)
    BY <1>6 DEF StopStep
  <2>1. PICK n \in OpenLogs(b) :
          log' = [log EXCEPT ![b] = [log[b] EXCEPT ![n] = "cancel pending"]]
    BY <2>0 DEF Stop
  <2>2. CASE b # c
    BY <1>1, <1>t, <2>1, <2>2
  <2>3. CASE b = c
    <3>1. /\ n \in DOMAIN log[c] /\ "cancel pending" \in SyncStatus
          /\ log'[c] = [log[c] EXCEPT ![n] = "cancel pending"]
      BY <1>t, <2>1, <2>3 DEF OpenLogs, SyncStatus
    <3> QED
      BY <1>2, <3>1
  <2> QED
    BY <2>2, <2>3
<1>7. CASE TeardownStep
  BY <1>t, <1>1, <1>7 DEF TeardownStep
<1>8. CASE Restart
  <2>0. log'[c] = [n \in DOMAIN log[c] |->
                    IF conn[c] = "syncing" /\ n \in OpenLogs(c) THEN "failed"
                    ELSE log[c][n]]
    BY <1>8 DEF Restart
  <2>1. PICK k \in Nat : /\ DOMAIN log[c] = 1..k /\ Len(log[c]) = k
                         /\ log[c] \in [1..k -> SyncStatus]
    BY <1>t, LogIsFunction
  <2>2. log'[c] \in [1..k -> SyncStatus]
    BY <2>0, <2>1 DEF SyncStatus
  <2> QED
    BY <2>1, <2>2, FunctionIsLog
<1> QED
  BY <1>3, <1>4, <1>5, <1>6, <1>7, <1>8, StepKinds

LEMMA GoneStays ==
  ASSUME SyncInv, [Next]_vars, NEW c \in Connectors, conn[c] = "gone"
  PROVE  conn'[c] = "gone"
  BY DeletionStep DEF DeletionKept

LEMMA LeftTickStays ==
  ASSUME SyncInv, [Next]_vars, NEW t \in Ticks, LeftTick(t)
  PROVE  LeftTick(t)'
<1>1. t[1] \in Connectors /\ t[2] \in Nat
  BY TickParts
<1>2. Len(log[t[1]]) \in Nat
  BY <1>1 DEF SyncInv, CoreTypes
<1>3. CASE conn'[t[1]] = "gone"
  BY <1>3 DEF LeftTick
<1>4. CASE conn'[t[1]] # "gone"
  <2>1. conn[t[1]] # "gone" /\ Len(log[t[1]]) <= Len(log'[t[1]])
    BY <1>1, <1>4, GoneStays, LogsGrow
  <2>2. Len(log'[t[1]]) \in Nat
    BY <1>1, SyncInvStep DEF SyncInv, CoreTypes
  <2> QED
    BY <1>1, <1>2, <2>1, <2>2 DEF LeftTick
<1> QED
  BY <1>3, <1>4

(* What a step other than a dispatch does to the files of a tick *)
TickStep(t) ==
  \/ at'[t] = "none"
  \/ /\ at[t] \in {"new", "connecting"}
     /\ at'[t] \in {"new", "connecting", "sharing", "batching"}
  \/ /\ at[t] \notin {"none", "new", "connecting"}
     /\ at'[t] \notin {"new", "connecting"}
     /\ todo'[t] \cup batch'[t] \subseteq todo[t] \cup batch[t]
     /\ BatchTaken(t) => BatchTaken(t)'

LEMMA SameTick ==
  ASSUME NEW t \in Ticks, at'[t] = at[t], todo'[t] = todo[t],
         batch'[t] \subseteq batch[t]
  PROVE  TickStep(t)
<1>1. at[t] = "none" => at'[t] = "none"
  OBVIOUS
<1>2. at[t] \in {"new", "connecting"} =>
        at'[t] \in {"new", "connecting", "sharing", "batching"}
  OBVIOUS
<1>3. todo'[t] \cup batch'[t] \subseteq todo[t] \cup batch[t]
  OBVIOUS
<1>4. BatchTaken(t) => BatchTaken(t)'
  BY DEF BatchTaken
<1> QED
  BY <1>1, <1>2, <1>3, <1>4 DEF TickStep

(* A coroutine changes the place and the files of its own tick. *)
LEMMA CoroutineElsewhere ==
  ASSUME SyncInv, OtherTypes, NEW t \in Ticks, CoroutineStep(t),
         NEW u \in Ticks \ {t}
  PROVE  at'[u] = at[u] /\ todo'[u] = todo[u] /\ batch'[u] = batch[u]
<1>t. /\ todo \in [Ticks -> SUBSET Contents]
      /\ batch \in [Ticks -> SUBSET Contents]
      /\ at \in [Ticks -> {"none"} \cup Busy \cup Awaiting]
  BY DEF OtherTypes, TickTypes, SyncInv, CoreTypes
<1>1. /\ \E place : at' = [at EXCEPT ![t] = place]
      /\ UNCHANGED todo \/ \E S : todo' = [todo EXCEPT ![t] = S]
      /\ UNCHANGED batch \/ \E S : batch' = [batch EXCEPT ![t] = S]
  <2>1. CASE Begin(t) \/ Scan(t) \/ ConnectFails(t) \/ Finish(t)
    BY <2>1 DEF Begin, Scan, ConnectFails, Finish, EndTick, GoTo, Advance,
                tickVars
  <2>2. CASE LookUp(t) \/ Share(t) \/ PollOver(t) \/ PollInterrupted(t)
    BY <2>2 DEF LookUp, Share, PassOn, PollOver, PollInterrupted, EndTick,
                GoTo, Advance
  <2>3. CASE NextBatch(t)
    BY <2>3 DEF NextBatch, EndTick, GoTo, Advance, tickVars
  <2>4. CASE Download(t) \/ BatchFails(t) \/ Launch(t)
    BY <2>4 DEF Download, BatchFails, Launch, EndTick, GoTo, Advance, tickVars
  <2> QED
    BY <2>1, <2>2, <2>3, <2>4 DEF CoroutineStep
<1> QED
  BY <1>t, <1>1

LEMMA CoroutineTick ==
  ASSUME SyncInv, OtherTypes, NEW t \in Ticks, CoroutineStep(t)
  PROVE  TickStep(t)
<1>t. /\ todo \in [Ticks -> SUBSET Contents]
      /\ batch \in [Ticks -> SUBSET Contents]
      /\ at \in [Ticks -> {"none"} \cup Busy \cup Awaiting]
  BY DEF OtherTypes, TickTypes, SyncInv, CoreTypes
<1>1. ASSUME NEW s, EndTick(t, s)
      PROVE  TickStep(t)
  BY <1>t, <1>1 DEF EndTick, TickStep
<1>2. ASSUME NEW place \in Busy \cup Awaiting,
             GoTo(t, place) \/ Advance(t, place)
      PROVE  at'[t] = place
  BY <1>t, <1>2 DEF GoTo, Advance
<1>3. CASE Begin(t) \/ Scan(t) \/ ConnectFails(t) \/ Finish(t)
  <2>1. \/ \E s : EndTick(t, s)
        \/ at[t] = "new" /\ GoTo(t, "connecting")
        \/ at[t] = "connecting" /\ Advance(t, "sharing")
        \/ at[t] = "connecting" /\ Advance(t, "batching")
    BY <1>3 DEF Begin, Scan, ConnectFails, Finish
  <2> QED
    BY <1>1, <1>2, <2>1 DEF TickStep, Busy, Awaiting
<1>4. CASE LookUp(t) \/ Share(t)
  <2>1. at[t] = "sharing" /\ UNCHANGED <<todo, batch>>
    BY <1>4 DEF LookUp, Share
  <2>2. Advance(t, "sharing") \/ Advance(t, "batching")
    BY <1>4 DEF LookUp, Share, PassOn, GoTo
  <2> QED
    BY <1>2, <2>1, <2>2 DEF TickStep, BatchTaken, Busy
<1>5. CASE NextBatch(t)
  <2>1. ASSUME NEW B \in SUBSET todo[t], batch' = [batch EXCEPT ![t] = B],
               todo' = [todo EXCEPT ![t] = @ \ B], GoTo(t, "downloading")
        PROVE  TickStep(t)
    <3>1. todo'[t] = todo[t] \ B /\ batch'[t] = B /\ at'[t] = "downloading"
      BY <1>t, <1>2, <2>1 DEF Awaiting
    <3>2. at[t] = "batching"
      BY <1>5 DEF NextBatch
    <3> QED
      BY <3>1, <3>2 DEF TickStep, BatchTaken
  <2>2. CASE GoTo(t, "cleaning") /\ UNCHANGED tickVars
    BY <1>2, <1>5, <2>2 DEF NextBatch, TickStep, BatchTaken, tickVars, Awaiting
  <2> QED
    BY <1>1, <1>5, <2>1, <2>2 DEF NextBatch, kSubset
<1>6. CASE Download(t)
  <2>1. ASSUME NEW B \in SUBSET batch[t], batch' = [batch EXCEPT ![t] = B],
               UNCHANGED todo, GoTo(t, "batching") \/ GoTo(t, "launching")
        PROVE  TickStep(t)
    <3>1. /\ todo'[t] = todo[t] /\ batch'[t] = B
          /\ at'[t] \in {"batching", "launching"}
      BY <1>t, <1>2, <2>1 DEF Busy, Awaiting
    <3>2. at[t] = "downloading"
      BY <1>6 DEF Download
    <3> QED
      BY <3>1, <3>2 DEF TickStep, BatchTaken
  <2> QED
    BY <1>1, <1>6, <2>1 DEF Download
<1>7. CASE BatchFails(t)
  <2>1. /\ todo'[t] = todo[t] /\ batch'[t] = {} /\ at'[t] = "batching"
        /\ at[t] \in {"downloading", "launching"}
    BY <1>t, <1>2, <1>7 DEF BatchFails, Busy
  <2> QED
    BY <2>1 DEF TickStep, BatchTaken
<1>8. CASE Launch(t)
  <2>1. /\ todo'[t] = todo[t] /\ batch'[t] = batch[t] /\ at'[t] = "waiting"
        /\ at[t] = "launching"
    BY <1>2, <1>8 DEF Launch, tickVars, Awaiting
  <2> QED
    BY <2>1 DEF TickStep, BatchTaken
<1>9. CASE PollOver(t)
  <2>1. /\ todo'[t] = todo[t] /\ batch'[t] = {} /\ at'[t] = "batching"
        /\ at[t] = "waiting"
    BY <1>t, <1>2, <1>9 DEF PollOver, Busy
  <2> QED
    BY <2>1 DEF TickStep, BatchTaken
<1>10. CASE PollInterrupted(t)
  BY <1>1, <1>10 DEF PollInterrupted
<1> QED
  BY <1>3, <1>4, <1>5, <1>6, <1>7, <1>8, <1>9, <1>10 DEF CoroutineStep

LEMMA TickSteps ==
  ASSUME SyncInv, OtherTypes, [Next]_vars, NEW t \in Ticks
  PROVE  \/ TickStep(t)
         \/ /\ Dispatch(t[1]) /\ t[2] = Len(log[t[1]]) + 1
            /\ at'[t] = "new"
<1>t. /\ todo \in [Ticks -> SUBSET Contents]
      /\ batch \in [Ticks -> SUBSET Contents]
      /\ at \in [Ticks -> {"none"} \cup Busy \cup Awaiting]
  BY DEF OtherTypes, TickTypes, SyncInv, CoreTypes
<1>1. CASE UNCHANGED <<at, todo, batch>>
  BY <1>1, SameTick
<1>2. ASSUME NEW c \in Connectors, Dispatch(c)
      PROVE  \/ TickStep(t)
             \/ /\ Dispatch(t[1]) /\ t[2] = Len(log[t[1]]) + 1
                /\ at'[t] = "new"
  <2>1. /\ at' = [at EXCEPT ![<<c, Len(log[c]) + 1>>] = "new"]
        /\ UNCHANGED <<todo, batch>>
    BY <1>2 DEF Dispatch, tickVars
  <2>2. CASE t = <<c, Len(log[c]) + 1>>
    BY <1>t, <1>2, <2>1, <2>2
  <2>3. CASE t # <<c, Len(log[c]) + 1>>
    BY <1>t, <2>1, <2>3, SameTick
  <2> QED
    BY <2>2, <2>3
<1>3. ASSUME NEW u \in Ticks, CoroutineStep(u)
      PROVE  TickStep(t)
  <2>1. CASE u = t
    BY <1>3, <2>1, CoroutineTick
  <2>2. CASE u # t
    BY <1>3, <2>2, CoroutineElsewhere, SameTick
  <2> QED
    BY <2>1, <2>2
<1>4. ASSUME NEW u \in Ticks, ThreadStep(u)
      PROVE  TickStep(t)
  <2>1. /\ at[u] = "cleaning" /\ UNCHANGED <<todo, batch>>
        /\ UNCHANGED at \/ at' = [at EXCEPT ![u] = "cleaned"]
    BY <1>4 DEF ThreadStep, Disown, CountOwners, EraseVictim, Sweep,
                CleanupStep
  <2>2. CASE at'[t] = at[t]
    BY <2>1, <2>2, SameTick
  <2>3. CASE at'[t] # at[t]
    <3>1. at[t] = "cleaning" /\ at'[t] = "cleaned"
      BY <1>t, <2>1, <2>3
    <3> QED
      BY <2>1, <3>1 DEF TickStep, BatchTaken
  <2> QED
    BY <2>2, <2>3
<1>5. ASSUME NEW u \in Ticks, JobEnds(u)
      PROVE  TickStep(t)
  <2>1. UNCHANGED <<at, todo>> /\ batch'[t] \subseteq batch[t]
    BY <1>t, <1>5 DEF JobEnds
  <2> QED
    BY <2>1, SameTick
<1>6. CASE Restart
  BY <1>6 DEF Restart, TickStep
<1>7. ASSUME NEW c \in Connectors, Teardown(c) \/ TeardownTimesOut(c)
      PROVE  UNCHANGED <<at, todo, batch>>
  BY <1>7 DEF Teardown, TeardownTimesOut, TeardownEnds, tickVars
<1> QED
  BY <1>1, <1>2, <1>3, <1>4, <1>5, <1>6, <1>7
     DEF Next, Vanish, Stop, Delete, tickVars, vars

LEMMA PastStays ==
  ASSUME SyncInv, OtherTypes, [Next]_vars, NEW d \in Docs, Past(d)
  PROVE  Past(d)'
<1> DEFINE t == d[1]
           x == d[2]
<1>0. t \in Ticks /\ t[1] \in Connectors /\ t[2] \in Nat
  BY DocParts, TickParts
<1>1. LeftTick(t)'
  BY <1>0, LeftTickStays DEF Past
<1>2. LeftFile(t, x)'
  <2>1. CASE Dispatch(t[1]) /\ t[2] = Len(log[t[1]]) + 1
    <3>1. conn[t[1]] # "gone"
      BY <2>1 DEF Dispatch, LockIsFree
    <3>2. Len(log[t[1]]) \in Nat /\ t[2] <= Len(log[t[1]])
      BY <1>0, <3>1 DEF Past, LeftTick, SyncInv, CoreTypes
    <3> QED
      BY <1>0, <2>1, <3>2
  <2>2. CASE TickStep(t)
    BY <2>2 DEF TickStep, Past, LeftFile
  <2> QED
    BY <1>0, <2>1, <2>2, TickSteps
<1> QED
  BY <1>1, <1>2 DEF Past

LEMMA BatchTakenStays ==
  ASSUME SyncInv, OtherTypes, [Next]_vars, NEW t \in Ticks, BatchTaken(t)
  PROVE  BatchTaken(t)'
  BY TickSteps DEF TickStep, BatchTaken
-----------------------------------------------------------------------------
(* Nothing refers to a document that its tick is not done with. *)

RowTypes ==
  /\ owned \in [Connectors \X Contents -> Docs \cup {None}]
  /\ found \in [Ticks -> Docs \cup {None}]
  /\ victim \in [Ticks -> Docs \cup {None}]

(* A reference is copied from another one, or is the row of a file that a
   job has just finished. *)
LEMMA ReferencesAreCopied ==
  ASSUME OtherTypes, [Next]_vars, NEW d \in Docs, Referenced(d)'
  PROVE  \/ Referenced(d)
         \/ PollOver(d[1]) /\ d[2] \in batch[d[1]]
<1>t. RowTypes /\ orphans \in [Ticks -> SUBSET Contents]
  BY DEF OtherTypes, TickTypes, DataTypes, RowTypes
<1>n. d # None
  BY DocParts
<1>1. CASE UNCHANGED <<owned, found, victim>>
  BY <1>1 DEF Referenced, Registered
<1>2. ASSUME NEW t \in Ticks, LookUp(t)
      PROVE  Referenced(d)
  <2>1. UNCHANGED <<owned, victim>>
    BY <1>2 DEF LookUp, dataVars
  <2>2. CASE UNCHANGED found
    BY <1>1, <2>1, <2>2 DEF Referenced, Registered
  <2>3. CASE ~UNCHANGED found
    <3>1. PICK p \in DOMAIN owned : found' = [found EXCEPT ![t] = owned[p]]
      <4>1. PICK x \in shared[t] : \E c \in OwnersOf(x) :
              found' = [found EXCEPT ![t] = owned[<<c, x>>]]
        BY <1>2, <2>3 DEF LookUp
      <4>2. PICK c \in OwnersOf(x) :
              found' = [found EXCEPT ![t] = owned[<<c, x>>]]
        BY <4>1
      <4>3. <<c, x>> \in DOMAIN owned
        BY <1>t, <4>2 DEF OwnersOf, RowTypes, OtherTypes, TickTypes
      <4> QED
        BY <4>2, <4>3
    <3>2. \A u \in Ticks : found'[u] = found[u] \/ found'[u] = owned[p]
      BY <1>t, <3>1 DEF RowTypes
    <3> QED
      BY <2>1, <3>2 DEF Referenced, Registered
  <2> QED
    BY <2>2, <2>3
<1>3. ASSUME NEW t \in Ticks, Share(t)
      PROVE  Referenced(d)
  <2>1. /\ \A p \in DOMAIN owned : owned'[p] = owned[p] \/ owned'[p] = found[t]
        /\ DOMAIN owned' = DOMAIN owned
        /\ \A u \in Ticks : found'[u] = found[u] \/ found'[u] = None
        /\ UNCHANGED victim
    BY <1>t, <1>3 DEF Share, RowTypes
  <2> QED
    BY <1>n, <2>1 DEF Referenced, Registered
<1>4. ASSUME NEW t \in Ticks, PollOver(t)
      PROVE  \/ Referenced(d)
             \/ PollOver(d[1]) /\ d[2] \in batch[d[1]]
  <2>1. /\ DOMAIN owned' = DOMAIN owned /\ UNCHANGED <<found, victim>>
        /\ \A p \in DOMAIN owned :
             \/ owned'[p] = owned[p]
             \/ p[2] \in Finished(t) /\ owned'[p] = FileOf(t, p[2])
    BY <1>4 DEF PollOver, Register
  <2>2. CASE \E p \in DOMAIN owned :
               p[2] \in Finished(t) /\ d = FileOf(t, p[2])
    <3>1. d[1] = t /\ d[2] \in batch[t]
      BY <2>2 DEF FileOf, Finished
    <3> QED
      BY <1>4, <3>1
  <2>3. CASE \A p \in DOMAIN owned :
               ~(p[2] \in Finished(t) /\ d = FileOf(t, p[2]))
    BY <2>1, <2>3 DEF Referenced, Registered
  <2> QED
    BY <2>2, <2>3
<1>5. ASSUME NEW t \in Ticks, Disown(t)
      PROVE  Referenced(d)
  <2>0. CASE UNCHANGED <<owned, victim>>
    <3>1. UNCHANGED found
      BY <1>5 DEF Disown, CleanupStep
    <3>2. UNCHANGED <<owned, found, victim>>
      BY <2>0, <3>1
    <3> QED
      BY <3>2 DEF Referenced, Registered
  <2> SUFFICES ASSUME ~UNCHANGED <<owned, victim>>
               PROVE  Referenced(d)
    BY <2>0
  <2>1. PICK x \in orphans[t] :
          /\ victim' = [victim EXCEPT ![t] = owned[<<t[1], x>>]]
          /\ owned' = [owned EXCEPT ![<<t[1], x>>] = None]
    BY <1>5 DEF Disown
  <2>2. <<t[1], x>> \in DOMAIN owned
    BY <1>t, TickParts DEF RowTypes
  <2>3. /\ UNCHANGED found /\ DOMAIN owned' = DOMAIN owned
        /\ \A p \in DOMAIN owned : owned'[p] = owned[p] \/ owned'[p] = None
        /\ \A u \in Ticks :
             victim'[u] = victim[u] \/ victim'[u] = owned[<<t[1], x>>]
    BY <1>t, <1>5, <2>1 DEF Disown, CleanupStep, RowTypes
  <2> QED
    BY <1>n, <2>2, <2>3 DEF Referenced, Registered
<1>6. ASSUME NEW t \in Ticks, CountOwners(t) \/ EraseVictim(t)
      PROVE  Referenced(d)
  <2>1. /\ UNCHANGED <<found, owned>>
        /\ \A u \in Ticks : victim'[u] = victim[u] \/ victim'[u] = None
    BY <1>t, <1>6 DEF CountOwners, EraseVictim, CleanupStep, dataVars, RowTypes
  <2> QED
    BY <1>n, <2>1 DEF Referenced, Registered
<1>7. ASSUME NEW c \in Connectors, Teardown(c)
      PROVE  Referenced(d)
  <2>1. /\ UNCHANGED <<found, victim>> /\ DOMAIN owned' = DOMAIN owned
        /\ \A p \in DOMAIN owned : owned'[p] = owned[p] \/ owned'[p] = None
    BY <1>7 DEF Teardown, TeardownEnds, Disowned, tickVars
  <2> QED
    BY <1>n, <2>1 DEF Referenced, Registered
<1>8. CASE Restart
  <2>1. /\ UNCHANGED owned
        /\ \A u \in Ticks : found'[u] = None /\ victim'[u] = None
    BY <1>8 DEF Restart
  <2> QED
    BY <1>n, <2>1 DEF Referenced, Registered
<1>9. ASSUME NEW t \in Ticks,
             \/ Begin(t) \/ Scan(t) \/ ConnectFails(t) \/ NextBatch(t)
             \/ Download(t) \/ BatchFails(t) \/ Launch(t) \/ PollInterrupted(t)
             \/ Finish(t) \/ JobEnds(t) \/ Sweep(t)
      PROVE  UNCHANGED <<owned, found, victim>>
  <2>1. CASE Begin(t) \/ Scan(t) \/ ConnectFails(t) \/ Finish(t)
    BY <2>1 DEF Begin, Scan, ConnectFails, Finish, EndTick, tickVars, dataVars
  <2>2. CASE NextBatch(t)
    BY <2>2 DEF NextBatch, EndTick, tickVars, dataVars
  <2>3. CASE Download(t) \/ BatchFails(t) \/ Launch(t)
    BY <2>3 DEF Download, BatchFails, Launch, EndTick, tickVars, dataVars
  <2>4. CASE PollInterrupted(t) \/ JobEnds(t) \/ Sweep(t)
    BY <2>4 DEF PollInterrupted, JobEnds, Sweep, CleanupStep, EndTick
  <2> QED
    BY <1>9, <2>1, <2>2, <2>3, <2>4
<1>10. ASSUME NEW c \in Connectors, NEW x \in Contents,
              Vanish(c, x) \/ Stop(c) \/ Delete(c)
       PROVE  UNCHANGED <<owned, found, victim>>
  BY <1>10 DEF Vanish, Stop, Delete, tickVars, dataVars
<1>11. ASSUME NEW c \in Connectors,
              Dispatch(c) \/ Stop(c) \/ Delete(c) \/ TeardownTimesOut(c)
       PROVE  UNCHANGED <<owned, found, victim>>
  BY <1>11 DEF Dispatch, Stop, Delete, TeardownTimesOut, TeardownEnds,
               tickVars, dataVars
<1>12. CASE UNCHANGED vars
  BY <1>1, <1>12 DEF vars, tickVars, dataVars
<1> QED
  BY <1>1, <1>2, <1>3, <1>4, <1>5, <1>6, <1>7, <1>8, <1>9, <1>10, <1>11, <1>12
     DEF Next, CoroutineStep, ThreadStep

(* A live tick's log is there, unless its connector is gone. *)
LEMMA LiveIsLogged ==
  ASSUME SyncInv, NEW t \in Ticks, at[t] # "none"
  PROVE  LeftTick(t)
<1>1. t[1] \in Connectors /\ t[2] \in Nat /\ t \in Live(t[1])
  BY TickParts DEF Live, TicksOf
<1>2. conn[t[1]] # "gone" => t[2] = Len(log[t[1]])
  BY <1>1 DEF SyncInv, ConnectorInv
<1>3. Len(log[t[1]]) \in Nat
  BY <1>1 DEF SyncInv, CoreTypes
<1> QED
  BY <1>1, <1>2, <1>3 DEF LeftTick

LEMMA PastStep ==
  ASSUME SyncInv, OtherTypes, PastInv, [Next]_vars
  PROVE  PastInv'
<1>1. ASSUME NEW d \in Docs, Referenced(d)'
      PROVE  Past(d)'
  <2>1. CASE Referenced(d)
    BY <2>1, PastStays DEF PastInv
  <2>2. CASE PollOver(d[1]) /\ d[2] \in batch[d[1]]
    <3> DEFINE t == d[1]
    <3>1. t \in Ticks
      BY DocParts
    <3>2. at[t] = "waiting" /\ UNCHANGED todo
      BY <2>2 DEF PollOver
    <3>3. batch'[t] = {} /\ at'[t] = "batching"
      BY <2>2, <3>1 DEF PollOver, Advance, OtherTypes, TickTypes, SyncInv,
                        CoreTypes
    <3>4. d[2] \notin todo[t]
      BY <2>2, <3>1, <3>2 DEF PastInv, BatchTaken
    <3>5. LeftFile(t, d[2])'
      BY <3>2, <3>3, <3>4 DEF LeftFile
    <3>6. LeftTick(t)'
      BY <3>1, <3>2, LiveIsLogged, LeftTickStays
    <3> QED
      BY <3>5, <3>6 DEF Past
  <2> QED
    BY <1>1, <2>1, <2>2, ReferencesAreCopied
<1> QED
  BY <1>1, BatchTakenStays DEF PastInv
-----------------------------------------------------------------------------
(* The rows of documents that are whole, step by step *)

(* Rows and victims stay as they are, and so does a whole document that has
   a row. *)
LEMMA RowsAreLeft ==
  ASSUME RowsInv, DataTypes, UNCHANGED <<owned, raced>>,
         \A t \in Ticks : counted'[t] => counted[t] /\ victim'[t] = victim[t],
         \A d \in Docs :
           Registered(d) /\ doc[d] = "completed" => doc'[d] = "completed"
  PROVE  RowsInv'
<1>1. RowsFit'
  BY DEF RowsInv, RowsFit
<1>2. OwnedDocumentsExist'
  <2> SUFFICES ASSUME NEW p \in DOMAIN owned, owned[p] # None, p \notin raced
               PROVE  doc'[owned[p]] = "completed"
    BY DEF OwnedDocumentsExist
  <2>1. owned[p] \in Docs /\ Registered(owned[p])
    BY DEF DataTypes, Registered
  <2>2. doc[owned[p]] = "completed"
    BY DEF RowsInv, OwnedDocumentsExist
  <2> QED
    BY <2>1, <2>2
<1>3. CountedAlone'
  BY DEF RowsInv, CountedAlone
<1> QED
  BY <1>1, <1>2, <1>3 DEF RowsInv

(* A launch starts documents no row refers to. *)
LEMMA LaunchRows ==
  ASSUME RowsInv, PastInv, OtherTypes, NEW t \in Ticks, Launch(t)
  PROVE  RowsInv'
<1>1. ASSUME NEW d \in Docs, Registered(d), doc[d] = "completed"
      PROVE  doc'[d] = "completed"
  <2>1. ~(d[1] = t /\ d[2] \in batch[t])
    <3>1. Past(d) /\ at[t] = "launching"
      BY <1>1 DEF PastInv, Referenced, Launch
    <3> QED
      BY <3>1 DEF Past, LeftFile
  <2> QED
    BY <1>1, <2>1 DEF Launch
<1> QED
  BY <1>1, RowsAreLeft DEF Launch, tickVars, OtherTypes

LEMMA JobRows ==
  ASSUME RowsInv, OtherTypes, NEW t \in Ticks, JobEnds(t) \/ PollInterrupted(t)
  PROVE  RowsInv'
<1>1. UNCHANGED <<owned, raced, victim, counted>>
  BY DEF JobEnds, PollInterrupted, EndTick
<1>2. ASSUME NEW d \in Docs, doc[d] = "completed"
      PROVE  doc'[d] = "completed"
  BY <1>2 DEF JobEnds, PollInterrupted
<1> QED
  BY <1>1, <1>2, RowsAreLeft DEF OtherTypes

LEMMA ShareRows ==
  ASSUME RowsInv, OtherTypes, NEW t \in Ticks, Share(t)
  PROVE  RowsInv'
<1> DEFINE d == found[t]
           p == <<t[1], d[2]>>
<1>t. owned \in [Connectors \X Contents -> Docs \cup {None}]
  BY DEF OtherTypes, DataTypes
<1>0. d \in Docs /\ p \in DOMAIN owned /\ p[2] = d[2]
  <2>1. d \in Docs
    BY DEF Share, OtherTypes, TickTypes
  <2>2. p \in Connectors \X Contents
    BY <2>1, DocParts, TickParts
  <2> QED
    BY <1>t, <2>1, <2>2
<1>1. /\ DOMAIN owned' = DOMAIN owned /\ UNCHANGED <<victim, counted, doc>>
      /\ \A q \in DOMAIN owned : q # p => owned'[q] = owned[q]
      /\ owned[p] = None => owned'[p] = d
      /\ owned[p] # None => owned'[p] = owned[p]
  BY <1>0, <1>t DEF Share
<1>2. raced \subseteq raced'
  BY DEF Share
<1>3. p \notin raced' => \/ owned[p] # None
                         \/ \E q \in DOMAIN owned \ raced : owned[q] = d
  BY DEF Share
<1>4. RowsFit'
  BY <1>0, <1>1 DEF RowsInv, RowsFit
<1>5. ASSUME NEW q \in DOMAIN owned \ raced', owned'[q] # None
      PROVE  \E r \in DOMAIN owned \ raced : owned[r] = owned'[q]
  <2>1. CASE owned'[q] = owned[q]
    BY <1>2, <2>1
  <2>2. CASE owned'[q] # owned[q]
    <3>1. q = p /\ owned'[q] = d /\ owned[p] = None
      BY <1>1, <2>2
    <3> QED
      BY <1>3, <3>1
  <2> QED
    BY <2>1, <2>2
<1>6. OwnedDocumentsExist'
  BY <1>1, <1>5 DEF RowsInv, OwnedDocumentsExist
<1>7. CountedAlone'
  BY <1>1, <1>5 DEF RowsInv, CountedAlone
<1> QED
  BY <1>4, <1>6, <1>7 DEF RowsInv

(* A finished file is a document of the tick that polls: no victim. *)
LEMMA PollOverRows ==
  ASSUME RowsInv, PastInv, OtherTypes, NEW t \in Ticks, PollOver(t)
  PROVE  RowsInv'
<1>t. /\ owned \in [Connectors \X Contents -> Docs \cup {None}]
      /\ batch \in [Ticks -> SUBSET Contents]
      /\ victim \in [Ticks -> Docs \cup {None}]
  BY DEF OtherTypes, DataTypes, TickTypes
<1>1. /\ DOMAIN owned' = DOMAIN owned
      /\ UNCHANGED <<raced, victim, counted, doc>>
      /\ \A q \in DOMAIN owned :
           \/ owned'[q] = owned[q]
           \/ q[2] \in Finished(t) /\ owned'[q] = FileOf(t, q[2])
  BY DEF PollOver, Register
<1>2. ASSUME NEW x \in Finished(t)
      PROVE  /\ doc[FileOf(t, x)] = "completed" /\ FileOf(t, x)[2] = x
             /\ ~Referenced(FileOf(t, x))
  <2>1. /\ doc[FileOf(t, x)] = "completed" /\ x \in batch[t]
        /\ FileOf(t, x)[1] = t /\ FileOf(t, x)[2] = x
    BY DEF Finished, FileOf
  <2>2. FileOf(t, x) \in Docs
    BY <1>t, <2>1 DEF FileOf, Docs
  <2>3. ~LeftFile(t, x)
    BY <2>1 DEF PollOver, LeftFile
  <2>4. ~Past(FileOf(t, x))
    BY <2>1, <2>3 DEF Past
  <2> QED
    BY <2>1, <2>2, <2>4 DEF PastInv
<1>3. RowsFit'
  BY <1>1, <1>2 DEF RowsInv, RowsFit
<1>4. OwnedDocumentsExist'
  BY <1>1, <1>2 DEF RowsInv, OwnedDocumentsExist
<1>5. CountedAlone'
  <2> SUFFICES ASSUME NEW u \in Ticks, counted[u],
                      NEW q \in DOMAIN owned \ raced
               PROVE  victim[u] # None /\ owned'[q] # victim[u]
    BY <1>1, <1>t DEF CountedAlone, RowsInv
  <2>1. victim[u] # None /\ owned[q] # victim[u]
    BY DEF RowsInv, CountedAlone
  <2>2. q[2] \in Finished(t) => FileOf(t, q[2]) # victim[u]
    BY <1>2 DEF Referenced
  <2> QED
    BY <1>1, <2>1, <2>2
<1> QED
  BY <1>3, <1>4, <1>5 DEF RowsInv

LEMMA DisownRows ==
  ASSUME RowsInv, OtherTypes, NEW t \in Ticks, Disown(t)
  PROVE  RowsInv'
<1>t. /\ owned \in [Connectors \X Contents -> Docs \cup {None}]
      /\ victim \in [Ticks -> Docs \cup {None}]
  BY DEF OtherTypes, DataTypes, TickTypes
<1>n. CASE UNCHANGED <<owned, raced, victim>>
  BY <1>n, RowsAreLeft DEF Disown, OtherTypes
<1> SUFFICES ASSUME ~UNCHANGED <<owned, raced, victim>>
             PROVE  RowsInv'
  BY <1>n
<1>0. PICK x \in orphans[t] :
        /\ victim' = [victim EXCEPT ![t] = owned[<<t[1], x>>]]
        /\ owned' = [owned EXCEPT ![<<t[1], x>>] = None]
        /\ raced' = raced \ {<<t[1], x>>}
  BY DEF Disown
<1>1. /\ DOMAIN owned' = DOMAIN owned /\ UNCHANGED <<counted, doc>>
      /\ \A q \in DOMAIN owned : q # <<t[1], x>> => owned'[q] = owned[q]
      /\ \A q \in DOMAIN owned : owned'[q] = owned[q] \/ owned'[q] = None
      /\ \A q \in DOMAIN owned :
           owned'[q] # None /\ q \notin raced' => q \notin raced
  BY <1>0, <1>t DEF Disown
<1>2. victim[t] = None /\ \A u \in Ticks : u # t => victim'[u] = victim[u]
  BY <1>0, <1>t DEF Disown
<1>3. RowsFit'
  BY <1>1 DEF RowsInv, RowsFit
<1>4. OwnedDocumentsExist'
  BY <1>1 DEF RowsInv, OwnedDocumentsExist
<1>5. CountedAlone'
  <2> SUFFICES ASSUME NEW u \in Ticks, counted[u]
               PROVE  /\ victim'[u] # None
                      /\ \A q \in DOMAIN owned \ raced' :
                           owned'[q] # victim'[u]
    BY <1>1 DEF CountedAlone
  <2>1. /\ victim[u] # None
        /\ \A q \in DOMAIN owned \ raced : owned[q] # victim[u]
    BY DEF RowsInv, CountedAlone
  <2>2. victim'[u] = victim[u]
    BY <1>2, <2>1
  <2> QED
    BY <1>1, <2>1, <2>2
<1> QED
  BY <1>3, <1>4, <1>5 DEF RowsInv

LEMMA CountRows ==
  ASSUME RowsInv, OtherTypes, NEW t \in Ticks, CountOwners(t)
  PROVE  RowsInv'
<1>t. /\ owned \in [Connectors \X Contents -> Docs \cup {None}]
      /\ victim \in [Ticks -> Docs \cup {None}]
      /\ counted \in [Ticks -> BOOLEAN]
  BY DEF OtherTypes, DataTypes, TickTypes
<1>0. UNCHANGED <<owned, raced, doc>> /\ victim[t] # None /\ ~counted[t]
  BY DEF CountOwners, dataVars
<1>1. CASE UNCHANGED counted
  <2>1. \A u \in Ticks : u # t => victim'[u] = victim[u]
    BY <1>1, <1>t DEF CountOwners
  <2>2. \A u \in Ticks : counted'[u] => counted[u] /\ victim'[u] = victim[u]
    BY <1>0, <1>1, <2>1
  <2> QED
    BY <1>0, <2>2, RowsAreLeft DEF OtherTypes
<1>2. CASE ~UNCHANGED counted
  <2>1. /\ OwnersOf(victim[t][2]) = {} /\ UNCHANGED victim
        /\ counted' = [counted EXCEPT ![t] = TRUE]
    BY <1>2 DEF CountOwners
  <2>2. ASSUME NEW q \in DOMAIN owned
        PROVE  owned[q] # victim[t]
    <3>1. SUFFICES ASSUME owned[q] = victim[t] PROVE FALSE
      OBVIOUS
    <3>2. q[1] \in Connectors /\ q = <<q[1], q[2]>> /\ q[2] = victim[t][2]
      BY <1>0, <1>t, <3>1 DEF RowsInv, RowsFit
    <3>3. q[1] \in OwnersOf(victim[t][2])
      BY <1>0, <3>1, <3>2 DEF OwnersOf
    <3> QED
      BY <2>1, <3>3
  <2>3. \A u \in Ticks : u # t => counted'[u] = counted[u]
    BY <1>t, <2>1
  <2>4. CountedAlone'
    BY <1>0, <2>1, <2>2, <2>3 DEF RowsInv, CountedAlone
  <2>5. RowsFit' /\ OwnedDocumentsExist'
    BY <1>0 DEF RowsInv, RowsFit, OwnedDocumentsExist
  <2> QED
    BY <2>4, <2>5 DEF RowsInv
<1> QED
  BY <1>1, <1>2

LEMMA EraseRows ==
  ASSUME RowsInv, OtherTypes, NEW t \in Ticks, EraseVictim(t) \/ Sweep(t)
  PROVE  RowsInv'
<1>t. /\ victim \in [Ticks -> Docs \cup {None}]
      /\ counted \in [Ticks -> BOOLEAN]
      /\ owned \in [Connectors \X Contents -> Docs \cup {None}]
  BY DEF OtherTypes, TickTypes, DataTypes
<1>0. UNCHANGED <<owned, raced>>
  BY DEF EraseVictim, Sweep
<1>1. CASE Sweep(t)
  <2>1. ASSUME NEW d \in Docs, Registered(d), doc[d] = "completed"
        PROVE  doc'[d] = "completed"
    <3>1. d \notin Unregistered(t[1])
      BY <2>1 DEF Unregistered
    <3> QED
      BY <1>1, <2>1, <3>1 DEF Sweep, Erase
  <2>2. UNCHANGED <<victim, counted>>
    BY <1>1 DEF Sweep
  <2> QED
    BY <1>0, <2>1, <2>2, RowsAreLeft DEF OtherTypes
<1>2. CASE EraseVictim(t)
  <2>1. counted[t] /\ Erase(t, {victim[t]})
    BY <1>2 DEF EraseVictim
  <2>2. /\ counted'[t] = FALSE
        /\ \A u \in Ticks : u # t => /\ counted'[u] = counted[u]
                                     /\ victim'[u] = victim[u]
    BY <1>2, <1>t DEF EraseVictim
  <2>3. RowsFit' /\ CountedAlone'
    BY <1>0, <2>2 DEF RowsInv, RowsFit, CountedAlone
  <2>4. OwnedDocumentsExist'
    <3> SUFFICES ASSUME NEW p \in DOMAIN owned, owned[p] # None, p \notin raced
                 PROVE  doc'[owned[p]] = "completed"
      BY <1>0 DEF OwnedDocumentsExist
    <3>1. /\ owned[p] \in Docs /\ owned[p] # victim[t]
          /\ doc[owned[p]] = "completed"
      BY <1>t, <2>1 DEF RowsInv, CountedAlone, OwnedDocumentsExist
    <3> QED
      BY <2>1, <3>1 DEF Erase
  <2> QED
    BY <2>3, <2>4 DEF RowsInv
<1> QED
  BY <1>1, <1>2

(* What a teardown erases has no row left, but of its connector. *)
LEMMA TeardownRows ==
  ASSUME RowsInv, OtherTypes, NEW c \in Connectors, Teardown(c)
  PROVE  RowsInv'
<1>t. /\ owned \in [Connectors \X Contents -> Docs \cup {None}]
      /\ raced \subseteq Connectors \X Contents
  BY DEF OtherTypes, DataTypes
<1>k. PICK K \in SUBSET Contents :
        \E D \in SUBSET (LastOwned(c, K) \cup Strays(c, K)) :
          Disowned(c, K) /\ Erased(D)
  BY DEF Teardown
<1>p. PICK D \in SUBSET (LastOwned(c, K) \cup Strays(c, K)) :
        Disowned(c, K) /\ Erased(D)
  BY <1>k
<1>0. UNCHANGED <<victim, counted>>
  BY DEF Teardown, TeardownEnds, tickVars
<1>1. /\ DOMAIN owned' = DOMAIN owned
      /\ \A q \in DOMAIN owned :
           owned'[q] = IF q \in {c} \X K THEN None ELSE owned[q]
      /\ \A q \in DOMAIN owned :
           q \notin {c} \X K /\ q \notin raced' => q \notin raced
  BY <1>p DEF Disowned
<1>2. RowsFit'
  BY <1>1 DEF RowsInv, RowsFit
<1>3. ASSUME NEW p \in DOMAIN owned, owned[p] # None, p \notin {c} \X K
      PROVE  owned[p] \notin LastOwned(c, K) \cup Strays(c, K)
  <2>0. p[1] \in Connectors /\ p[2] \in Contents /\ p = <<p[1], p[2]>>
    BY <1>t
  <2>1. ASSUME NEW x \in K, OwnersOf(x) = {c}
        PROVE  owned[p] # owned[<<c, x>>]
    <3>1. owned[<<c, x>>] # None /\ <<c, x>> \in DOMAIN owned
      BY <1>t, <2>1 DEF OwnersOf
    <3>2. SUFFICES ASSUME owned[p] = owned[<<c, x>>] PROVE FALSE
      OBVIOUS
    <3>3. p[2] = x
      <4>1. owned[p][2] = p[2] /\ owned[<<c, x>>][2] = <<c, x>>[2]
        BY <1>3, <3>1 DEF RowsInv, RowsFit
      <4> QED
        BY <3>2, <4>1
    <3>4. p[1] \in OwnersOf(x)
      BY <1>3, <2>0, <3>3 DEF OwnersOf
    <3> QED
      BY <1>3, <2>0, <2>1, <3>3, <3>4
  <2> QED
    <3>1. owned[p] \notin LastOwned(c, K)
      BY <2>1 DEF LastOwned
    <3>2. owned[p] \notin Strays(c, K)
      BY <1>3 DEF Strays
    <3> QED
      BY <3>1, <3>2
<1>4. OwnedDocumentsExist'
  <2> SUFFICES ASSUME NEW p \in DOMAIN owned, owned'[p] # None, p \notin raced'
               PROVE  doc'[owned'[p]] = "completed"
    BY <1>1 DEF OwnedDocumentsExist
  <2>1. p \notin {c} \X K /\ owned'[p] = owned[p] /\ p \notin raced
    BY <1>1
  <2>2. owned[p] \in Docs /\ doc[owned[p]] = "completed"
    BY <1>t, <2>1 DEF RowsInv, OwnedDocumentsExist
  <2>3. owned[p] \notin D
    BY <1>3, <2>1
  <2>4. doc' = [d \in Docs |-> IF d \in D THEN "none" ELSE doc[d]]
    BY <1>p DEF Erased
  <2>5. doc'[owned[p]] = doc[owned[p]]
    BY <2>2, <2>3, <2>4
  <2> QED
    BY <2>1, <2>2, <2>5
<1>5. CountedAlone'
  <2> SUFFICES ASSUME NEW u \in Ticks, counted[u]
               PROVE  /\ victim[u] # None
                      /\ \A q \in DOMAIN owned \ raced' : owned'[q] # victim[u]
    BY <1>0, <1>1 DEF CountedAlone
  <2>1. /\ victim[u] # None
        /\ \A q \in DOMAIN owned \ raced : owned[q] # victim[u]
    BY DEF RowsInv, CountedAlone
  <2> QED
    BY <1>1, <2>1
<1> QED
  BY <1>2, <1>4, <1>5 DEF RowsInv

LEMMA RestartRows ==
  ASSUME RowsInv, OtherTypes, Restart
  PROVE  RowsInv'
<1>1. /\ UNCHANGED <<owned, raced>>
      /\ \A t \in Ticks : ~counted'[t]
      /\ \A d \in Docs : doc[d] = "completed" => doc'[d] = "completed"
  BY DEF Restart
<1> QED
  BY <1>1, RowsAreLeft DEF OtherTypes

LEMMA RowsStep ==
  ASSUME RowsInv, PastInv, OtherTypes, [Next]_vars
  PROVE  RowsInv'
<1>1. CASE UNCHANGED <<owned, raced, victim, counted, doc>>
  BY <1>1, RowsAreLeft DEF OtherTypes
<1>2. ASSUME NEW t \in Ticks,
             \/ Begin(t) \/ Scan(t) \/ ConnectFails(t) \/ LookUp(t)
             \/ NextBatch(t) \/ Download(t) \/ BatchFails(t) \/ Finish(t)
      PROVE  UNCHANGED <<owned, raced, victim, counted, doc>>
  <2>1. CASE Begin(t) \/ Scan(t) \/ ConnectFails(t) \/ Finish(t)
    BY <2>1 DEF Begin, Scan, ConnectFails, Finish, EndTick, tickVars, dataVars
  <2>2. CASE NextBatch(t) \/ LookUp(t)
    BY <2>2 DEF NextBatch, LookUp, EndTick, tickVars, dataVars
  <2>3. CASE Download(t) \/ BatchFails(t)
    BY <2>3 DEF Download, BatchFails, EndTick, dataVars
  <2> QED
    BY <1>2, <2>1, <2>2, <2>3
<1>3. ASSUME NEW c \in Connectors, NEW x \in Contents, Vanish(c, x)
      PROVE  UNCHANGED <<owned, raced, victim, counted, doc>>
  BY <1>3 DEF Vanish, tickVars, dataVars
<1>4. ASSUME NEW c \in Connectors,
             Dispatch(c) \/ Stop(c) \/ Delete(c) \/ TeardownTimesOut(c)
      PROVE  UNCHANGED <<owned, raced, victim, counted, doc>>
  BY <1>4 DEF Dispatch, Stop, Delete, TeardownTimesOut, TeardownEnds, tickVars,
              dataVars
<1>5. CASE UNCHANGED vars
  BY <1>1, <1>5 DEF vars, tickVars, dataVars
<1> QED
  BY <1>1, <1>2, <1>3, <1>4, <1>5, LaunchRows, JobRows, ShareRows,
     PollOverRows, DisownRows, CountRows, EraseRows, TeardownRows, RestartRows
     DEF Next, CoroutineStep, ThreadStep

LEMMA DataInit == Init => DataInv
<1> SUFFICES ASSUME Init PROVE DataInv
  OBVIOUS
<1>1. /\ \A p \in DOMAIN owned : owned[p] = None
      /\ \A t \in Ticks : ~counted[t] /\ found[t] = None /\ victim[t] = None
      /\ \A t \in Ticks : at[t] = "none"
  BY DEF Init
<1>2. RowsInv
  BY <1>1 DEF RowsInv, RowsFit, OwnedDocumentsExist, CountedAlone
<1>3. PastInv
  BY <1>1, DocParts DEF PastInv, BatchTaken, Referenced, Registered
<1> QED
  BY <1>2, <1>3 DEF DataInv

LEMMA DataStep ==
  SyncInv /\ OtherTypes /\ DataInv /\ [Next]_vars => DataInv'
  BY RowsStep, PastStep DEF DataInv

(* What a connector owns is there and whole, for any number of connectors
   that share contents: a cleanup erases a document after it has counted no
   row of its content; a tick registers a document once, when it has finished
   it and nothing refers to it yet; and no launch touches a document that
   anything refers to.  What is left out (raced) is a row that was inserted
   when the row it had been copied from was gone, as a cleanup between the
   two statements brings about, and a copy made of such a row alone. *)
THEOREM OwnedAreWhole == Spec => []OwnedDocumentsExist
<1>1. DataInv => OwnedDocumentsExist
  BY DEF DataInv, RowsInv
<1> QED
  BY <1>1, SyncInvInit, SyncInvStep, OtherTypesInit, OtherTypesStep, DataInit,
     DataStep, PTL DEF Spec
=============================================================================
