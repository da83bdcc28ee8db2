------------------------- MODULE CommandRoutingProofs -------------------------
(***************************************************************************)
(* Theorems about CommandRouting, for any calls, entries, streams, queue   *)
(* length and number of faults: types, and that Send implements RemoteCall.*)
(***************************************************************************)
EXTENDS CommandRouting, SequenceTheorems, TLAPS

CallPlaces == {"idle", "lookup", "enqueue", "await", "cancel", "sendcancel"}
                \cup Over
CallRecord == [pc : CallPlaces, ch : Entries \cup {None}]

(* The channel a call is about to send on is one it has looked up.         *)
ChannelKnown ==
  \A c \in Calls : call[c].pc \in {"enqueue", "sendcancel"} =>
                     call[c].ch \in Entries

(* The command of a call is neither in a channel of q nor on a connection  *)
(* of d.                                                                   *)
Nowhere(c, q, d) ==
  /\ \A e \in Entries : \A i \in 1..Len(q[e]) : q[e][i] # Run(c)
  /\ \A s \in Streams : \A i \in 1..Len(d[s]) : d[s][i] # Run(c)

(* No command is in two places.                                            *)
Once(q, d) ==
  \A c \in Calls :
    /\ \A e, f \in Entries : \A i \in 1..Len(q[e]), j \in 1..Len(q[f]) :
         q[e][i] = Run(c) /\ q[f][j] = Run(c) => e = f /\ i = j
    /\ \A s, t \in Streams : \A i \in 1..Len(d[s]), j \in 1..Len(d[t]) :
         d[s][i] = Run(c) /\ d[t][j] = Run(c) => s = t /\ i = j
    /\ \A e \in Entries, s \in Streams :
         \A i \in 1..Len(q[e]), j \in 1..Len(d[s]) :
           ~(q[e][i] = Run(c) /\ d[s][j] = Run(c))

Unsent(c) == call[c].pc \in {"idle", "lookup", "enqueue"}

(* A command that is on its way has not started; one that was not sent is  *)
(* nowhere.                                                                *)
StartInv ==
  /\ Once(queue, down)
  /\ \A c \in Calls :
       /\ Nowhere(c, queue, down) \/ exec[c] = "none"
       /\ Unsent(c) => Nowhere(c, queue, down) /\ exec[c] = "none"

(* A result on its way, or in the channel of its call, is the command's.   *)
ResultInv ==
  /\ \A c \in Calls : box[c] # "none" => box[c] = exec[c]
  /\ \A s \in Streams : \A c \in up[s] : exec[c] \in {"success", "failure"}

RoutingInv == ChannelKnown /\ StartInv /\ ResultInv

---------------------------------------------------------------------------
(* Messages and queues *)

LEMMA MessageFacts ==
  /\ \A c \in Calls : Run(c) \in Messages /\ Cancel(c) \in Messages
  /\ \A m \in Messages :
       /\ m.call \in Calls /\ m.kind \in {"run", "cancel"}
       /\ m.kind = "run" => m = Run(m.call)
       /\ m.kind = "cancel" => m = Cancel(m.call)
  /\ \A c, d \in Calls : Run(c) # Cancel(d) /\ (Run(c) = Run(d) => c = d)
<1>1. \A c \in Calls : Run(c) \in Messages /\ Cancel(c) \in Messages
  BY DEF Messages, Run, Cancel
<1>2. ASSUME NEW m \in Messages
      PROVE  /\ m.call \in Calls /\ m.kind \in {"run", "cancel"}
             /\ m.kind = "run" => m = Run(m.call)
             /\ m.kind = "cancel" => m = Cancel(m.call)
  BY DEF Messages, Run, Cancel
<1>3. ASSUME NEW c \in Calls, NEW d \in Calls
      PROVE  Run(c) # Cancel(d) /\ (Run(c) = Run(d) => c = d)
  <2>1. /\ Run(c).kind = "run" /\ Cancel(d).kind = "cancel"
        /\ Run(c).call = c /\ Run(d).call = d
    BY DEF Run, Cancel
  <2> QED
    BY <2>1
<1> QED
  BY <1>1, <1>2, <1>3

LEMMA SetsUpdated ==
  ASSUME NEW S, NEW T, NEW f \in [S -> SUBSET T], NEW x \in S,
         NEW X \in SUBSET T
  PROVE  [f EXCEPT ![x] = X] \in [S -> SUBSET T]
OBVIOUS

LEMMA EmptyQueue == <<>> \in Seq(Messages) /\ Len(<<>>) = 0
OBVIOUS

LEMMA TailOfQueue ==
  ASSUME NEW s \in Seq(Messages), s # <<>>
  PROVE  /\ Head(s) \in Messages /\ Head(s) = s[1] /\ 1 \in 1..Len(s)
         /\ Tail(s) \in Seq(Messages) /\ Len(Tail(s)) = Len(s) - 1
         /\ \A i \in 1..Len(Tail(s)) : Tail(s)[i] = s[i+1]
BY HeadTailProperties, EmptySeq, LenProperties

LEMMA AppendToQueue ==
  ASSUME NEW s \in Seq(Messages), NEW m \in Messages
  PROVE  /\ Append(s, m) \in Seq(Messages)
         /\ Len(Append(s, m)) = Len(s) + 1
         /\ Append(s, m)[Len(s) + 1] = m
         /\ \A i \in 1..Len(s) : Append(s, m)[i] = s[i]
BY AppendProperties

---------------------------------------------------------------------------
(* Types *)

LEMMA DetachTyped ==
  ASSUME TypeOK, Table!Detach(Worker)
  PROVE  /\ slot' \in [{Worker} -> Entries \cup {None}]
         /\ life' \in [Entries -> {"new", "attached", "evicted", "closed"}]
         /\ slot[Worker] \in Entries
BY DEF TypeOK, Table!Detach

LEMMA DisconnectTyped ==
  ASSUME TypeOK, Disconnect
  PROVE  /\ slot' \in [{Worker} -> Entries \cup {None}]
         /\ life' \in [Entries -> {"new", "attached", "evicted", "closed"}]
         /\ leaving' = leaving
BY DetachTyped DEF TypeOK, Disconnect, table

LEMMA GotoTyped ==
  ASSUME TypeOK, NEW c \in Calls, NEW pc \in CallPlaces, Goto(c, pc)
  PROVE  call' \in [Calls -> CallRecord]
<1>1. [Idle EXCEPT !.pc = pc] \in CallRecord
  BY DEF Idle, CallRecord
<1>2. call \in [Calls -> CallRecord]
  BY DEF TypeOK, CallRecord, CallPlaces
<1>3. [call[c] EXCEPT !.pc = pc] \in CallRecord
  BY <1>2 DEF CallRecord
<1> QED
  BY <1>1, <1>2, <1>3 DEF Goto

LEMMA PutTyped ==
  ASSUME TypeOK, NEW e \in Entries, NEW m \in Messages, Put(e, m)
  PROVE  /\ queue' \in [Entries -> Seq(Messages)]
         /\ \A f \in Entries : Len(queue'[f]) <= QueueCap
<1>1. queue[e] \in Seq(Messages) /\ Len(queue[e]) \in Nat
  BY LenProperties DEF TypeOK
<1>2. /\ Append(queue[e], m) \in Seq(Messages)
      /\ Len(Append(queue[e], m)) = Len(queue[e]) + 1
  BY <1>1, AppendToQueue
<1>3. Len(Append(queue[e], m)) <= QueueCap
  BY <1>1, <1>2, RoutingBounds DEF Put
<1> QED
  BY <1>2, <1>3 DEF Put, TypeOK

LEMMA TypeInit == Init => TypeOK
<1> SUFFICES ASSUME Init PROVE TypeOK
  OBVIOUS
<1>1. slot \in [{Worker} -> Entries \cup {None}]
  BY DEF Init, Table!Init
<1>2. life \in [Entries -> {"new", "attached", "evicted", "closed"}]
  BY DEF Init, Table!Init
<1>3. queue \in [Entries -> Seq(Messages)]
  BY EmptyQueue DEF Init
<1>4. down \in [Streams -> Seq(Messages)]
  BY EmptyQueue DEF Init
<1>5. \A e \in Entries : Len(queue[e]) <= QueueCap
  BY EmptyQueue, RoutingBounds DEF Init
<1>6. call \in [Calls -> CallRecord]
  BY DEF Init, Idle, CallPlaces, CallRecord
<1>7. stream \in [Streams -> [entry : Entries \cup {None}, open : BOOLEAN]]
  BY DEF Init, Unused
<1>8. /\ leaving \subseteq Entries
      /\ results \in [Entries -> SUBSET Calls]
      /\ box \in [Calls -> {"none", "success", "failure"}]
      /\ up \in [Streams -> SUBSET Calls]
      /\ exec \in [Calls -> {"none", "running", "success", "failure"}]
  BY DEF Init
<1>9. faults \in 0..MaxFaults
  BY RoutingBounds DEF Init
<1> QED
  BY <1>1, <1>2, <1>3, <1>4, <1>5, <1>6, <1>7, <1>8, <1>9
     DEF TypeOK, CallPlaces, CallRecord

(* The steps of a call, of the gateway and of the world around them.       *)
LEMMA CallTypeStep ==
  ASSUME TypeOK, ChannelKnown, NEW c \in Calls,
         CallBegins(c) \/ CallStep(c) \/ ContextEnds(c)
  PROVE  TypeOK' /\ ChannelKnown'
<1> USE RoutingNone
<1>g. ASSUME NEW pc \in CallPlaces \ {"enqueue", "sendcancel"}, Goto(c, pc)
      PROVE  /\ call' \in [Calls -> CallRecord]
             /\ ChannelKnown'
  <2>1. call' \in [Calls -> CallRecord]
    BY <1>g, GotoTyped
  <2>2. ChannelKnown'
    BY <1>g DEF Goto, TypeOK, ChannelKnown, Idle, Over, Returned
  <2> QED
    BY <2>1, <2>2
<1>l. ASSUME NEW pc \in {"enqueue", "sendcancel"},
             call' = IF slot[Worker] = None
                     THEN [call EXCEPT ![c] = [Idle EXCEPT !.pc = "error"]]
                     ELSE [call EXCEPT ![c].pc = pc, ![c].ch = slot[Worker]]
      PROVE  /\ call' \in [Calls -> CallRecord]
             /\ ChannelKnown'
  <2>1. slot[Worker] \in Entries \cup {None}
    BY DEF TypeOK
  <2>c. call \in [Calls -> CallRecord]
    BY DEF TypeOK, CallRecord, CallPlaces
  <2>2. CASE slot[Worker] = None
    <3>1. /\ [Idle EXCEPT !.pc = "error"] \in CallRecord
          /\ [Idle EXCEPT !.pc = "error"].pc = "error"
      BY DEF Idle, CallRecord, CallPlaces, Over, Returned
    <3> QED
      BY <1>l, <2>2, <2>c, <3>1 DEF ChannelKnown
  <2>3. CASE slot[Worker] \in Entries
    <3>1. call' = [call EXCEPT ![c] =
                     [call[c] EXCEPT !.pc = pc, !.ch = slot[Worker]]]
      BY <1>l, <2>3, <2>c DEF CallRecord
    <3>2. /\ [call[c] EXCEPT !.pc = pc, !.ch = slot[Worker]] \in CallRecord
          /\ [call[c] EXCEPT !.pc = pc, !.ch = slot[Worker]].ch \in Entries
      BY <2>3, <2>c DEF CallRecord, CallPlaces
    <3> QED
      BY <2>c, <3>1, <3>2 DEF ChannelKnown
  <2> QED
    BY <2>1, <2>2, <2>3
<1>1. CASE CallBegins(c)
  <2>1. ChannelKnown' /\ call' \in [Calls -> CallRecord]
    <3>1. {"error", "lookup"} \subseteq CallPlaces \ {"enqueue", "sendcancel"}
      BY DEF CallPlaces, Over, Returned
    <3> QED
      BY <1>1, <1>g, <3>1 DEF CallBegins
  <2>2. results' \in [Entries -> SUBSET Calls]
    <3>1. CASE slot[Worker] = None
      BY <1>1, <3>1 DEF CallBegins, TypeOK
    <3>2. CASE slot[Worker] # None
      <4>1. slot[Worker] \in Entries /\ results \in [Entries -> SUBSET Calls]
        BY <3>2 DEF TypeOK
      <4>2. results' = [results EXCEPT ![slot[Worker]] =
                          results[slot[Worker]] \cup {c}]
        BY <1>1, <3>2 DEF CallBegins
      <4>3. results[slot[Worker]] \cup {c} \in SUBSET Calls
        BY <4>1
      <4> QED
        BY <4>1, <4>2, <4>3, SetsUpdated
    <3> QED
      BY <3>1, <3>2
  <2> QED
    BY <1>1, <2>1, <2>2 DEF CallBegins, TypeOK, table, wires, CallPlaces, CallRecord
<1>2. CASE CallLooksUp(c)
  <2>1. ChannelKnown' /\ call' \in [Calls -> CallRecord]
    BY <1>2, <1>l DEF CallLooksUp
  <2> QED
    BY <1>2, <2>1 DEF CallLooksUp, TypeOK, table, wires, CallPlaces, CallRecord
<1>3. CASE CancelLooksUp(c)
  <2>1. ChannelKnown' /\ call' \in [Calls -> CallRecord]
    BY <1>3, <1>l DEF CancelLooksUp
  <2> QED
    BY <1>3, <2>1 DEF CancelLooksUp, TypeOK, table, wires, CallPlaces, CallRecord
<1>4. CASE CallEnqueues(c)
  <2>1. call[c].ch \in Entries /\ Run(c) \in Messages
    BY <1>4, MessageFacts DEF CallEnqueues, ChannelKnown
  <2>2. ChannelKnown' /\ call' \in [Calls -> CallRecord]
    BY <1>4, <1>g DEF CallEnqueues, CallPlaces, Over, Returned
  <2>3. /\ queue' \in [Entries -> Seq(Messages)]
        /\ \A f \in Entries : Len(queue'[f]) <= QueueCap
    <3>1. CASE Put(call[c].ch, Run(c))
      BY <3>1, <2>1, PutTyped
    <3>2. CASE queue' = queue
      BY <3>2 DEF TypeOK
    <3> QED
      BY <1>4, <3>1, <3>2 DEF CallEnqueues
  <2> QED
    BY <1>4, <2>2, <2>3 DEF CallEnqueues, TypeOK, table, wires, CallPlaces, CallRecord
<1>5. CASE CancelEnqueues(c)
  <2>1. call[c].ch \in Entries /\ Cancel(c) \in Messages
    BY <1>5, MessageFacts DEF CancelEnqueues, ChannelKnown
  <2>2. ChannelKnown' /\ call' \in [Calls -> CallRecord]
    BY <1>5, <1>g DEF CancelEnqueues, CallPlaces, Over, Returned
  <2>3. /\ queue' \in [Entries -> Seq(Messages)]
        /\ \A f \in Entries : Len(queue'[f]) <= QueueCap
    <3>1. CASE Put(call[c].ch, Cancel(c))
      BY <3>1, <2>1, PutTyped
    <3>2. CASE queue' = queue
      BY <3>2 DEF TypeOK
    <3> QED
      BY <1>5, <3>1, <3>2 DEF CancelEnqueues
  <2> QED
    BY <1>5, <2>2, <2>3 DEF CancelEnqueues, TypeOK, table, wires, CallPlaces, CallRecord
<1>6. CASE CallGetsResult(c)
  <2>1. box[c] \in CallPlaces \ {"enqueue", "sendcancel"}
    BY <1>6 DEF CallGetsResult, TypeOK, CallPlaces, Over, Returned
  <2>2. ChannelKnown' /\ call' \in [Calls -> CallRecord]
    BY <1>6, <2>1, <1>g DEF CallGetsResult
  <2> QED
    BY <1>6, <2>2 DEF CallGetsResult, TypeOK, table, wires, CallPlaces, CallRecord
<1>7. CASE CallTimesOut(c) \/ ContextEnds(c)
  <2>1. ChannelKnown' /\ call' \in [Calls -> CallRecord]
    BY <1>7, <1>g DEF CallTimesOut, ContextEnds, CallPlaces, Over, Returned
  <2> QED
    BY <1>7, <2>1
       DEF CallTimesOut, ContextEnds, TypeOK, table, wires, CallPlaces, CallRecord
<1> QED
  BY <1>1, <1>2, <1>3, <1>4, <1>5, <1>6, <1>7 DEF CallStep

LEMMA StreamTypeStep ==
  ASSUME TypeOK, ResultInv, NEW s \in Streams,
         Opens(s) \/ GatewayStep(s) \/ Breaks(s) \/ WorkerTakes(s)
  PROVE  TypeOK' /\ call' = call
<1> USE RoutingNone
<1>1. CASE Opens(s)
  <2>1. down' \in [Streams -> Seq(Messages)]
    BY <1>1, EmptyQueue DEF Opens, TypeOK
  <2>2. stream' \in [Streams -> [entry : Entries \cup {None}, open : BOOLEAN]]
    BY <1>1 DEF Opens, TypeOK
  <2>3. up' \in [Streams -> SUBSET Calls]
    BY <1>1 DEF Opens, TypeOK
  <2> QED
    BY <1>1, <2>1, <2>2, <2>3 DEF Opens, TypeOK, table
<1>2. CASE Forwards(s)
  <2> DEFINE e == stream[s].entry
  <2>1. e \in Entries /\ queue[e] \in Seq(Messages) /\ queue[e] # <<>>
    BY <1>2 DEF Forwards, Serving, TypeOK
  <2>2. /\ Tail(queue[e]) \in Seq(Messages) /\ Head(queue[e]) \in Messages
        /\ Len(Tail(queue[e])) = Len(queue[e]) - 1 /\ Len(queue[e]) \in Nat
    BY <2>1, TailOfQueue, LenProperties
  <2>3. queue' = [queue EXCEPT ![e] = Tail(queue[e])]
    BY <1>2 DEF Forwards
  <2>4. queue' \in [Entries -> Seq(Messages)]
    BY <2>2, <2>3 DEF TypeOK
  <2>5. \A f \in Entries : Len(queue'[f]) <= QueueCap
    BY <2>1, <2>2, <2>3, RoutingBounds DEF TypeOK
  <2>6. CASE stream[s].open
    <3>1. /\ down' = [down EXCEPT ![s] = Append(down[s], Head(queue[e]))]
          /\ UNCHANGED <<slot, life, leaving, stream>>
      BY <1>2, <2>6 DEF Forwards, table
    <3>2. Append(down[s], Head(queue[e])) \in Seq(Messages)
      BY <2>2, AppendToQueue DEF TypeOK
    <3>3. down' \in [Streams -> Seq(Messages)]
      BY <3>1, <3>2 DEF TypeOK
    <3> QED
      BY <1>2, <2>4, <2>5, <3>1, <3>3 DEF Forwards, TypeOK
  <2>7. CASE ~stream[s].open
    <3>1. /\ Disconnect /\ stream' = [stream EXCEPT ![s] = Unused]
          /\ down' = down
      BY <1>2, <2>7 DEF Forwards
    <3>2. stream' \in [Streams -> [entry : Entries \cup {None}, open : BOOLEAN]]
      BY <3>1 DEF TypeOK, Unused
    <3> QED
      BY <1>2, <2>4, <2>5, <3>1, <3>2, DisconnectTyped DEF Forwards, TypeOK
  <2> QED
    BY <2>6, <2>7
<1>3. CASE StreamEnds(s)
  <2>1. stream' \in [Streams -> [entry : Entries \cup {None}, open : BOOLEAN]]
    BY <1>3 DEF StreamEnds, TypeOK, Unused
  <2> QED
    BY <1>3, <2>1, DisconnectTyped DEF StreamEnds, TypeOK, wires
<1>4. CASE ChannelClosed(s)
  <2>1. stream' \in [Streams -> [entry : Entries \cup {None}, open : BOOLEAN]]
    BY <1>4 DEF ChannelClosed, TypeOK, Unused
  <2> QED
    BY <1>4, <2>1 DEF ChannelClosed, TypeOK, wires, table
<1>5. ASSUME NEW c \in Calls, Delivers(s, c)
      PROVE  TypeOK' /\ call' = call
  <2>1. up' \in [Streams -> SUBSET Calls]
    BY <1>5 DEF Delivers, TypeOK
  <2>2. exec[c] \in {"success", "failure"}
    BY <1>5 DEF Delivers, ResultInv
  <2>3. results' \in [Entries -> SUBSET Calls]
    <3>1. CASE slot[Worker] # None /\ c \in results[slot[Worker]]
      <4>1. slot[Worker] \in Entries /\ results \in [Entries -> SUBSET Calls]
        BY <3>1 DEF TypeOK
      <4>2. results' = [results EXCEPT ![slot[Worker]] =
                          results[slot[Worker]] \ {c}]
        BY <1>5, <3>1 DEF Delivers
      <4>3. results[slot[Worker]] \ {c} \in SUBSET Calls
        BY <4>1
      <4> QED
        BY <4>1, <4>2, <4>3, SetsUpdated
    <3>2. CASE ~(slot[Worker] # None /\ c \in results[slot[Worker]])
      BY <1>5, <3>2 DEF Delivers, TypeOK
    <3> QED
      BY <3>1, <3>2
  <2>4. box' \in [Calls -> {"none", "success", "failure"}]
    BY <1>5, <2>2 DEF Delivers, TypeOK
  <2> QED
    BY <1>5, <2>1, <2>3, <2>4 DEF Delivers, TypeOK, table
<1>6. CASE Breaks(s)
  <2>1. down' \in [Streams -> Seq(Messages)]
    BY <1>6, EmptyQueue DEF Breaks, TypeOK
  <2>2. stream' \in [Streams -> [entry : Entries \cup {None}, open : BOOLEAN]]
    BY <1>6 DEF Breaks, TypeOK
  <2>3. up' \in [Streams -> SUBSET Calls] /\ faults' \in 0..MaxFaults
    BY <1>6, RoutingBounds DEF Breaks, TypeOK
  <2> QED
    BY <1>6, <2>1, <2>2, <2>3 DEF Breaks, TypeOK, table
<1>7. CASE WorkerTakes(s)
  <2>1. /\ Head(down[s]) \in Messages /\ Tail(down[s]) \in Seq(Messages)
    BY <1>7, TailOfQueue DEF WorkerTakes, TypeOK
  <2>2. down' \in [Streams -> Seq(Messages)]
    BY <1>7, <2>1 DEF WorkerTakes, TypeOK
  <2>3. Head(down[s]).call \in Calls
    BY <2>1, MessageFacts
  <2>4. exec' \in [Calls -> {"none", "running", "success", "failure"}]
    <3>1. \/ exec' = exec
          \/ \E x \in {"running", "failure"} :
               exec' = [exec EXCEPT ![Head(down[s]).call] = x]
      BY <1>7 DEF WorkerTakes
    <3> QED
      BY <3>1 DEF TypeOK
  <2>5. up' \in [Streams -> SUBSET Calls]
    <3>1. CASE up' = up
      BY <3>1 DEF TypeOK
    <3>2. CASE up' = [up EXCEPT ![s] = up[s] \cup {Head(down[s]).call}]
      <4>1. up[s] \cup {Head(down[s]).call} \in SUBSET Calls
        BY <2>3 DEF TypeOK
      <4> QED
        BY <3>2, <4>1, SetsUpdated DEF TypeOK
    <3> QED
      BY <1>7, <3>1, <3>2 DEF WorkerTakes
  <2> QED
    BY <1>7, <2>2, <2>4, <2>5 DEF WorkerTakes, TypeOK, table
<1> QED
  BY <1>1, <1>2, <1>3, <1>4, <1>5, <1>6, <1>7 DEF GatewayStep

LEMMA WorldTypeStep ==
  ASSUME TypeOK,
         \/ \E c \in Calls : WorkerFinishes(c)
         \/ Evicted \/ Deregistered
         \/ \E e \in Entries : Attached(e) \/ Closed(e)
  PROVE  TypeOK' /\ call' = call
<1>1. ASSUME NEW c \in Calls, WorkerFinishes(c)
      PROVE  TypeOK' /\ call' = call
  <2>1. up' \in [Streams -> SUBSET Calls]
    BY <1>1 DEF WorkerFinishes, TypeOK
  <2>2. exec' \in [Calls -> {"none", "running", "success", "failure"}]
    BY <1>1 DEF WorkerFinishes, TypeOK
  <2> QED
    BY <1>1, <2>1, <2>2 DEF WorkerFinishes, TypeOK, table
<1>2. CASE Evicted
  BY <1>2, DetachTyped, RoutingBounds DEF Evicted, TypeOK, wires
<1>3. CASE Deregistered
  BY <1>3, DetachTyped, RoutingBounds DEF Deregistered, TypeOK, wires
<1>4. ASSUME NEW e \in Entries, Attached(e)
      PROVE  TypeOK' /\ call' = call
  BY <1>4 DEF Attached, Table!Attach, TypeOK, wires
<1>5. ASSUME NEW e \in Entries, Closed(e)
      PROVE  TypeOK' /\ call' = call
  BY <1>5 DEF Closed, Table!Close, TypeOK, wires
<1> QED
  BY <1>1, <1>2, <1>3, <1>4, <1>5

LEMMA TypeStep ==
  ASSUME TypeOK, ChannelKnown, ResultInv, [Next]_vars
  PROVE  TypeOK' /\ ChannelKnown'
<1>1. ASSUME NEW c \in Calls, CallBegins(c) \/ CallStep(c) \/ ContextEnds(c)
      PROVE  TypeOK' /\ ChannelKnown'
  BY <1>1, CallTypeStep
<1>2. ASSUME NEW s \in Streams,
             Opens(s) \/ GatewayStep(s) \/ Breaks(s) \/ WorkerTakes(s)
      PROVE  TypeOK' /\ ChannelKnown'
  <2>1. TypeOK' /\ call' = call
    BY <1>2, StreamTypeStep
  <2> QED
    BY <2>1 DEF ChannelKnown
<1>3. CASE \/ \E c \in Calls : WorkerFinishes(c)
           \/ Evicted \/ Deregistered
           \/ \E e \in Entries : Attached(e) \/ Closed(e)
  <2>1. TypeOK' /\ call' = call
    BY <1>3, WorldTypeStep
  <2> QED
    BY <2>1 DEF ChannelKnown
<1>4. CASE UNCHANGED vars
  BY <1>4 DEF vars, table, wires, TypeOK, ChannelKnown
<1> QED
  BY <1>1, <1>2, <1>3, <1>4 DEF Next

---------------------------------------------------------------------------
(* Where a command is.  Q and D are the values channels and connections    *)
(* may have.                                                               *)

Q == [Entries -> Seq(Messages)]
D == [Streams -> Seq(Messages)]

(* What is left of a queue whose first k messages were taken, or all.      *)
Rest(a, b, k) ==
  /\ k + Len(b) <= Len(a)
  /\ \A i \in 1..Len(b) : b[i] = a[i + k]

LEMMA LengthIsNatural ==
  /\ \A q \in Q, e \in Entries : Len(q[e]) \in Nat
  /\ \A d \in D, s \in Streams : Len(d[s]) \in Nat
BY LenProperties DEF Q, D

LEMMA RestKeeps ==
  ASSUME NEW q \in Q, NEW d \in D, NEW q1 \in Q, NEW d1 \in D,
         \A e \in Entries : \E k \in Nat : Rest(q[e], q1[e], k),
         \A s \in Streams : \E k \in Nat : Rest(d[s], d1[s], k)
  PROVE  /\ Once(q, d) => Once(q1, d1)
         /\ \A c \in Calls : Nowhere(c, q, d) => Nowhere(c, q1, d1)
<1>1. PICK kq \in [Entries -> Nat] :
        \A e \in Entries : Rest(q[e], q1[e], kq[e])
  <2>1. [e \in Entries |-> CHOOSE k \in Nat : Rest(q[e], q1[e], k)]
          \in [Entries -> Nat]
    OBVIOUS
  <2>2. \A e \in Entries :
          Rest(q[e], q1[e], CHOOSE k \in Nat : Rest(q[e], q1[e], k))
    OBVIOUS
  <2> QED
    BY <2>1, <2>2
<1>2. PICK kd \in [Streams -> Nat] :
        \A s \in Streams : Rest(d[s], d1[s], kd[s])
  <2>1. [s \in Streams |-> CHOOSE k \in Nat : Rest(d[s], d1[s], k)]
          \in [Streams -> Nat]
    OBVIOUS
  <2>2. \A s \in Streams :
          Rest(d[s], d1[s], CHOOSE k \in Nat : Rest(d[s], d1[s], k))
    OBVIOUS
  <2> QED
    BY <2>1, <2>2
<1>3. \A e \in Entries : \A i \in 1..Len(q1[e]) :
        i + kq[e] \in 1..Len(q[e]) /\ q1[e][i] = q[e][i + kq[e]]
  BY <1>1, LengthIsNatural DEF Rest
<1>4. \A s \in Streams : \A i \in 1..Len(d1[s]) :
        i + kd[s] \in 1..Len(d[s]) /\ d1[s][i] = d[s][i + kd[s]]
  BY <1>2, LengthIsNatural DEF Rest
<1>5. ASSUME Once(q, d)
      PROVE  Once(q1, d1)
  <2> SUFFICES ASSUME NEW c \in Calls
               PROVE
                 /\ \A e, f \in Entries :
                      \A i \in 1..Len(q1[e]), j \in 1..Len(q1[f]) :
                        q1[e][i] = Run(c) /\ q1[f][j] = Run(c) => e = f /\ i = j
                 /\ \A s, t \in Streams :
                      \A i \in 1..Len(d1[s]), j \in 1..Len(d1[t]) :
                        d1[s][i] = Run(c) /\ d1[t][j] = Run(c) => s = t /\ i = j
                 /\ \A e \in Entries, s \in Streams :
                      \A i \in 1..Len(q1[e]), j \in 1..Len(d1[s]) :
                        ~(q1[e][i] = Run(c) /\ d1[s][j] = Run(c))
    BY DEF Once
  <2>1. ASSUME NEW e \in Entries, NEW f \in Entries, NEW i \in 1..Len(q1[e]),
               NEW j \in 1..Len(q1[f]), q1[e][i] = Run(c), q1[f][j] = Run(c)
        PROVE  e = f /\ i = j
    <3>1. PICK k \in 1..Len(q[e]) : k = i + kq[e] /\ q[e][k] = Run(c)
      BY <1>3, <2>1
    <3>2. PICK l \in 1..Len(q[f]) : l = j + kq[f] /\ q[f][l] = Run(c)
      BY <1>3, <2>1
    <3>3. e = f /\ k = l
      BY <1>5, <3>1, <3>2 DEF Once
    <3> QED
      BY <1>1, <3>1, <3>2, <3>3
  <2>2. ASSUME NEW s \in Streams, NEW t \in Streams, NEW i \in 1..Len(d1[s]),
               NEW j \in 1..Len(d1[t]), d1[s][i] = Run(c), d1[t][j] = Run(c)
        PROVE  s = t /\ i = j
    <3>1. PICK k \in 1..Len(d[s]) : k = i + kd[s] /\ d[s][k] = Run(c)
      BY <1>4, <2>2
    <3>2. PICK l \in 1..Len(d[t]) : l = j + kd[t] /\ d[t][l] = Run(c)
      BY <1>4, <2>2
    <3>3. s = t /\ k = l
      BY <1>5, <3>1, <3>2 DEF Once
    <3> QED
      BY <1>2, <3>1, <3>2, <3>3
  <2>3. ASSUME NEW e \in Entries, NEW s \in Streams, NEW i \in 1..Len(q1[e]),
               NEW j \in 1..Len(d1[s])
        PROVE  ~(q1[e][i] = Run(c) /\ d1[s][j] = Run(c))
    <3>1. PICK k \in 1..Len(q[e]) : q1[e][i] = q[e][k]
      BY <1>3
    <3>2. PICK l \in 1..Len(d[s]) : d1[s][j] = d[s][l]
      BY <1>4
    <3> QED
      BY <1>5, <3>1, <3>2 DEF Once
  <2> QED
    BY <2>1, <2>2, <2>3
<1>6. ASSUME NEW c \in Calls, Nowhere(c, q, d)
      PROVE  Nowhere(c, q1, d1)
  <2>1. ASSUME NEW e \in Entries, NEW i \in 1..Len(q1[e])
        PROVE  q1[e][i] # Run(c)
    <3>1. PICK k \in 1..Len(q[e]) : q1[e][i] = q[e][k]
      BY <1>3
    <3> QED
      BY <1>6, <3>1 DEF Nowhere
  <2>2. ASSUME NEW s \in Streams, NEW i \in 1..Len(d1[s])
        PROVE  d1[s][i] # Run(c)
    <3>1. PICK k \in 1..Len(d[s]) : d1[s][i] = d[s][k]
      BY <1>4
    <3> QED
      BY <1>6, <3>1 DEF Nowhere
  <2> QED
    BY <2>1, <2>2 DEF Nowhere
<1> QED
  BY <1>5, <1>6

LEMMA AllRest ==
  ASSUME NEW a \in Seq(Messages)
  PROVE  Rest(a, a, 0) /\ Rest(a, <<>>, 0)
<1>1. Len(a) \in Nat /\ Len(<<>>) = 0
  BY LenProperties
<1> QED
  BY <1>1 DEF Rest

LEMMA TailRest ==
  ASSUME NEW a \in Seq(Messages), a # <<>>
  PROVE  Rest(a, Tail(a), 1)
<1>1. Len(a) \in Nat
  BY LenProperties
<1> QED
  BY <1>1, TailOfQueue DEF Rest

(* Taking a command off a queue leaves it nowhere.                         *)
LEMMA TakenFromQueue ==
  ASSUME NEW q \in Q, NEW d \in D, Once(q, d), NEW e \in Entries,
         q[e] # <<>>, NEW q1 \in Q, q1[e] = Tail(q[e]),
         \A f \in Entries : f # e => q1[f] = q[f]
  PROVE  /\ Once(q1, d)
         /\ \A c \in Calls : Nowhere(c, q, d) => Nowhere(c, q1, d)
         /\ \A c \in Calls : Head(q[e]) = Run(c) => Nowhere(c, q1, d)
<1>1. /\ q[e] \in Seq(Messages) /\ Tail(q[e]) \in Seq(Messages)
      /\ Head(q[e]) = q[e][1] /\ 1 \in 1..Len(q[e])
      /\ Len(Tail(q[e])) = Len(q[e]) - 1
      /\ \A i \in 1..Len(Tail(q[e])) : Tail(q[e])[i] = q[e][i + 1]
  BY TailOfQueue DEF Q
<1>2. /\ q1[e] = Tail(q[e])
      /\ \A f \in Entries : f # e => q1[f] = q[f]
  OBVIOUS
<1>3. \A f \in Entries : \E k \in Nat : Rest(q[f], q1[f], k)
  BY <1>2, TailRest, AllRest DEF Q
<1>4. \A s \in Streams : \E k \in Nat : Rest(d[s], d[s], k)
  BY AllRest DEF D
<1>5. /\ Once(q1, d)
      /\ \A c \in Calls : Nowhere(c, q, d) => Nowhere(c, q1, d)
  BY <1>2, <1>3, <1>4, RestKeeps
<1>6. ASSUME NEW c \in Calls, Head(q[e]) = Run(c)
      PROVE  Nowhere(c, q1, d)
  <2>1. ASSUME NEW f \in Entries, NEW i \in 1..Len(q1[f])
        PROVE  q1[f][i] # Run(c)
    <3>1. CASE f = e
      <4>1. i + 1 \in 1..Len(q[e]) /\ i + 1 # 1 /\ q1[f][i] = q[e][i + 1]
        <5>1. q1[f] = Tail(q[e]) /\ i \in 1..Len(Tail(q[e]))
          BY <1>2, <3>1
        <5>2. Len(q[e]) \in Nat
          BY LengthIsNatural
        <5>3. q1[f][i] = q[e][i + 1]
          BY <1>1, <5>1
        <5>4. i \in Nat /\ 1 <= i /\ i <= Len(q[e]) - 1
          BY <1>1, <5>1, <5>2
        <5> QED
          BY <5>2, <5>3, <5>4
      <4>2. PICK k \in 1..Len(q[e]) : k # 1 /\ q1[f][i] = q[e][k]
        BY <4>1
      <4>3. q[e][1] = Run(c) /\ 1 \in 1..Len(q[e])
        BY <1>1, <1>6
      <4>4. ASSUME q[e][k] = Run(c) PROVE FALSE
        <5>1. 1 = k
          BY <4>2, <4>3, <4>4 DEF Once
        <5> QED
          BY <4>2, <5>1
      <4> QED
        BY <4>2, <4>4
    <3>2. CASE f # e
      BY <1>1, <1>2, <1>6, <3>2 DEF Once
    <3> QED
      BY <3>1, <3>2
  <2>2. \A s \in Streams : \A i \in 1..Len(d[s]) : d[s][i] # Run(c)
    BY <1>1, <1>6 DEF Once
  <2> QED
    BY <2>1, <2>2 DEF Nowhere
<1> QED
  BY <1>2, <1>5, <1>6

LEMMA TakenFromWire ==
  ASSUME NEW q \in Q, NEW d \in D, Once(q, d), NEW s \in Streams,
         d[s] # <<>>, NEW d1 \in D, d1[s] = Tail(d[s]),
         \A t \in Streams : t # s => d1[t] = d[t]
  PROVE  /\ Once(q, d1)
         /\ \A c \in Calls : Nowhere(c, q, d) => Nowhere(c, q, d1)
         /\ \A c \in Calls : Head(d[s]) = Run(c) => Nowhere(c, q, d1)
<1>1. /\ d[s] \in Seq(Messages) /\ Tail(d[s]) \in Seq(Messages)
      /\ Head(d[s]) = d[s][1] /\ 1 \in 1..Len(d[s])
      /\ Len(Tail(d[s])) = Len(d[s]) - 1
      /\ \A i \in 1..Len(Tail(d[s])) : Tail(d[s])[i] = d[s][i + 1]
  BY TailOfQueue DEF D
<1>2. /\ d1[s] = Tail(d[s])
      /\ \A t \in Streams : t # s => d1[t] = d[t]
  OBVIOUS
<1>3. \A t \in Streams : \E k \in Nat : Rest(d[t], d1[t], k)
  BY <1>2, TailRest, AllRest DEF D
<1>4. \A e \in Entries : \E k \in Nat : Rest(q[e], q[e], k)
  BY AllRest DEF Q
<1>5. /\ Once(q, d1)
      /\ \A c \in Calls : Nowhere(c, q, d) => Nowhere(c, q, d1)
  BY <1>2, <1>3, <1>4, RestKeeps
<1>6. ASSUME NEW c \in Calls, Head(d[s]) = Run(c)
      PROVE  Nowhere(c, q, d1)
  <2>1. ASSUME NEW t \in Streams, NEW i \in 1..Len(d1[t])
        PROVE  d1[t][i] # Run(c)
    <3>1. CASE t = s
      <4>1. i + 1 \in 1..Len(d[s]) /\ i + 1 # 1 /\ d1[t][i] = d[s][i + 1]
        <5>1. d1[t] = Tail(d[s]) /\ i \in 1..Len(Tail(d[s]))
          BY <1>2, <3>1
        <5>2. Len(d[s]) \in Nat
          BY LengthIsNatural
        <5>3. d1[t][i] = d[s][i + 1]
          BY <1>1, <5>1
        <5>4. i \in Nat /\ 1 <= i /\ i <= Len(d[s]) - 1
          BY <1>1, <5>1, <5>2
        <5> QED
          BY <5>2, <5>3, <5>4
      <4>2. PICK k \in 1..Len(d[s]) : k # 1 /\ d1[t][i] = d[s][k]
        BY <4>1
      <4>3. d[s][1] = Run(c) /\ 1 \in 1..Len(d[s])
        BY <1>1, <1>6
      <4>4. ASSUME d[s][k] = Run(c) PROVE FALSE
        <5>1. 1 = k
          BY <4>2, <4>3, <4>4 DEF Once
        <5> QED
          BY <4>2, <5>1
      <4> QED
        BY <4>2, <4>4
    <3>2. CASE t # s
      BY <1>1, <1>2, <1>6, <3>2 DEF Once
    <3> QED
      BY <3>1, <3>2
  <2>2. \A e \in Entries : \A i \in 1..Len(q[e]) : q[e][i] # Run(c)
    BY <1>1, <1>6 DEF Once
  <2> QED
    BY <2>1, <2>2 DEF Nowhere
<1> QED
  BY <1>2, <1>5, <1>6

(* Adding a command that is nowhere leaves it in one place.                *)
LEMMA AddedToQueue ==
  ASSUME NEW q \in Q, NEW d \in D, Once(q, d), NEW e \in Entries,
         NEW m \in Messages, \A c \in Calls : m = Run(c) => Nowhere(c, q, d),
         NEW q1 \in Q, q1[e] = Append(q[e], m),
         \A f \in Entries : f # e => q1[f] = q[f]
  PROVE  /\ Once(q1, d)
         /\ \A c \in Calls :
              m # Run(c) /\ Nowhere(c, q, d) => Nowhere(c, q1, d)
<1>1. /\ q[e] \in Seq(Messages) /\ Append(q[e], m) \in Seq(Messages)
      /\ Len(Append(q[e], m)) = Len(q[e]) + 1 /\ Len(q[e]) \in Nat
      /\ Append(q[e], m)[Len(q[e]) + 1] = m
      /\ \A i \in 1..Len(q[e]) : Append(q[e], m)[i] = q[e][i]
  BY AppendToQueue, LenProperties DEF Q
<1>2. /\ q1[e] = Append(q[e], m)
      /\ \A f \in Entries : f # e => q1[f] = q[f]
  BY DEF Q
<1>3. \A f \in Entries : \A i \in 1..Len(q1[f]) :
        \/ i \in 1..Len(q[f]) /\ q1[f][i] = q[f][i]
        \/ f = e /\ i = Len(q[e]) + 1 /\ q1[f][i] = m
  BY <1>1, <1>2
<1>4. ASSUME NEW c \in Calls, m # Run(c), Nowhere(c, q, d)
      PROVE  Nowhere(c, q1, d)
  BY <1>3, <1>4 DEF Nowhere
<1>5. ASSUME NEW c \in Calls
      PROVE  /\ \A g, f \in Entries :
                  \A i \in 1..Len(q1[g]), j \in 1..Len(q1[f]) :
                    q1[g][i] = Run(c) /\ q1[f][j] = Run(c) => g = f /\ i = j
             /\ \A f \in Entries, s \in Streams :
                  \A i \in 1..Len(q1[f]), j \in 1..Len(d[s]) :
                    ~(q1[f][i] = Run(c) /\ d[s][j] = Run(c))
  <2>1. CASE m = Run(c)
    <3>1. Nowhere(c, q, d)
      BY <2>1
    <3>2. \A f \in Entries : \A i \in 1..Len(q1[f]) :
            q1[f][i] = Run(c) => f = e /\ i = Len(q[e]) + 1
      BY <1>3, <3>1 DEF Nowhere
    <3>3. \A t \in Streams : \A j \in 1..Len(d[t]) : d[t][j] # Run(c)
      BY <3>1 DEF Nowhere
    <3> QED
      BY <3>2, <3>3
  <2>2. CASE m # Run(c)
    <3>1. \A f \in Entries : \A i \in 1..Len(q1[f]) :
            q1[f][i] = Run(c) => i \in 1..Len(q[f]) /\ q[f][i] = Run(c)
      BY <1>3, <2>2
    <3> QED
      BY <3>1 DEF Once
  <2> QED
    BY <2>1, <2>2
<1>6. Once(q1, d)
  BY <1>5 DEF Once
<1> QED
  BY <1>4, <1>6

LEMMA AddedToWire ==
  ASSUME NEW q \in Q, NEW d \in D, Once(q, d), NEW s \in Streams,
         NEW m \in Messages, \A c \in Calls : m = Run(c) => Nowhere(c, q, d),
         NEW d1 \in D, d1[s] = Append(d[s], m),
         \A t \in Streams : t # s => d1[t] = d[t]
  PROVE  /\ Once(q, d1)
         /\ \A c \in Calls :
              m # Run(c) /\ Nowhere(c, q, d) => Nowhere(c, q, d1)
<1>1. /\ d[s] \in Seq(Messages) /\ Append(d[s], m) \in Seq(Messages)
      /\ Len(Append(d[s], m)) = Len(d[s]) + 1 /\ Len(d[s]) \in Nat
      /\ Append(d[s], m)[Len(d[s]) + 1] = m
      /\ \A i \in 1..Len(d[s]) : Append(d[s], m)[i] = d[s][i]
  BY AppendToQueue, LenProperties DEF D
<1>2. /\ d1[s] = Append(d[s], m)
      /\ \A t \in Streams : t # s => d1[t] = d[t]
  BY DEF D
<1>3. \A t \in Streams : \A i \in 1..Len(d1[t]) :
        \/ i \in 1..Len(d[t]) /\ d1[t][i] = d[t][i]
        \/ t = s /\ i = Len(d[s]) + 1 /\ d1[t][i] = m
  BY <1>1, <1>2
<1>4. ASSUME NEW c \in Calls, m # Run(c), Nowhere(c, q, d)
      PROVE  Nowhere(c, q, d1)
  BY <1>3, <1>4 DEF Nowhere
<1>5. ASSUME NEW c \in Calls
      PROVE  /\ \A t, u \in Streams :
                  \A i \in 1..Len(d1[t]), j \in 1..Len(d1[u]) :
                    d1[t][i] = Run(c) /\ d1[u][j] = Run(c) => t = u /\ i = j
             /\ \A e \in Entries, t \in Streams :
                  \A i \in 1..Len(q[e]), j \in 1..Len(d1[t]) :
                    ~(q[e][i] = Run(c) /\ d1[t][j] = Run(c))
  <2>1. CASE m = Run(c)
    <3>1. Nowhere(c, q, d)
      BY <2>1
    <3>2. \A t \in Streams : \A i \in 1..Len(d1[t]) :
            d1[t][i] = Run(c) => t = s /\ i = Len(d[s]) + 1
      BY <1>3, <3>1 DEF Nowhere
    <3>3. \A e \in Entries : \A i \in 1..Len(q[e]) : q[e][i] # Run(c)
      BY <3>1 DEF Nowhere
    <3> QED
      BY <3>2, <3>3
  <2>2. CASE m # Run(c)
    <3>1. \A t \in Streams : \A i \in 1..Len(d1[t]) :
            d1[t][i] = Run(c) => i \in 1..Len(d[t]) /\ d[t][i] = Run(c)
      BY <1>3, <2>2
    <3> QED
      BY <3>1 DEF Once
  <2> QED
    BY <2>1, <2>2
<1>6. Once(q, d1)
  BY <1>5 DEF Once
<1> QED
  BY <1>4, <1>6

---------------------------------------------------------------------------
(* What steps do to calls and executions *)

(* A call that has not returned goes on, fails, or returns its result.     *)
LEMMA CallMoves ==
  ASSUME TypeOK, ResultInv, NEW c \in Calls,
         CallBegins(c) \/ CallStep(c) \/ ContextEnds(c)
  PROVE  /\ UNCHANGED <<down, exec, up, box>>
         /\ \A d \in Calls : d # c => call'[d] = call[d]
         /\ call[c].pc \notin Over
         /\ \/ call'[c].pc \notin Over
            \/ call'[c].pc \in {"error", "panic"}
            \/ call'[c].pc = exec[c] /\ exec[c] \in {"success", "failure"}
         /\ Unsent(c)' => Unsent(c)
<1>c. call[c].pc \in CallPlaces /\ call \in [Calls -> CallRecord]
  BY DEF TypeOK, CallRecord, CallPlaces
<1>g. ASSUME NEW pc \in CallPlaces, Goto(c, pc)
      PROVE  call'[c].pc = pc /\ \A d \in Calls : d # c => call'[d] = call[d]
  BY <1>g, <1>c DEF Goto, Idle, CallRecord
<1>l. ASSUME NEW pc \in {"enqueue", "sendcancel"},
             call' = IF slot[Worker] = None
                     THEN [call EXCEPT ![c] = [Idle EXCEPT !.pc = "error"]]
                     ELSE [call EXCEPT ![c].pc = pc, ![c].ch = slot[Worker]]
      PROVE  /\ call'[c].pc \in {pc, "error"}
             /\ \A d \in Calls : d # c => call'[d] = call[d]
  <2>1. CASE slot[Worker] = None
    BY <1>l, <2>1, <1>c DEF Idle
  <2>2. CASE slot[Worker] # None
    BY <1>l, <2>2, <1>c DEF CallRecord
  <2> QED
    BY <2>1, <2>2
<1>p. {"lookup", "error", "await", "panic", "cancel", "success", "failure"}
        \subseteq CallPlaces
  BY DEF CallPlaces, Over, Returned
<1>1. CASE CallBegins(c)
  <2>1. /\ call'[c].pc \in {"lookup", "error"} /\ call[c].pc = "idle"
        /\ \A d \in Calls : d # c => call'[d] = call[d]
        /\ UNCHANGED <<down, exec, up, box>>
    BY <1>1, <1>g, <1>p DEF CallBegins, wires
  <2> QED
    BY <2>1 DEF Over, Returned, Unsent
<1>2. CASE CallLooksUp(c)
  <2>1. /\ call'[c].pc \in {"enqueue", "error"} /\ call[c].pc = "lookup"
        /\ \A d \in Calls : d # c => call'[d] = call[d]
        /\ UNCHANGED <<down, exec, up, box>>
    BY <1>2, <1>l DEF CallLooksUp, wires
  <2> QED
    BY <2>1 DEF Over, Returned, Unsent
<1>3. CASE CancelLooksUp(c)
  <2>1. /\ call'[c].pc \in {"sendcancel", "error"} /\ call[c].pc = "cancel"
        /\ \A d \in Calls : d # c => call'[d] = call[d]
        /\ UNCHANGED <<down, exec, up, box>>
    BY <1>3, <1>l DEF CancelLooksUp, wires
  <2> QED
    BY <2>1 DEF Over, Returned, Unsent
<1>4. CASE CallEnqueues(c) \/ CancelEnqueues(c) \/ ContextEnds(c)
             \/ CallTimesOut(c)
  <2>1. /\ call'[c].pc \in {"await", "panic", "error", "cancel"}
        /\ call[c].pc \in {"enqueue", "sendcancel", "await"}
        /\ \A d \in Calls : d # c => call'[d] = call[d]
    BY <1>4, <1>g, <1>p
       DEF CallEnqueues, CancelEnqueues, ContextEnds, CallTimesOut
  <2>2. UNCHANGED <<down, exec, up, box>>
    BY <1>4 DEF CallEnqueues, CancelEnqueues, ContextEnds, CallTimesOut, wires
  <2> QED
    BY <2>1, <2>2 DEF Over, Returned, Unsent
<1>5. CASE CallGetsResult(c)
  <2>1. box[c] = exec[c] /\ box[c] \in {"success", "failure"}
    BY <1>5 DEF CallGetsResult, ResultInv, TypeOK
  <2>2. /\ call'[c].pc = box[c] /\ call[c].pc = "await"
        /\ \A d \in Calls : d # c => call'[d] = call[d]
        /\ UNCHANGED <<down, exec, up, box>>
    BY <1>5, <2>1, <1>g, <1>p DEF CallGetsResult, wires
  <2> QED
    BY <2>1, <2>2 DEF Over, Returned, Unsent
<1> QED
  BY <1>1, <1>2, <1>3, <1>4, <1>5 DEF CallStep

(* The worker starts a command that has not run, or ends one that runs.    *)
LEMMA WorkerMoves ==
  ASSUME TypeOK, StartInv, NEW s \in Streams, WorkerTakes(s)
  PROVE  /\ down[s] # <<>> /\ down' = [down EXCEPT ![s] = Tail(down[s])]
         /\ UNCHANGED <<queue, call, box>>
         /\ \/ UNCHANGED <<exec, up>>
            \/ \E c \in Calls :
                 /\ Head(down[s]) = Run(c) /\ exec[c] = "none" /\ up' = up
                 /\ exec' = [exec EXCEPT ![c] = "running"]
            \/ \E c \in Calls :
                 /\ exec[c] = "running"
                 /\ exec' = [exec EXCEPT ![c] = "failure"]
                 /\ up' = [up EXCEPT ![s] = up[s] \cup {c}]
<1>1. down[s] # <<>> /\ down[s] \in Seq(Messages)
  BY DEF WorkerTakes, TypeOK
<1>2. Head(down[s]) \in Messages /\ Head(down[s]) = down[s][1]
      /\ 1 \in 1..Len(down[s])
  BY <1>1, TailOfQueue
<1>3. PICK m \in Messages : m = Head(down[s])
  BY <1>2
<1>4. m.call \in Calls /\ (m.kind = "run" => m = Run(m.call))
  BY MessageFacts
<1>5. m.kind = "run" => exec[m.call] = "none"
  BY <1>2, <1>3, <1>4 DEF StartInv, Nowhere
<1>6. /\ down' = [down EXCEPT ![s] = Tail(down[s])]
      /\ UNCHANGED <<queue, call, box>>
  BY DEF WorkerTakes
<1>7. \/ m.kind = "run" /\ exec' = [exec EXCEPT ![m.call] = "running"]
                        /\ UNCHANGED up
      \/ /\ m.kind = "cancel" /\ exec[m.call] = "running"
         /\ exec' = [exec EXCEPT ![m.call] = "failure"]
         /\ up' = [up EXCEPT ![s] = up[s] \cup {m.call}]
      \/ UNCHANGED <<exec, up>>
  BY <1>3 DEF WorkerTakes
<1> QED
  BY <1>1, <1>3, <1>4, <1>5, <1>6, <1>7

---------------------------------------------------------------------------
(* A command starts once *)

LEMMA StartFrame ==
  ASSUME StartInv, Once(queue', down'),
         \A c \in Calls : Nowhere(c, queue, down) => Nowhere(c, queue', down'),
         \A c \in Calls : exec'[c] = exec[c] \/ Nowhere(c, queue', down'),
         \A c \in Calls : Unsent(c)' => Unsent(c) /\ exec'[c] = exec[c]
  PROVE  StartInv'
BY DEF StartInv

LEMMA StartStep ==
  ASSUME TypeOK, RoutingInv, [Next]_vars
  PROVE  StartInv'
<1> USE DEF RoutingInv
<1>t. queue \in Q /\ down \in D /\ Once(queue, down)
  BY DEF TypeOK, Q, D, StartInv
<1>u. queue' \in Q /\ down' \in D
  BY TypeStep DEF TypeOK, Q, D
<1>1. ASSUME NEW c \in Calls, CallBegins(c) \/ CallStep(c) \/ ContextEnds(c)
      PROVE  StartInv'
  <2>1. /\ UNCHANGED <<down, exec>> /\ (Unsent(c)' => Unsent(c))
        /\ \A d \in Calls : d # c => (Unsent(d)' <=> Unsent(d))
    BY <1>1, CallMoves DEF Unsent
  <2>2. CASE UNCHANGED queue
    BY <2>1, <2>2, <1>t, StartFrame
  <2>3. CASE CallEnqueues(c) /\ ~UNCHANGED queue
    <3>8. call[c].ch \in Entries
      BY <2>3 DEF CallEnqueues, ChannelKnown
    <3>9. PICK e \in Entries : e = call[c].ch
      BY <3>8
    <3>1. /\ Unsent(c) /\ call[c] \in CallRecord
          /\ queue' = [queue EXCEPT ![e] = Append(queue[e], Run(c))]
          /\ Goto(c, "await")
      BY <2>3, <3>9 DEF CallEnqueues, Put, Unsent, TypeOK, CallRecord,
                        CallPlaces
    <3>2. ~Unsent(c)'
      BY <3>1 DEF Goto, Unsent, Over, Returned, CallRecord, TypeOK
    <3>3. Nowhere(c, queue, down) /\ exec[c] = "none"
      BY <3>1 DEF StartInv
    <3>4. Run(c) \in Messages /\ \A d \in Calls : Run(c) = Run(d) => c = d
      BY MessageFacts
    <3>m. PICK m \in Messages : m = Run(c)
      BY <3>4
    <3>6. /\ queue'[e] = Append(queue[e], m)
          /\ \A f \in Entries : f # e => queue'[f] = queue[f]
      BY <1>t, <3>1, <3>m DEF Q
    <3>7. \A d \in Calls : m = Run(d) => Nowhere(d, queue, down)
      BY <3>3, <3>4, <3>m
    <3>5. /\ Once(queue', down)
          /\ \A d \in Calls :
               m # Run(d) /\ Nowhere(d, queue, down)
                 => Nowhere(d, queue', down)
      BY <1>t, <1>u, <3>6, <3>7, AddedToQueue
    <3> QED
      BY <2>1, <3>2, <3>3, <3>4, <3>m, <3>5 DEF StartInv
  <2>4. CASE CancelEnqueues(c) /\ ~UNCHANGED queue
    <3>8. call[c].ch \in Entries
      BY <2>4 DEF CancelEnqueues, ChannelKnown
    <3>9. PICK e \in Entries : e = call[c].ch
      BY <3>8
    <3>1. queue' = [queue EXCEPT ![e] = Append(queue[e], Cancel(c))]
      BY <2>4, <3>9 DEF CancelEnqueues, Put
    <3>2. Cancel(c) \in Messages /\ \A d \in Calls : Cancel(c) # Run(d)
      BY MessageFacts
    <3>m. PICK m \in Messages : m = Cancel(c)
      BY <3>2
    <3>4. /\ queue'[e] = Append(queue[e], m)
          /\ \A f \in Entries : f # e => queue'[f] = queue[f]
      BY <1>t, <3>1, <3>m DEF Q
    <3>5. \A d \in Calls : m # Run(d)
      BY <3>2, <3>m
    <3>3. /\ Once(queue', down)
          /\ \A d \in Calls :
               Nowhere(d, queue, down) => Nowhere(d, queue', down)
      BY <1>t, <1>u, <3>4, <3>5, AddedToQueue
    <3> QED
      BY <2>1, <3>3, StartFrame
  <2>5. UNCHANGED queue \/ CallEnqueues(c) \/ CancelEnqueues(c)
    BY <1>1 DEF CallBegins, CallStep, CallLooksUp, CallGetsResult,
                CallTimesOut, CancelLooksUp, ContextEnds
  <2> QED
    BY <2>2, <2>3, <2>4, <2>5
<1>2. ASSUME NEW s \in Streams, Opens(s) \/ Breaks(s)
      PROVE  StartInv'
  <2>1. /\ UNCHANGED <<queue, call, exec>>
        /\ down' = [down EXCEPT ![s] = <<>>]
    BY <1>2 DEF Opens, Breaks
  <2>2. down' \in D
    BY <1>t, <2>1, EmptyQueue DEF D
  <2>3. \A t \in Streams : \E k \in Nat : Rest(down[t], down'[t], k)
    BY <1>t, <2>1, AllRest DEF D
  <2>4. \A e \in Entries : \E k \in Nat : Rest(queue[e], queue[e], k)
    BY <1>t, AllRest DEF Q
  <2>5. /\ Once(queue, down')
        /\ \A c \in Calls : Nowhere(c, queue, down) => Nowhere(c, queue, down')
    BY <1>t, <2>2, <2>3, <2>4, RestKeeps
  <2> QED
    BY <2>1, <2>5, StartFrame DEF Unsent
<1>3. ASSUME NEW s \in Streams, Forwards(s)
      PROVE  StartInv'
  <2>8. stream[s].entry \in Entries
    BY <1>3 DEF Forwards, Serving, TypeOK
  <2>9. PICK e \in Entries : e = stream[s].entry
    BY <2>8
  <2> DEFINE m == Head(queue[e])
  <2>1. /\ queue[e] # <<>> /\ queue[e] \in Seq(Messages)
        /\ queue' = [queue EXCEPT ![e] = Tail(queue[e])]
        /\ UNCHANGED <<call, exec>>
        /\ \/ down' = down
           \/ down' = [down EXCEPT ![s] = Append(down[s], m)]
    BY <1>3, <2>9 DEF Forwards, TypeOK
  <2>5. /\ queue'[e] = Tail(queue[e])
        /\ \A f \in Entries : f # e => queue'[f] = queue[f]
    BY <1>t, <2>1 DEF Q
  <2>2. /\ Once(queue', down)
        /\ \A c \in Calls : Nowhere(c, queue, down) => Nowhere(c, queue', down)
        /\ \A c \in Calls : m = Run(c) => Nowhere(c, queue', down)
    BY <1>t, <1>u, <2>1, <2>5, TakenFromQueue
  <2>3. CASE down' = down
    BY <2>1, <2>2, <2>3, StartFrame DEF Unsent
  <2>4. CASE down' = [down EXCEPT ![s] = Append(down[s], m)]
    <3>1. m \in Messages /\ m = queue[e][1] /\ 1 \in 1..Len(queue[e])
      BY <2>1, TailOfQueue
    <3>5. /\ down'[s] = Append(down[s], m)
          /\ \A t \in Streams : t # s => down'[t] = down[t]
      BY <1>t, <2>4 DEF D
    <3>2. /\ Once(queue', down')
          /\ \A c \in Calls : m # Run(c) /\ Nowhere(c, queue', down)
                                => Nowhere(c, queue', down')
      BY <1>t, <1>u, <2>2, <3>1, <3>5, AddedToWire
    <3>3. \A c \in Calls : Nowhere(c, queue, down) => m # Run(c)
      BY <2>1, <3>1 DEF Nowhere
    <3>4. \A c \in Calls : Nowhere(c, queue, down) => Nowhere(c, queue', down')
      BY <2>2, <3>2, <3>3
    <3> QED
      BY <2>1, <3>2, <3>4, StartFrame DEF Unsent
  <2> QED
    BY <2>1, <2>3, <2>4
<1>4. ASSUME NEW s \in Streams, WorkerTakes(s)
      PROVE  StartInv'
  <2>1. /\ down[s] # <<>> /\ down' = [down EXCEPT ![s] = Tail(down[s])]
        /\ UNCHANGED <<queue, call>>
    BY <1>4, WorkerMoves
  <2>4. /\ down'[s] = Tail(down[s])
        /\ \A t \in Streams : t # s => down'[t] = down[t]
    BY <1>t, <2>1 DEF D
  <2>2. /\ Once(queue, down')
        /\ \A c \in Calls : Nowhere(c, queue, down) => Nowhere(c, queue, down')
        /\ \A c \in Calls : Head(down[s]) = Run(c) => Nowhere(c, queue, down')
    BY <1>t, <1>u, <2>1, <2>4, TakenFromWire
  <2>3. ASSUME NEW c \in Calls, exec'[c] # exec[c]
        PROVE  ~Unsent(c) /\ Nowhere(c, queue, down')
    <3>1. \/ Head(down[s]) = Run(c)
          \/ exec[c] = "running"
      <4>1. ASSUME NEW d \in Calls, NEW x \in {"running", "failure"},
                   exec' = [exec EXCEPT ![d] = x]
            PROVE  d = c
        BY <2>3, <4>1 DEF TypeOK
      <4> QED
        BY <1>4, <2>3, <4>1, WorkerMoves
    <3>2. CASE Head(down[s]) = Run(c)
      <4>1. Run(c) = down[s][1] /\ 1 \in 1..Len(down[s])
        BY <2>1, <3>2, TailOfQueue DEF TypeOK
      <4> QED
        BY <2>2, <3>2, <4>1 DEF StartInv, Nowhere
    <3>3. CASE exec[c] = "running"
      BY <2>2, <3>3 DEF StartInv
    <3> QED
      BY <3>1, <3>2, <3>3
  <2> QED
    BY <2>1, <2>2, <2>3, StartFrame DEF Unsent
<1>5. ASSUME NEW c \in Calls, WorkerFinishes(c)
      PROVE  StartInv'
  <2>1. /\ UNCHANGED <<queue, down, call>> /\ exec[c] = "running"
        /\ \A d \in Calls : d # c => exec'[d] = exec[d]
    BY <1>5 DEF WorkerFinishes, TypeOK
  <2>2. Nowhere(c, queue, down) /\ ~Unsent(c)
    BY <2>1 DEF StartInv
  <2> QED
    BY <1>t, <2>1, <2>2, StartFrame DEF Unsent
<1>6. CASE \/ \E s \in Streams : \/ StreamEnds(s) \/ ChannelClosed(s)
                                 \/ \E c \in Calls : Delivers(s, c)
           \/ Evicted \/ Deregistered
           \/ \E e \in Entries : Attached(e) \/ Closed(e)
           \/ UNCHANGED vars
  <2>1. UNCHANGED <<queue, down, call, exec>>
    BY <1>6 DEF StreamEnds, ChannelClosed, Delivers, Evicted, Deregistered,
                Attached, Closed, vars, wires
  <2> QED
    BY <1>t, <2>1, StartFrame DEF Unsent
<1> QED
  BY <1>1, <1>2, <1>3, <1>4, <1>5, <1>6 DEF Next, GatewayStep

---------------------------------------------------------------------------
(* A result is the command's own *)

LEMMA ResultStep ==
  ASSUME TypeOK, RoutingInv, [Next]_vars
  PROVE  ResultInv'
<1> USE DEF RoutingInv
<1>1. ASSUME NEW c \in Calls, CallBegins(c) \/ CallStep(c) \/ ContextEnds(c)
      PROVE  ResultInv'
  <2>1. UNCHANGED <<exec, up, box>>
    BY <1>1, CallMoves
  <2> QED
    BY <2>1 DEF ResultInv
<1>2. ASSUME NEW s \in Streams, Opens(s) \/ Breaks(s)
      PROVE  ResultInv'
  BY <1>2 DEF Opens, Breaks, ResultInv, TypeOK
<1>3. ASSUME NEW s \in Streams, Forwards(s) \/ StreamEnds(s) \/ ChannelClosed(s)
      PROVE  ResultInv'
  BY <1>3 DEF Forwards, StreamEnds, ChannelClosed, ResultInv, wires
<1>4. ASSUME NEW s \in Streams, NEW c \in Calls, Delivers(s, c)
      PROVE  ResultInv'
  <2>1. /\ exec' = exec /\ c \in up[s] /\ up' = [up EXCEPT ![s] = up[s] \ {c}]
        /\ box' = box \/ box' = [box EXCEPT ![c] = exec[c]]
    BY <1>4 DEF Delivers
  <2>2. \A d \in Calls : box'[d] # "none" => box'[d] = exec'[d]
    BY <2>1 DEF ResultInv, TypeOK
  <2>3. \A t \in Streams : up'[t] \subseteq up[t]
    BY <2>1 DEF TypeOK
  <2> QED
    BY <2>1, <2>2, <2>3 DEF ResultInv
<1>5. ASSUME NEW s \in Streams, WorkerTakes(s)
      PROVE  ResultInv'
  <2>1. CASE UNCHANGED <<exec, up>>
    BY <1>5, <2>1, WorkerMoves DEF ResultInv
  <2>2. ASSUME NEW c \in Calls, exec[c] \in {"none", "running"}, box' = box,
               exec'[c] \in {"running", "failure"},
               \A d \in Calls : d # c => exec'[d] = exec[d],
               \/ up' = up
               \/ exec'[c] = "failure" /\ up' = [up EXCEPT ![s] = up[s] \cup {c}]
        PROVE  ResultInv'
    <3>1. exec[c] \notin {"success", "failure"} /\ box[c] = "none"
      BY <2>2 DEF ResultInv, TypeOK
    <3>2. \A d \in Calls : box'[d] # "none" => box'[d] = exec'[d]
      BY <2>2, <3>1 DEF ResultInv
    <3>3. \A t \in Streams : c \notin up[t]
      BY <3>1 DEF ResultInv
    <3>4. \A t \in Streams : up'[t] \subseteq up[t] \cup {d \in {c} : exec'[c] = "failure"}
      BY <2>2 DEF TypeOK
    <3>5. \A t \in Streams : \A d \in up'[t] : exec'[d] \in {"success", "failure"}
      <4> SUFFICES ASSUME NEW t \in Streams, NEW d \in up'[t]
                   PROVE  exec'[d] \in {"success", "failure"}
        OBVIOUS
      <4>1. CASE d = c
        BY <3>3, <3>4, <4>1
      <4>2. CASE d # c
        <5>1. d \in up[t] /\ d \in Calls
          BY <3>4, <4>2 DEF TypeOK
        <5> QED
          BY <2>2, <4>2, <5>1 DEF ResultInv
      <4> QED
        BY <4>1, <4>2
    <3> QED
      BY <3>2, <3>5 DEF ResultInv
  <2>3. ASSUME NEW c \in Calls, exec[c] = "none", up' = up,
               exec' = [exec EXCEPT ![c] = "running"]
        PROVE  ResultInv'
    BY <1>5, <2>2, <2>3, WorkerMoves DEF TypeOK
  <2>4. ASSUME NEW c \in Calls, exec[c] = "running",
               exec' = [exec EXCEPT ![c] = "failure"],
               up' = [up EXCEPT ![s] = up[s] \cup {c}]
        PROVE  ResultInv'
    BY <1>5, <2>2, <2>4, WorkerMoves DEF TypeOK
  <2> QED
    BY <1>5, <2>1, <2>3, <2>4, WorkerMoves
<1>6. ASSUME NEW c \in Calls, WorkerFinishes(c)
      PROVE  ResultInv'
  BY <1>6 DEF WorkerFinishes, ResultInv, TypeOK
<1>7. CASE \/ Evicted \/ Deregistered
           \/ \E e \in Entries : Attached(e) \/ Closed(e)
           \/ UNCHANGED vars
  BY <1>7 DEF Evicted, Deregistered, Attached, Closed, vars, wires, ResultInv
<1> QED
  BY <1>1, <1>2, <1>3, <1>4, <1>5, <1>6, <1>7 DEF Next, GatewayStep

---------------------------------------------------------------------------
(* The theorems *)

LEMMA RoutingInvInit == Init => RoutingInv
<1> SUFFICES ASSUME Init PROVE RoutingInv
  OBVIOUS
<1>1. /\ \A e \in Entries : Len(queue[e]) = 0
      /\ \A s \in Streams : Len(down[s]) = 0
  BY EmptyQueue DEF Init
<1>2. \A c \in Calls : Nowhere(c, queue, down)
  BY <1>1 DEF Nowhere
<1>3. Once(queue, down)
  BY <1>1 DEF Once
<1> QED
  BY <1>2, <1>3 DEF Init, Idle, RoutingInv, ChannelKnown, StartInv, ResultInv

(* Types and the invariant: a command is in one place at most until it     *)
(* starts, and what a call will be handed is its own result.               *)
THEOREM RoutingInvariance == Spec => [](TypeOK /\ RoutingInv)
<1>1. Init => TypeOK /\ RoutingInv
  BY TypeInit, RoutingInvInit
<1>2. TypeOK /\ RoutingInv /\ [Next]_vars => (TypeOK /\ RoutingInv)'
  BY TypeStep, StartStep, ResultStep DEF RoutingInv
<1> QED
  BY <1>1, <1>2, PTL DEF Spec

(* Every variable keeps its type; command channels never hold more than    *)
(* their capacity and result channels hold a result.                       *)
THEOREM RoutingTyped == Spec => []TypeOK
BY RoutingInvariance, PTL

LEMMA AnswerValue ==
  ASSUME NEW c \in Calls
  PROVE  /\ call[c].pc \in {"success", "failure"} => Answer(c) = call[c].pc
         /\ call[c].pc \in {"error", "panic"} => Answer(c) = "error"
         /\ call[c].pc \notin Over => Answer(c) = "none"
BY DEF Answer, Over, Returned

LEMMA AnswerValueAfter ==
  ASSUME NEW c \in Calls
  PROVE  /\ call'[c].pc \in {"success", "failure"} => Answer(c)' = call'[c].pc
         /\ call'[c].pc \in {"error", "panic"} => Answer(c)' = "error"
         /\ call'[c].pc \notin Over => Answer(c)' = "none"
BY DEF Answer, Over, Returned

LEMMA RemoteCallStep ==
  ASSUME TypeOK, RoutingInv, [Next]_vars
  PROVE  [Remote!Next]_<<[c \in Calls |-> Answer(c)], exec>>
<1> USE DEF RoutingInv
<1> DEFINE answers == [c \in Calls |-> Answer(c)]
<1>q. call' = call => answers' = answers
  BY DEF Answer
<1>1. ASSUME NEW c \in Calls, CallBegins(c) \/ CallStep(c) \/ ContextEnds(c)
      PROVE  Remote!Next \/ UNCHANGED <<answers, exec>>
  <2>1. /\ exec' = exec /\ call[c].pc \notin Over
        /\ \A d \in Calls : d # c => call'[d] = call[d]
    BY <1>1, CallMoves
  <2>2. Answer(c) = "none" /\ answers[c] = "none"
    BY <2>1, AnswerValue
  <2>3. answers' = [answers EXCEPT ![c] = Answer(c)']
    <3>1. \A d \in Calls : d # c => Answer(d)' = Answer(d)
      BY <2>1 DEF Answer
    <3> QED
      BY <3>1
  <2>4. CASE call'[c].pc \notin Over
    BY <2>1, <2>2, <2>3, <2>4, AnswerValueAfter
  <2>5. CASE call'[c].pc \in {"error", "panic"}
    <3>1. Remote!Fail(c)
      BY <2>1, <2>2, <2>3, <2>5, AnswerValueAfter DEF Remote!Fail
    <3> QED
      BY <3>1 DEF Remote!Next
  <2>6. CASE call'[c].pc = exec[c] /\ exec[c] \in {"success", "failure"}
    <3>1. Remote!Return(c)
      BY <2>1, <2>2, <2>3, <2>6, AnswerValueAfter DEF Remote!Return
    <3> QED
      BY <3>1 DEF Remote!Next
  <2> QED
    BY <1>1, CallMoves, <2>4, <2>5, <2>6
<1>2. ASSUME NEW s \in Streams, WorkerTakes(s)
      PROVE  Remote!Next \/ UNCHANGED <<answers, exec>>
  <2>1. answers' = answers
    BY <1>2, <1>q, WorkerMoves
  <2>2. ASSUME NEW c \in Calls, exec[c] = "none",
               exec' = [exec EXCEPT ![c] = "running"]
        PROVE  Remote!Next
    <3>1. Remote!Start(c)
      BY <2>1, <2>2 DEF Remote!Start
    <3> QED
      BY <3>1 DEF Remote!Next
  <2>3. ASSUME NEW c \in Calls, exec[c] = "running",
               exec' = [exec EXCEPT ![c] = "failure"]
        PROVE  Remote!Next
    <3>1. Remote!Finish(c)
      BY <2>1, <2>3 DEF Remote!Finish
    <3> QED
      BY <3>1 DEF Remote!Next
  <2> QED
    BY <1>2, <2>1, <2>2, <2>3, WorkerMoves
<1>3. ASSUME NEW c \in Calls, WorkerFinishes(c)
      PROVE  Remote!Next \/ UNCHANGED <<answers, exec>>
  <2>1. Remote!Finish(c)
    BY <1>3, <1>q DEF WorkerFinishes, Remote!Finish
  <2> QED
    BY <2>1 DEF Remote!Next
<1>4. CASE \/ \E s \in Streams : \/ Opens(s) \/ Breaks(s) \/ Forwards(s)
                                 \/ StreamEnds(s) \/ ChannelClosed(s)
                                 \/ \E c \in Calls : Delivers(s, c)
           \/ Evicted \/ Deregistered
           \/ \E e \in Entries : Attached(e) \/ Closed(e)
           \/ UNCHANGED vars
  <2>1. UNCHANGED <<call, exec>>
    BY <1>4 DEF Opens, Breaks, Forwards, StreamEnds, ChannelClosed, Delivers,
                Evicted, Deregistered, Attached, Closed, vars
  <2> QED
    BY <2>1, <1>q
<1> QED
  BY <1>1, <1>2, <1>3, <1>4 DEF Next, GatewayStep

(* Send implements RemoteCall: whichever entries and streams a command and *)
(* its result pass, the worker runs it at most once, and a call that       *)
(* returns a result returns that of its own execution.                     *)
THEOREM RemoteCallRefinement == Spec => ImplementsRemoteCall
<1>1. Init => Remote!Init
  BY AnswerValue DEF Init, Idle, Over, Returned, Remote!Init
<1>2. TypeOK /\ RoutingInv /\ [Next]_vars
        => [Remote!Next]_<<[c \in Calls |-> Answer(c)], exec>>
  BY RemoteCallStep
<1> QED
  BY <1>1, <1>2, RoutingInvariance, PTL
     DEF Spec, ImplementsRemoteCall, Remote!Spec
=============================================================================
