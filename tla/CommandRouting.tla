--------------------------- MODULE CommandRouting ---------------------------
(***************************************************************************)
(* Commands from the control plane to one worker and results back: the     *)
(* Senders that runtime/remote uses, the command channel and the results   *)
(* map of each WorkerEntry, and the CommandStream handlers that move       *)
(* messages between channels and connections.                              *)
(*                                                                         *)
(* The registry is the ConnectionTable that WorkerRegistry implements.     *)
(* The worker's side is WorkerStream, seen from the gateway: it runs every *)
(* command it receives once, answers in any order, and opens a new         *)
(* connection only after it has finished with the last one.                *)
(***************************************************************************)
EXTENDS Naturals, Sequences, FiniteSets

CONSTANTS
  Calls,       \* calls of Send; a call's command id is a fresh UUID
  Worker,      \* the worker they target
  Entries, Streams, None,
  QueueCap,    \* capacity of CommandCh
  MaxFaults    \* bound on broken connections and on the requests that
               \* Preregister or Deregister the worker, together

ASSUME RoutingNone == None \notin Entries
ASSUME RoutingBounds ==
  QueueCap \in Nat \ {0} /\ MaxFaults \in Nat

VARIABLES
  slot, life,  \* the connection table
  leaving,     \* what Deregister has removed and not yet closed
  queue,       \* CommandCh of each entry
  results,     \* WorkerEntry.results: the calls that wait at each entry
  call,        \* each Send
  box,         \* what is in the call's result channel
  stream,      \* CommandStream handlers
  down, up,    \* messages and results on each connection
  exec,        \* what the worker did with each command
  faults

table  == <<slot, life, leaving>>
wires  == <<down, up>>
vars   == <<table, queue, results, call, box, stream, wires, exec, faults>>

Table == INSTANCE ConnectionTable WITH Workers <- {Worker}

Messages  == [kind : {"run", "cancel"}, call : Calls]
Run(c)    == [kind |-> "run", call |-> c]
Cancel(c) == [kind |-> "cancel", call |-> c]

Idle   == [pc |-> "idle", ch |-> None]
Unused == [entry |-> None, open |-> FALSE]

Returned == {"success", "failure", "error"}
Over     == Returned \cup {"panic"}

TypeOK ==
  /\ slot \in [{Worker} -> Entries \cup {None}]
  /\ life \in [Entries -> {"new", "attached", "evicted", "closed"}]
  /\ leaving \subseteq Entries
  /\ queue \in [Entries -> Seq(Messages)]
  /\ \A e \in Entries : Len(queue[e]) <= QueueCap
  /\ results \in [Entries -> SUBSET Calls]
  /\ call \in [Calls -> [pc : {"idle", "lookup", "enqueue", "await", "cancel",
                               "sendcancel"} \cup Over,
                         ch : Entries \cup {None}]]
  /\ box \in [Calls -> {"none", "success", "failure"}]
  /\ stream \in [Streams -> [entry : Entries \cup {None}, open : BOOLEAN]]
  /\ down \in [Streams -> Seq(Messages)]
  /\ up \in [Streams -> SUBSET Calls]
  /\ exec \in [Calls -> {"none", "running", "success", "failure"}]
  /\ faults \in 0..MaxFaults

Init ==
  /\ Table!Init /\ leaving = {}
  /\ queue = [e \in Entries |-> <<>>]
  /\ results = [e \in Entries |-> {}]
  /\ call = [c \in Calls |-> Idle]
  /\ box = [c \in Calls |-> "none"]
  /\ stream = [s \in Streams |-> Unused]
  /\ down = [s \in Streams |-> <<>>]
  /\ up = [s \in Streams |-> {}]
  /\ exec = [c \in Calls |-> "none"]
  /\ faults = 0

---------------------------------------------------------------------------
(* Sender.Send *)

(* What is in the locals of a call that has returned does not matter.      *)
Goto(c, pc) ==
  call' = IF pc \in Returned THEN [call EXCEPT ![c] = [Idle EXCEPT !.pc = pc]]
          ELSE [call EXCEPT ![c].pc = pc]

(* WaitForResult: the result channel goes into the current entry's map.    *)
CallBegins(c) ==
  /\ call[c].pc = "idle"
  /\ IF slot[Worker] = None
     THEN Goto(c, "error") /\ UNCHANGED results
     ELSE /\ Goto(c, "lookup")
          /\ results' = [results EXCEPT ![slot[Worker]] = @ \cup {c}]
  /\ UNCHANGED <<table, queue, box, stream, wires, exec, faults>>

(* WorkerCommandChannel: a second look at the map.                         *)
CallLooksUp(c) ==
  /\ call[c].pc = "lookup"
  /\ call' = IF slot[Worker] = None
             THEN [call EXCEPT ![c] = [Idle EXCEPT !.pc = "error"]]
             ELSE [call EXCEPT ![c].pc = "enqueue", ![c].ch = slot[Worker]]
  /\ UNCHANGED <<table, queue, results, box, stream, wires, exec, faults>>

(* Mutant: the channel has no capacity.                                    *)
PutUnbounded(e, m) ==
  /\ life[e] # "closed"
  /\ queue' = [queue EXCEPT ![e] = Append(@, m)]

Put(e, m) ==
  /\ life[e] # "closed"
  /\ Len(queue[e]) < QueueCap
  /\ queue' = [queue EXCEPT ![e] = Append(@, m)]

(* A send on a closed channel panics: the call does not return.            *)
CallEnqueues(c) ==
  /\ call[c].pc = "enqueue"
  /\ \/ Put(call[c].ch, Run(c)) /\ Goto(c, "await")
     \/ life[call[c].ch] = "closed" /\ Goto(c, "panic") /\ UNCHANGED queue
  /\ UNCHANGED <<table, results, box, stream, wires, exec, faults>>

(* Only the caller's context bounds the wait for a place in the channel.    *)
ContextEnds(c) ==
  /\ call[c].pc = "enqueue"
  /\ Goto(c, "error")
  /\ UNCHANGED <<table, queue, results, box, stream, wires, exec, faults>>

CallGetsResult(c) ==
  /\ call[c].pc = "await" /\ box[c] # "none"
  /\ Goto(c, box[c])
  /\ UNCHANGED <<table, queue, results, box, stream, wires, exec, faults>>

(* Mutant: a call whose worker is gone is not cancelled.                    *)
CallTimesOutConnected(c) ==
  /\ call[c].pc = "await" /\ slot[Worker] # None
  /\ Goto(c, "cancel")
  /\ UNCHANGED <<table, queue, results, box, stream, wires, exec, faults>>

(* The caller's context is done or ten minutes have passed.                *)
CallTimesOut(c) ==
  /\ call[c].pc = "await"
  /\ Goto(c, "cancel")
  /\ UNCHANGED <<table, queue, results, box, stream, wires, exec, faults>>

(* sendCancel looks the worker up again; the call returns its error anyway.*)
CancelLooksUp(c) ==
  /\ call[c].pc = "cancel"
  /\ call' = IF slot[Worker] = None
             THEN [call EXCEPT ![c] = [Idle EXCEPT !.pc = "error"]]
             ELSE [call EXCEPT ![c].pc = "sendcancel", ![c].ch = slot[Worker]]
  /\ UNCHANGED <<table, queue, results, box, stream, wires, exec, faults>>

(* It gives up when the channel is still full after five seconds, and      *)
(* panics like CallEnqueues when Deregister has closed the channel.        *)
CancelEnqueues(c) ==
  /\ call[c].pc = "sendcancel"
  /\ \/ Put(call[c].ch, Cancel(c)) /\ Goto(c, "error")
     \/ life[call[c].ch] = "closed" /\ Goto(c, "panic") /\ UNCHANGED queue
     \/ /\ Len(queue[call[c].ch]) = QueueCap /\ life[call[c].ch] # "closed"
        /\ Goto(c, "error")
        /\ UNCHANGED queue
  /\ UNCHANGED <<table, results, box, stream, wires, exec, faults>>

---------------------------------------------------------------------------
(* Gateway.CommandStream *)

Serving(s) == stream[s].entry # None

(* The daemon opens a connection when it has finished with the last one;   *)
(* the gateway may not know yet that that one is gone.                     *)
WorkerIsFree ==
  /\ \A s \in Streams : ~stream[s].open
  /\ \A c \in Calls : exec[c] # "running"

Opens(s) ==
  /\ ~Serving(s) /\ WorkerIsFree
  /\ slot[Worker] # None
  /\ stream' = [stream EXCEPT ![s] = [entry |-> slot[Worker], open |-> TRUE]]
  /\ down' = [down EXCEPT ![s] = <<>>]
  /\ up' = [up EXCEPT ![s] = {}]
  /\ UNCHANGED <<table, queue, results, call, box, exec, faults>>

(* Registry.Disconnect by name, if the name is in the map.                 *)
Disconnect ==
  \/ Table!Detach(Worker) /\ UNCHANGED leaving
  \/ slot[Worker] = None /\ UNCHANGED table

(* The main loop takes one command from the entry's channel and sends it;  *)
(* when Send fails the command is gone.                                    *)
Forwards(s) ==
  /\ Serving(s) /\ queue[stream[s].entry] # <<>>
  /\ queue' = [queue EXCEPT ![stream[s].entry] = Tail(@)]
  /\ \/ /\ stream[s].open
        /\ down' = [down EXCEPT ![s] =
                      Append(@, Head(queue[stream[s].entry]))]
        /\ UNCHANGED <<table, stream>>
     \/ /\ ~stream[s].open
        /\ Disconnect
        /\ stream' = [stream EXCEPT ![s] = Unused]
        /\ UNCHANGED down
  /\ UNCHANGED <<results, call, box, up, exec, faults>>

StreamEnds(s) ==
  /\ Serving(s) /\ ~stream[s].open
  /\ Disconnect
  /\ stream' = [stream EXCEPT ![s] = Unused]
  /\ UNCHANGED <<queue, results, call, box, wires, exec, faults>>

(* A closed channel is read to its end first.                              *)
ChannelClosed(s) ==
  /\ Serving(s)
  /\ life[stream[s].entry] = "closed" /\ queue[stream[s].entry] = <<>>
  /\ stream' = [stream EXCEPT ![s] = Unused]
  /\ UNCHANGED <<table, queue, results, call, box, wires, exec, faults>>

(* Mutant: the result is not matched by command id.                        *)
DeliversUnmatched(s, c) ==
  /\ Serving(s) /\ stream[s].open /\ c \in up[s]
  /\ up' = [up EXCEPT ![s] = @ \ {c}]
  /\ slot[Worker] # None
  /\ \E d \in results[slot[Worker]] :
       /\ results' = [results EXCEPT ![slot[Worker]] = @ \ {d}]
       /\ box' = [box EXCEPT ![d] = exec[c]]
  /\ UNCHANGED <<table, queue, call, stream, down, exec, faults>>

(* recvLoop, DeliverResult: the result goes to the entry that the worker's *)
(* name has now, and to nobody when no call waits there.                   *)
Delivers(s, c) ==
  /\ Serving(s) /\ stream[s].open /\ c \in up[s]
  /\ up' = [up EXCEPT ![s] = @ \ {c}]
  /\ IF slot[Worker] # None /\ c \in results[slot[Worker]]
     THEN /\ results' = [results EXCEPT ![slot[Worker]] = @ \ {c}]
          /\ box' = [box EXCEPT ![c] = exec[c]]
     ELSE UNCHANGED <<results, box>>
  /\ UNCHANGED <<table, queue, call, stream, down, exec, faults>>

---------------------------------------------------------------------------
(* Environment *)

(* Register, or Restore for a stream that is about to open, makes an entry.*)
Attached(e) ==
  /\ Table!Attach(Worker, e)
  /\ UNCHANGED <<leaving, queue, results, call, box, stream, wires, exec,
                 faults>>

(* Preregister evicts the worker ...                                       *)
Evicted ==
  /\ faults < MaxFaults /\ faults' = faults + 1
  /\ Table!Detach(Worker)
  /\ UNCHANGED <<leaving, queue, results, call, box, stream, wires, exec>>

(* ... and so does Deregister, which then closes the channel it has found. *)
Deregistered ==
  /\ faults < MaxFaults /\ faults' = faults + 1
  /\ Table!Detach(Worker)
  /\ leaving' = leaving \cup {slot[Worker]}
  /\ UNCHANGED <<queue, results, call, box, stream, wires, exec>>

Closed(e) ==
  /\ e \in leaving /\ leaving' = leaving \ {e}
  /\ Table!Close(e)
  /\ UNCHANGED <<queue, results, call, box, stream, wires, exec, faults>>

(* The connection breaks: what is on it is lost.                           *)
Breaks(s) ==
  /\ stream[s].open
  /\ faults < MaxFaults /\ faults' = faults + 1
  /\ stream' = [stream EXCEPT ![s].open = FALSE]
  /\ down' = [down EXCEPT ![s] = <<>>]
  /\ up' = [up EXCEPT ![s] = {}]
  /\ UNCHANGED <<table, queue, results, call, box, exec>>

(* The worker takes a message: it starts a command, or a CANCEL makes a    *)
(* running command fail, unless it has ended or does not look at its       *)
(* context.  The answer to the CANCEL itself, for which nobody waits, is   *)
(* left out.                                                               *)
WorkerTakes(s) ==
  /\ down[s] # <<>> /\ stream[s].open
  /\ down' = [down EXCEPT ![s] = Tail(@)]
  /\ LET m == Head(down[s]) IN
     \/ m.kind = "run" /\ exec' = [exec EXCEPT ![m.call] = "running"]
                       /\ UNCHANGED up
     \/ /\ m.kind = "cancel" /\ exec[m.call] = "running"
        /\ exec' = [exec EXCEPT ![m.call] = "failure"]
        /\ up' = [up EXCEPT ![s] = @ \cup {m.call}]
     \/ /\ m.kind = "cancel"
        /\ UNCHANGED <<exec, up>>
  /\ UNCHANGED <<table, queue, results, call, box, stream, faults>>

(* A command ends; its result goes on the connection if there is one.      *)
WorkerFinishes(c) ==
  /\ exec[c] = "running"
  /\ \E x \in {"success", "failure"} : exec' = [exec EXCEPT ![c] = x]
  /\ up' = [s \in Streams |-> IF stream[s].open THEN up[s] \cup {c} ELSE up[s]]
  /\ UNCHANGED <<table, queue, results, call, box, stream, down, faults>>

---------------------------------------------------------------------------
CallStep(c) ==
  \/ CallLooksUp(c) \/ CallEnqueues(c) \/ CallGetsResult(c) \/ CallTimesOut(c)
  \/ CancelLooksUp(c) \/ CancelEnqueues(c)

GatewayStep(s) ==
  Forwards(s) \/ StreamEnds(s) \/ ChannelClosed(s)
    \/ \E c \in Calls : Delivers(s, c)

Next ==
  \/ \E c \in Calls : CallBegins(c) \/ CallStep(c) \/ ContextEnds(c)
  \/ \E s \in Streams : Opens(s) \/ GatewayStep(s) \/ Breaks(s) \/ WorkerTakes(s)
  \/ \E c \in Calls : WorkerFinishes(c)
  \/ Evicted \/ Deregistered
  \/ \E e \in Entries : Attached(e) \/ Closed(e)

Spec == Init /\ [][Next]_vars

Fairness ==
  /\ \A c \in Calls : WF_vars(CallStep(c)) /\ WF_vars(WorkerFinishes(c))
  /\ \A s \in Streams : WF_vars(GatewayStep(s)) /\ WF_vars(WorkerTakes(s))

FairSpec == Spec /\ Fairness

---------------------------------------------------------------------------
(* Properties *)

(* Send implements RemoteCall: a command runs at most once, although two   *)
(* streams may read one channel, and a result is the call's own.  A call   *)
(* that panics gives its caller no result, as one that fails.              *)
Answer(c) ==
  CASE call[c].pc \in {"success", "failure"} -> call[c].pc
    [] call[c].pc \in {"error", "panic"} -> "error"
    [] call[c].pc \notin Over -> "none"

Remote == INSTANCE RemoteCall WITH answer <- [c \in Calls |-> Answer(c)]

ImplementsRemoteCall == Remote!Spec

(* A call whose command was handed over returns, with a result or with the *)
(* error of its timeout, whatever the worker and the connections do; with  *)
(* one exception, the call whose sendCancel sends on a channel that        *)
(* Deregister has closed since it was looked up.  It panics instead of     *)
(* returning, although sendCancel's comment has its errors ignored.        *)
AwaitingCallReturns ==
  \A c \in Calls :
    call[c].pc = "await" ~>
      \/ call[c].pc \in Returned
      \/ call[c].pc = "panic" /\ life[call[c].ch] = "closed"
=============================================================================
