---------------------------- MODULE WorkerStream ----------------------------
(***************************************************************************)
(* The worker daemon's side of the command stream: the retry loop, the     *)
(* receive loop with a goroutine for each command, the goroutine that owns *)
(* stream.Send, the drain at the end of a stream, and the Dispatcher that  *)
(* lets a CANCEL abort one command.                                        *)
(*                                                                         *)
(* The relay goroutine that calls stream.Recv is part of the action that   *)
(* takes its message.  Commands run once; the gateway, at the other end of *)
(* the stream, is the environment.                                         *)
(***************************************************************************)
EXTENDS Naturals, Sequences

CONSTANTS
  Commands,      \* command ids
  SendBuf,       \* capacity of sendCh
  MaxBeats,      \* bound on the heartbeats of one stream
  MaxBreaks      \* bound on broken or refused connections

ASSUME BufferIsPositive == SendBuf \in Nat \ {0}
ASSUME StreamBounds == MaxBeats \in Nat /\ MaxBreaks \in Nat

VARIABLES
  loop,       \* where runStreamLoop and recvLoop are
  err,        \* the error recvLoop will return
  alive,      \* the daemon's context is not done
  link,       \* the connection of the current stream
  wire,       \* messages from the gateway
  sent,       \* messages the gateway has sent
  task,       \* the goroutine of each message
  inflight,   \* Dispatcher.inflight
  cancelled,  \* Dispatcher.cancelled, the tombstones
  live,       \* commands whose context has not been cancelled
  sendCh, closed,
  sender,     \* the goroutine that owns stream.Send
  delivered,  \* results that reached the connection
  beats, breaks

vars == <<loop, err, alive, link, wire, sent, task, inflight, cancelled, live,
          sendCh, closed, sender, delivered, beats, breaks>>

dispatcher == <<inflight, cancelled, live>>
channel    == <<sendCh, closed, sender, delivered>>
connection == <<link, wire, sent>>
bounds     == <<beats, breaks>>

Messages  == [kind : {"run", "cancel"}, cmd : Commands]
Run(c)    == [kind |-> "run", cmd |-> c]
Cancel(c) == [kind |-> "cancel", cmd |-> c]
Heartbeat == [kind |-> "heartbeat"]

TypeOK ==
  /\ loop \in {"open", "serve", "wait", "flush", "backoff", "stopped"}
  /\ err \in {"none", "broken", "unauthenticated", "ctx", "send"}
  /\ alive \in BOOLEAN
  /\ link \in {"down", "up", "refused"}
  /\ wire \in Seq(Messages)
  /\ sent \in SUBSET Messages
  /\ task \in [Messages -> {"none", "new", "running", "sending", "done"}]
  /\ inflight \in SUBSET Commands
  /\ cancelled \in SUBSET Commands
  /\ live \in SUBSET Commands
  /\ sendCh \in Seq(Messages \cup {Heartbeat})
  /\ Len(sendCh) <= SendBuf
  /\ closed \in BOOLEAN
  /\ sender \in {"on", "failed", "exited"}
  /\ delivered \in SUBSET Messages
  /\ beats \in 0..MaxBeats
  /\ breaks \in 0..MaxBreaks

Init ==
  /\ loop = "open" /\ err = "none" /\ alive = TRUE
  /\ link = "down" /\ wire = <<>> /\ sent = {}
  /\ task = [m \in Messages |-> "none"]
  /\ inflight = {} /\ cancelled = {} /\ live = {}
  /\ sendCh = <<>> /\ closed = FALSE /\ sender = "exited" /\ delivered = {}
  /\ beats = 0 /\ breaks = 0

---------------------------------------------------------------------------
(* runStreamLoop *)

(* A stream is opened with a new channel, a new sender and a new           *)
(* Dispatcher.  The gateway may refuse a worker it does not know: the      *)
(* first Recv then returns Unauthenticated.                                *)
OpenStream ==
  /\ loop = "open" /\ alive
  /\ \/ link' = "up" /\ UNCHANGED breaks
     \/ link' = "refused" /\ breaks < MaxBreaks /\ breaks' = breaks + 1
  /\ loop' = "serve" /\ err' = "none" /\ wire' = <<>>
  /\ sendCh' = <<>> /\ closed' = FALSE /\ sender' = "on"
  /\ inflight' = {} /\ cancelled' = {} /\ live' = {}
  /\ beats' = 0
  /\ UNCHANGED <<alive, sent, task, delivered>>

OpenFails ==
  /\ loop = "open" /\ alive
  /\ breaks < MaxBreaks /\ breaks' = breaks + 1
  /\ loop' = "backoff"
  /\ UNCHANGED <<err, alive, connection, task, dispatcher, channel, beats>>

(* The pause between two attempts; retries never end on their own.         *)
BackoffEnds ==
  /\ loop = "backoff"
  /\ loop' = "open"
  /\ UNCHANGED <<err, alive, connection, task, dispatcher, channel, bounds>>

LoopStops ==
  /\ loop \in {"open", "backoff"} /\ ~alive
  /\ loop' = "stopped"
  /\ UNCHANGED <<err, alive, connection, task, dispatcher, channel, bounds>>

---------------------------------------------------------------------------
(* recvLoop *)

(* Mutant: the heartbeat does not look whether the channel is full.        *)
TickBlind ==
  /\ loop = "serve"
  /\ beats < MaxBeats /\ beats' = beats + 1
  /\ sendCh' = Append(sendCh, Heartbeat)
  /\ UNCHANGED <<loop, err, alive, connection, task, dispatcher, closed,
                 sender, delivered, breaks>>

(* A heartbeat is dropped when the channel is full.                        *)
Tick ==
  /\ loop = "serve"
  /\ Len(sendCh) < SendBuf
  /\ beats < MaxBeats /\ beats' = beats + 1
  /\ sendCh' = Append(sendCh, Heartbeat)
  /\ UNCHANGED <<loop, err, alive, connection, task, dispatcher, closed,
                 sender, delivered, breaks>>

Receive ==
  /\ loop = "serve" /\ wire # <<>>
  /\ wire' = Tail(wire)
  /\ task' = [task EXCEPT ![Head(wire)] = "new"]
  /\ UNCHANGED <<loop, err, alive, link, sent, dispatcher, channel, bounds>>

ReceiveFails ==
  /\ loop = "serve" /\ wire = <<>> /\ link # "up"
  /\ loop' = "wait"
  /\ err' = IF link = "refused" THEN "unauthenticated" ELSE "broken"
  /\ UNCHANGED <<alive, connection, task, dispatcher, channel, bounds>>

ContextDone ==
  /\ loop = "serve" /\ ~alive
  /\ loop' = "wait" /\ err' = "ctx"
  /\ UNCHANGED <<alive, connection, task, dispatcher, channel, bounds>>

(* Mutant: the channel is closed before wg.Wait.                           *)
ClosedUnwaited ==
  /\ loop = "wait"
  /\ closed' = TRUE
  /\ loop' = "flush"
  /\ UNCHANGED <<err, alive, connection, task, dispatcher, sendCh, sender,
                 delivered, bounds>>

(* drain: wg.Wait, close(sendCh), <-senderDone.                            *)
Waited ==
  /\ loop = "wait"
  /\ \A m \in Messages : task[m] \in {"none", "done"}
  /\ closed' = TRUE
  /\ loop' = "flush"
  /\ UNCHANGED <<err, alive, connection, task, dispatcher, sendCh, sender,
                 delivered, bounds>>

(* Mutant: the drain waits for a sender that has ended without an error.   *)
FlushedClean ==
  /\ loop = "flush" /\ sender = "exited"
  /\ loop' = IF ~alive \/ err = "unauthenticated" THEN "stopped" ELSE "backoff"
  /\ link' = "down"
  /\ UNCHANGED <<err, alive, wire, sent, task, dispatcher, channel, bounds>>

(* A sender's error hides the error of Recv.  runStreamLoop stops when the *)
(* context is done or the gateway answered Unauthenticated.                *)
Flushed ==
  /\ loop = "flush" /\ sender # "on"
  /\ err' = IF sender = "failed" THEN "send" ELSE err
  /\ loop' = IF ~alive \/ err' = "unauthenticated" THEN "stopped"
             ELSE "backoff"
  /\ link' = "down"
  /\ UNCHANGED <<alive, wire, sent, task, dispatcher, channel, bounds>>

---------------------------------------------------------------------------
(* The goroutines of the commands: Dispatch, then the result *)

(* Mutant: a CANCEL is not answered.                                       *)
CancelUnanswered(c) ==
  /\ task[Cancel(c)] = "new"
  /\ task' = [task EXCEPT ![Cancel(c)] = "done"]
  /\ UNCHANGED <<loop, err, alive, connection, dispatcher, channel, bounds>>

CancelCommand(c) ==
  /\ task[Cancel(c)] = "new"
  /\ IF c \in inflight
     THEN /\ inflight' = inflight \ {c}
          /\ live' = live \ {c}
          /\ UNCHANGED cancelled
     ELSE /\ cancelled' = cancelled \cup {c}
          /\ UNCHANGED <<inflight, live>>
  /\ task' = [task EXCEPT ![Cancel(c)] = "sending"]
  /\ UNCHANGED <<loop, err, alive, connection, channel, bounds>>

(* Mutant: tombstones are not looked at.                                   *)
RegisterBlind(c) ==
  /\ task[Run(c)] = "new"
  /\ inflight' = inflight \cup {c}
  /\ live' = live \cup {c}
  /\ task' = [task EXCEPT ![Run(c)] = "running"]
  /\ UNCHANGED <<loop, err, alive, connection, cancelled, channel, bounds>>

Register(c) ==
  /\ task[Run(c)] = "new"
  /\ IF c \in cancelled
     THEN /\ cancelled' = cancelled \ {c}
          /\ UNCHANGED <<inflight, live>>
     ELSE /\ inflight' = inflight \cup {c}
          /\ live' = live \cup {c}
          /\ UNCHANGED cancelled
  /\ task' = [task EXCEPT ![Run(c)] = "running"]
  /\ UNCHANGED <<loop, err, alive, connection, channel, bounds>>

(* handle returns; deregister releases the context.                        *)
Deregister(c) ==
  /\ task[Run(c)] = "running"
  /\ inflight' = inflight \ {c}
  /\ live' = live \ {c}
  /\ task' = [task EXCEPT ![Run(c)] = "sending"]
  /\ UNCHANGED <<loop, err, alive, connection, cancelled, channel, bounds>>

(* The goroutine leaves its result in sendCh, or leaves when the daemon's  *)
(* context is done.                                                        *)
SendResult(m) ==
  /\ task[m] = "sending"
  /\ \/ Len(sendCh) < SendBuf /\ sendCh' = Append(sendCh, m)
     \/ ~alive /\ UNCHANGED sendCh
  /\ task' = [task EXCEPT ![m] = "done"]
  /\ UNCHANGED <<loop, err, alive, connection, dispatcher, closed, sender,
                 delivered, bounds>>

---------------------------------------------------------------------------
(* The sender *)

SenderSends ==
  /\ sender = "on" /\ sendCh # <<>>
  /\ sendCh' = Tail(sendCh)
  /\ \/ /\ link = "up"
        /\ delivered' = delivered \cup ({Head(sendCh)} \ {Heartbeat})
        /\ UNCHANGED sender
     \/ /\ link # "up"
        /\ sender' = "failed"
        /\ UNCHANGED delivered
  /\ UNCHANGED <<loop, err, alive, connection, task, dispatcher, closed,
                 bounds>>

SenderExits ==
  /\ sender = "on" /\ closed /\ sendCh = <<>>
  /\ sender' = "exited"
  /\ UNCHANGED <<loop, err, alive, connection, task, dispatcher, sendCh,
                 closed, delivered, bounds>>

---------------------------------------------------------------------------
(* Environment *)

GatewaySends(m) ==
  /\ link = "up" /\ loop = "serve"
  /\ m \notin sent
  /\ m.kind = "cancel" => Run(m.cmd) \in sent
  /\ sent' = sent \cup {m}
  /\ wire' = Append(wire, m)
  /\ UNCHANGED <<loop, err, alive, link, task, dispatcher, channel, bounds>>

(* The connection breaks; messages on their way may be lost.               *)
LinkBreaks ==
  /\ link = "up"
  /\ breaks < MaxBreaks /\ breaks' = breaks + 1
  /\ link' = "down"
  /\ wire' \in {SubSeq(wire, 1, k) : k \in 0..Len(wire)}
  /\ UNCHANGED <<loop, err, alive, sent, task, dispatcher, channel, beats>>

(* The daemon is told to stop; its context also ends the connection.       *)
Stop ==
  /\ alive
  /\ alive' = FALSE
  /\ link' = "down"
  /\ UNCHANGED <<loop, err, wire, sent, task, dispatcher, channel, bounds>>

---------------------------------------------------------------------------
LoopStep ==
  \/ OpenStream \/ OpenFails \/ BackoffEnds \/ LoopStops \/ Receive
  \/ ReceiveFails \/ ContextDone \/ Waited \/ Flushed

TaskStep(m) ==
  \/ m.kind = "cancel" /\ CancelCommand(m.cmd)
  \/ m.kind = "run" /\ (Register(m.cmd) \/ Deregister(m.cmd))
  \/ SendResult(m)

SenderStep == SenderSends \/ SenderExits

Next ==
  \/ LoopStep \/ Tick
  \/ \E m \in Messages : TaskStep(m) \/ GatewaySends(m)
  \/ SenderStep
  \/ LinkBreaks
  \/ Stop

Spec == Init /\ [][Next]_vars

(* Goroutines run, and every command's handler returns.                    *)
Fairness ==
  /\ WF_vars(LoopStep)
  /\ \A m \in Messages : WF_vars(TaskStep(m))
  /\ WF_vars(SenderStep)

FairSpec == Spec /\ Fairness

---------------------------------------------------------------------------
(* Properties *)

(* Once a CANCEL was dispatched, its command never runs with a live        *)
(* context, in whichever order the two goroutines reach the Dispatcher     *)
(* (the tombstones of dispatch.go).                                        *)
CancelIsNotLost ==
  \A c \in Commands :
    task[Cancel(c)] \in {"sending", "done"} => c \notin live

(* sendCh is closed only when no goroutine can still send on it: a send on *)
(* a closed channel panics (join.go makeDrainer).                          *)
ClosedChannelIsQuiet ==
  closed => /\ \A m \in Messages : task[m] \in {"none", "done"}
            /\ loop # "serve"

(* While the stream stays up every command that arrives is answered: the   *)
(* control plane always gets a response (dispatch.go Dispatch).            *)
EveryCommandAnswered ==
  \A m \in Messages :
    task[m] = "new" ~> (m \in delivered \/ link # "up" \/ ~alive)

(* drain comes to its end: a broken stream is left, except where the       *)
(* sender failed, the channel is full and a goroutine wants to add to it.  *)
Blocked ==
  /\ sender = "failed" /\ Len(sendCh) = SendBuf
  /\ \E m \in Messages : task[m] = "sending"

DrainEnds == loop = "wait" ~> loop \in {"backoff", "stopped"} \/ Blocked
=============================================================================
