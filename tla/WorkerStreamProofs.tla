-------------------------- MODULE WorkerStreamProofs --------------------------
(***************************************************************************)
(* Theorems about WorkerStream, for any commands, buffer and bounds: types,*)
(* nobody sends on a closed channel, and no CANCEL is lost.  The last one  *)
(* depends on the order in which the gateway and the connection deliver.   *)
(***************************************************************************)
EXTENDS WorkerStream, SequenceTheorems, TLAPS

Loops  == {"open", "serve", "wait", "flush", "backoff", "stopped"}
Phases == {"none", "new", "running", "sending", "done"}

(* No goroutine of a command is under way.                                 *)
Quiet == \A m \in Messages : task[m] \in {"none", "done"}

(* A stream that is not served any more has no goroutines, save for the    *)
(* ones its drain waits for.                                               *)
DrainedInv ==
  /\ closed => loop # "serve" /\ Quiet
  /\ loop \notin {"serve", "wait"} => Quiet

(* A message is sent once, a CANCEL after its command, and they arrive in  *)
(* the order they were sent or not at all.                                 *)
WireInv ==
  /\ \A m \in Messages : task[m] # "none" => m \in sent
  /\ \A i \in 1..Len(wire) : wire[i] \in sent /\ task[wire[i]] = "none"
  /\ \A i, j \in 1..Len(wire) : i # j => wire[i] # wire[j]
  /\ \A c \in Commands :
       /\ Cancel(c) \in sent => Run(c) \in sent
       /\ \A i \in 1..Len(wire) :
            /\ task[Cancel(c)] # "none" => wire[i] # Run(c)
            /\ wire[i] = Cancel(c) => \A j \in i..Len(wire) : wire[j] # Run(c)

(* The Dispatcher's map has the commands that run with a live context; a   *)
(* CANCEL that came first has left a tombstone for its command.            *)
TombstoneInv ==
  /\ live = inflight
  /\ \A c \in inflight : task[Run(c)] = "running"
  /\ \A c \in Commands :
       task[Cancel(c)] \in {"sending", "done"} =>
         /\ c \notin inflight
         /\ task[Run(c)] = "new" => c \in cancelled

StreamInv == DrainedInv /\ WireInv /\ TombstoneInv

---------------------------------------------------------------------------
(* Messages and queues *)

LEMMA MessageFacts ==
  /\ \A c \in Commands : Run(c) \in Messages /\ Cancel(c) \in Messages
  /\ \A m \in Messages :
       /\ m.cmd \in Commands
       /\ m = Run(m.cmd) \/ m = Cancel(m.cmd)
  /\ \A c, d \in Commands :
       /\ Run(c) # Cancel(d)
       /\ Run(c) = Run(d) => c = d
       /\ Cancel(c) = Cancel(d) => c = d
<1>1. \A c \in Commands : Run(c) \in Messages /\ Cancel(c) \in Messages
  BY DEF Messages, Run, Cancel
<1>2. ASSUME NEW m \in Messages
      PROVE  /\ m.cmd \in Commands
             /\ m = Run(m.cmd) \/ m = Cancel(m.cmd)
  BY DEF Messages, Run, Cancel
<1>3. ASSUME NEW c \in Commands, NEW d \in Commands
      PROVE  /\ Run(c) # Cancel(d)
             /\ Run(c) = Run(d) => c = d
             /\ Cancel(c) = Cancel(d) => c = d
  <2>1. /\ Run(c).kind = "run" /\ Cancel(d).kind = "cancel"
        /\ Run(c).cmd = c /\ Run(d).cmd = d
        /\ Cancel(c).cmd = c /\ Cancel(d).cmd = d
    BY DEF Run, Cancel
  <2> QED
    BY <2>1
<1> QED
  BY <1>1, <1>2, <1>3

LEMMA EmptyQueues ==
  /\ <<>> \in Seq(Messages) /\ <<>> \in Seq(Messages \cup {Heartbeat})
  /\ Len(<<>>) = 0 /\ 0 <= SendBuf
BY BufferIsPositive

LEMMA PrefixOfSeq ==
  ASSUME NEW S, NEW s \in Seq(S), NEW k \in 0..Len(s)
  PROVE  /\ SubSeq(s, 1, k) \in Seq(S)
         /\ Len(SubSeq(s, 1, k)) = k
         /\ \A i \in 1..k : SubSeq(s, 1, k)[i] = s[i]
<1>1. \A i \in 1..k : s[i] \in S
  OBVIOUS
<1> QED
  BY <1>1, SubSeqProperties

---------------------------------------------------------------------------
(* Types *)

LEMMA TypeInit == Init => TypeOK
<1> SUFFICES ASSUME Init PROVE TypeOK
  OBVIOUS
<1>1. wire \in Seq(Messages) /\ sendCh \in Seq(Messages \cup {Heartbeat})
  BY EmptyQueues DEF Init
<1>2. Len(sendCh) <= SendBuf
  BY EmptyQueues DEF Init
<1>3. /\ loop \in Loops
      /\ err \in {"none", "broken", "unauthenticated", "ctx", "send"}
  BY DEF Init, Loops
<1>4. alive \in BOOLEAN /\ closed \in BOOLEAN
  BY DEF Init
<1>5. /\ link \in {"down", "up", "refused"}
      /\ sender \in {"on", "failed", "exited"}
      /\ sent \in SUBSET Messages /\ delivered \in SUBSET Messages
  BY DEF Init
<1>6. task \in [Messages -> Phases]
  BY DEF Init, Phases
<1>7. beats \in 0..MaxBeats /\ breaks \in 0..MaxBreaks
  BY StreamBounds DEF Init
<1>8. /\ inflight \in SUBSET Commands /\ live \in SUBSET Commands
      /\ cancelled \in SUBSET Commands
  BY DEF Init
<1> QED
  BY <1>1, <1>2, <1>3, <1>4, <1>5, <1>6, <1>7, <1>8 DEF TypeOK, Loops, Phases

LEMMA TypeStep ==
  ASSUME TypeOK, [Next]_vars
  PROVE  TypeOK'
<1> USE BufferIsPositive, StreamBounds, MessageFacts DEF TypeOK
<1>1. CASE OpenStream
  <2>1. wire' \in Seq(Messages) /\ sendCh' \in Seq(Messages \cup {Heartbeat})
    BY <1>1, EmptyQueues DEF OpenStream
  <2>2. Len(sendCh') <= SendBuf
    BY <1>1, EmptyQueues DEF OpenStream
  <2>3. /\ loop' \in Loops /\ link' \in {"down", "up", "refused"}
        /\ err' \in {"none", "broken", "unauthenticated", "ctx", "send"}
        /\ sender' \in {"on", "failed", "exited"}
    BY <1>1 DEF OpenStream, Loops
  <2>4. beats' \in 0..MaxBeats /\ breaks' \in 0..MaxBreaks
    BY <1>1 DEF OpenStream
  <2>5. alive' \in BOOLEAN /\ closed' \in BOOLEAN
    BY <1>1 DEF OpenStream
  <2>6. /\ sent' \in SUBSET Messages /\ delivered' \in SUBSET Messages
        /\ inflight' \in SUBSET Commands /\ live' \in SUBSET Commands
        /\ cancelled' \in SUBSET Commands
        /\ task' \in [Messages -> Phases]
    BY <1>1 DEF OpenStream, Phases
  <2> QED
    BY <2>1, <2>2, <2>3, <2>4, <2>5, <2>6 DEF Loops, Phases
<1>2. CASE OpenFails
  BY <1>2 DEF OpenFails, connection, dispatcher, channel
<1>3. CASE BackoffEnds \/ LoopStops
  BY <1>3 DEF BackoffEnds, LoopStops, connection, dispatcher, channel, bounds
<1>4. CASE Receive
  <2>1. Head(wire) \in Messages /\ Tail(wire) \in Seq(Messages)
    BY <1>4, HeadTailProperties DEF Receive
  <2> QED
    BY <1>4, <2>1 DEF Receive, dispatcher, channel, bounds
<1>5. CASE ReceiveFails \/ ContextDone
  BY <1>5 DEF ReceiveFails, ContextDone, connection, dispatcher, channel, bounds
<1>6. CASE Waited
  BY <1>6 DEF Waited, connection, dispatcher, bounds
<1>7. CASE Flushed
  BY <1>7 DEF Flushed, dispatcher, channel, bounds
<1>8. CASE Tick
  BY <1>8 DEF Tick, connection, dispatcher
<1>9. ASSUME NEW m \in Messages, TaskStep(m)
      PROVE  TypeOK'
  <2>1. CASE CancelCommand(m.cmd)
    BY <2>1 DEF CancelCommand, connection, channel, bounds
  <2>2. CASE Register(m.cmd) \/ Deregister(m.cmd)
    BY <2>2 DEF Register, Deregister, connection, channel, bounds
  <2>3. CASE SendResult(m)
    BY <2>3 DEF SendResult, connection, dispatcher, bounds
  <2> QED
    BY <1>9, <2>1, <2>2, <2>3 DEF TaskStep
<1>10. ASSUME NEW m \in Messages, GatewaySends(m)
       PROVE  TypeOK'
  BY <1>10 DEF GatewaySends, dispatcher, channel, bounds
<1>11. CASE SenderStep
  <2>1. CASE SenderSends
    <3>1. /\ Tail(sendCh) \in Seq(Messages \cup {Heartbeat})
          /\ Head(sendCh) \in Messages \cup {Heartbeat}
          /\ Len(Tail(sendCh)) = Len(sendCh) - 1
      BY <2>1, HeadTailProperties DEF SenderSends
    <3>2. Len(sendCh) \in Nat
      BY LenProperties
    <3>3. Len(Tail(sendCh)) <= SendBuf
      BY <3>1, <3>2
    <3> QED
      BY <2>1, <3>1, <3>3 DEF SenderSends, connection, dispatcher, bounds
  <2>2. CASE SenderExits
    BY <2>2 DEF SenderExits, connection, dispatcher, bounds
  <2> QED
    BY <1>11, <2>1, <2>2 DEF SenderStep
<1>12. CASE LinkBreaks
  <2>1. wire' \in Seq(Messages)
    BY <1>12, PrefixOfSeq DEF LinkBreaks
  <2> QED
    BY <1>12, <2>1 DEF LinkBreaks, dispatcher, channel
<1>13. CASE Stop
  BY <1>13 DEF Stop, dispatcher, channel, bounds
<1>14. CASE UNCHANGED vars
  BY <1>14 DEF vars
<1> QED
  BY <1>1, <1>2, <1>3, <1>4, <1>5, <1>6, <1>7, <1>8, <1>9, <1>10, <1>11,
     <1>12, <1>13, <1>14
     DEF Next, LoopStep

(* The loop, the goroutines, the Dispatcher and the channel stay within    *)
(* their types; in particular a full sendCh takes nothing more.            *)
THEOREM StreamTyped == Spec => []TypeOK
<1>1. Init => TypeOK
  BY TypeInit
<1>2. TypeOK /\ [Next]_vars => TypeOK'
  BY TypeStep
<1> QED
  BY <1>1, <1>2, PTL DEF Spec

---------------------------------------------------------------------------
(* The drain and the closed channel *)

LEMMA DrainedStep ==
  ASSUME TypeOK, DrainedInv, [Next]_vars
  PROVE  DrainedInv'
<1> USE MessageFacts DEF TypeOK, DrainedInv, Quiet
<1>1. CASE OpenStream
  BY <1>1 DEF OpenStream
<1>2. CASE OpenFails \/ BackoffEnds \/ LoopStops
  BY <1>2 DEF OpenFails, BackoffEnds, LoopStops, channel
<1>3. CASE Receive
  BY <1>3 DEF Receive, channel
<1>4. CASE ReceiveFails \/ ContextDone
  BY <1>4 DEF ReceiveFails, ContextDone, channel
<1>5. CASE Waited
  BY <1>5 DEF Waited
<1>6. CASE Flushed
  BY <1>6 DEF Flushed, channel
<1>7. CASE Tick
  BY <1>7 DEF Tick
<1>8. ASSUME NEW m \in Messages, TaskStep(m)
      PROVE  DrainedInv'
  <2>1. ~Quiet /\ closed' = closed /\ loop' = loop
    <3>1. m.kind = "cancel" => m = Cancel(m.cmd)
      BY DEF Messages, Cancel
    <3>2. m.kind = "run" => m = Run(m.cmd)
      BY DEF Messages, Run
    <3> QED
      BY <1>8, <3>1, <3>2
         DEF TaskStep, CancelCommand, Register, Deregister, SendResult, channel
  <2> QED
    BY <2>1
<1>9. ASSUME NEW m \in Messages, GatewaySends(m)
      PROVE  DrainedInv'
  BY <1>9 DEF GatewaySends, channel
<1>10. CASE SenderStep
  BY <1>10 DEF SenderStep, SenderSends, SenderExits
<1>11. CASE LinkBreaks \/ Stop
  BY <1>11 DEF LinkBreaks, Stop, channel
<1>12. CASE UNCHANGED vars
  BY <1>12 DEF vars
<1> QED
  BY <1>1, <1>2, <1>3, <1>4, <1>5, <1>6, <1>7, <1>8, <1>9, <1>10, <1>11,
     <1>12
     DEF Next, LoopStep

---------------------------------------------------------------------------
(* The wire *)

(* A step that neither sends nor receives may lose messages at its end.    *)
LEMMA WireFrame ==
  ASSUME TypeOK, WireInv,
         \A m \in Messages : task'[m] = "none" <=> task[m] = "none",
         sent' = sent,
         Len(wire') \in 0..Len(wire),
         \A i \in 1..Len(wire') : wire'[i] = wire[i]
  PROVE  WireInv'
<1>1. \A i \in 1..Len(wire') :
        i \in 1..Len(wire) /\ wire[i] \in Messages /\ wire'[i] = wire[i]
  BY DEF TypeOK
<1>2. \A i \in 1..Len(wire') : wire'[i] \in sent' /\ task'[wire'[i]] = "none"
  BY <1>1 DEF WireInv
<1>3. \A i, j \in 1..Len(wire') : i # j => wire'[i] # wire'[j]
  BY <1>1 DEF WireInv
<1>4. ASSUME NEW c \in Commands, NEW i \in 1..Len(wire')
      PROVE  /\ task'[Cancel(c)] # "none" => wire'[i] # Run(c)
             /\ wire'[i] = Cancel(c) =>
                  \A j \in i..Len(wire') : wire'[j] # Run(c)
  <2>1. \A j \in i..Len(wire') : j \in 1..Len(wire') /\ j \in i..Len(wire)
    OBVIOUS
  <2> QED
    BY <1>1, <2>1, MessageFacts DEF WireInv
<1> QED
  BY <1>2, <1>3, <1>4, MessageFacts DEF WireInv

LEMMA WireStep ==
  ASSUME TypeOK, WireInv, [Next]_vars
  PROVE  WireInv'
<1> USE MessageFacts
<1>a. Len(wire) \in Nat
  BY LenProperties DEF TypeOK
<1>1. CASE OpenStream
  <2>1. wire' = <<>> /\ Len(wire') = 0 /\ sent' = sent /\ task' = task
    BY <1>1 DEF OpenStream
  <2> QED
    BY <2>1, <1>a, WireFrame
<1>2. CASE OpenFails \/ BackoffEnds \/ LoopStops \/ ReceiveFails
             \/ ContextDone \/ Waited \/ Flushed \/ Tick \/ SenderStep \/ Stop
  <2>1. wire' = wire /\ sent' = sent /\ task' = task
    BY <1>2 DEF OpenFails, BackoffEnds, LoopStops, ReceiveFails, ContextDone,
         Waited, Flushed, Tick, SenderStep, SenderSends, SenderExits, Stop,
         connection
  <2> QED
    BY <2>1, <1>a, WireFrame
<1>3. CASE Receive
  <2>1. wire # <<>> /\ wire' = Tail(wire) /\ sent' = sent
        /\ task' = [task EXCEPT ![Head(wire)] = "new"]
    BY <1>3 DEF Receive
  <2>2. /\ Head(wire) = wire[1] /\ 1 \in 1..Len(wire)
        /\ Len(wire') = Len(wire) - 1
        /\ \A i \in 1..Len(wire') : wire'[i] = wire[i+1]
    BY <2>1, HeadTailProperties, EmptySeq, LenProperties DEF TypeOK
  <2>3. /\ wire[1] \in Messages /\ task'[wire[1]] = "new"
        /\ \A m \in Messages : m # wire[1] => task'[m] = task[m]
    BY <2>1, <2>2 DEF TypeOK
  <2>4. \A i \in 1..Len(wire') :
          /\ i + 1 \in 1..Len(wire) /\ i + 1 # 1
          /\ wire[i+1] \in Messages /\ wire'[i] = wire[i+1]
          /\ wire[i+1] # wire[1]
    BY <2>2, <1>a DEF TypeOK, WireInv
  <2>5. \A m \in Messages : task'[m] # "none" => m \in sent'
    BY <2>1, <2>2, <2>3 DEF WireInv
  <2>6. \A i \in 1..Len(wire') : wire'[i] \in sent' /\ task'[wire'[i]] = "none"
    BY <2>1, <2>3, <2>4 DEF WireInv
  <2>7. \A i, j \in 1..Len(wire') : i # j => wire'[i] # wire'[j]
    BY <2>4, <1>a DEF WireInv
  <2>8. ASSUME NEW c \in Commands, NEW i \in 1..Len(wire')
        PROVE  /\ task'[Cancel(c)] # "none" => wire'[i] # Run(c)
               /\ wire'[i] = Cancel(c) =>
                    \A j \in i..Len(wire') : wire'[j] # Run(c)
    <3>1. CASE wire[1] = Cancel(c)
      <4>1. \A j \in 1..Len(wire) : wire[j] # Run(c)
        BY <3>1, <2>2 DEF WireInv
      <4> QED
        BY <4>1, <2>4, <1>a, <2>2
    <3>2. CASE wire[1] # Cancel(c)
      <4>1. task'[Cancel(c)] = task[Cancel(c)]
        BY <3>2, <2>3
      <4>2. \A j \in i..Len(wire') :
              /\ j + 1 \in (i+1)..Len(wire)
              /\ wire'[j] = wire[j+1]
        BY <2>2, <1>a
      <4>3. wire[i+1] = Cancel(c) =>
              \A j \in (i+1)..Len(wire) : wire[j] # Run(c)
        BY <2>4 DEF WireInv
      <4>4. task[Cancel(c)] # "none" => wire[i+1] # Run(c)
        BY <2>4 DEF WireInv
      <4> QED
        BY <4>1, <4>2, <4>3, <4>4, <2>4
    <3> QED
      BY <3>1, <3>2
  <2> QED
    BY <2>1, <2>5, <2>6, <2>7, <2>8 DEF WireInv
<1>4. ASSUME NEW m \in Messages, TaskStep(m)
      PROVE  WireInv'
  <2>1. /\ wire' = wire /\ sent' = sent
        /\ \A n \in Messages : task'[n] = "none" <=> task[n] = "none"
    BY <1>4 DEF TaskStep, CancelCommand, Register, Deregister, SendResult,
                connection, TypeOK
  <2> QED
    BY <2>1, <1>a, WireFrame
<1>5. ASSUME NEW m \in Messages, GatewaySends(m)
      PROVE  WireInv'
  <2>1. /\ m \notin sent /\ sent' = sent \cup {m} /\ task' = task
        /\ wire' = Append(wire, m)
        /\ \A c \in Commands : m = Cancel(c) => Run(c) \in sent
    BY <1>5 DEF GatewaySends, Cancel
  <2>2. /\ Len(wire') = Len(wire) + 1
        /\ \A i \in 1..Len(wire) : wire'[i] = wire[i]
        /\ wire'[Len(wire) + 1] = m
    BY <2>1, AppendProperties DEF TypeOK
  <2>3. task[m] = "none" /\ \A i \in 1..Len(wire) : wire[i] # m
    BY <2>1 DEF WireInv
  <2>4. \A i \in 1..Len(wire') :
          \/ i \in 1..Len(wire) /\ wire'[i] = wire[i]
          \/ i = Len(wire) + 1 /\ wire'[i] = m
    BY <2>2, <1>a
  <2>5. \A i \in 1..Len(wire') : wire'[i] \in sent' /\ task'[wire'[i]] = "none"
    BY <2>1, <2>3, <2>4 DEF WireInv
  <2>6. \A i, j \in 1..Len(wire') : i # j => wire'[i] # wire'[j]
    BY <2>3, <2>4 DEF WireInv
  <2>7. ASSUME NEW c \in Commands, NEW i \in 1..Len(wire')
        PROVE  /\ task'[Cancel(c)] # "none" => wire'[i] # Run(c)
               /\ wire'[i] = Cancel(c) =>
                    \A j \in i..Len(wire') : wire'[j] # Run(c)
    <3>1. Cancel(c) \in sent => m # Run(c)
      BY <2>1 DEF WireInv
    <3>2. task[Cancel(c)] # "none" => Cancel(c) \in sent
      BY DEF WireInv
    <3>3. task'[Cancel(c)] # "none" => wire'[i] # Run(c)
      BY <2>1, <2>4, <3>1, <3>2 DEF WireInv
    <3>4. ASSUME wire'[i] = Cancel(c), NEW j \in i..Len(wire')
          PROVE  wire'[j] # Run(c)
      <4>1. j \in 1..Len(wire')
        BY <2>2, <1>a
      <4>2. CASE i = Len(wire) + 1
        BY <4>2, <2>2, <1>a, <3>4
      <4>3. CASE i \in 1..Len(wire)
        <5>1. wire[i] = Cancel(c) /\ Cancel(c) \in sent
          BY <4>3, <2>2, <3>4 DEF WireInv
        <5>2. CASE j = Len(wire) + 1
          BY <5>1, <5>2, <3>1, <2>2
        <5>3. CASE j \in 1..Len(wire)
          <6>1. j \in i..Len(wire)
            BY <5>3, <1>a, <4>3
          <6> QED
            BY <5>1, <6>1, <5>3, <4>3, <2>2 DEF WireInv
        <5> QED
          BY <5>2, <5>3, <4>1, <2>4
      <4> QED
        BY <4>2, <4>3, <2>4
    <3> QED
      BY <3>3, <3>4
  <2>8. \A c \in Commands : Cancel(c) \in sent' => Run(c) \in sent'
    BY <2>1 DEF WireInv
  <2>9. \A n \in Messages : task'[n] # "none" => n \in sent'
    BY <2>1 DEF WireInv
  <2> QED
    BY <2>5, <2>6, <2>7, <2>8, <2>9 DEF WireInv
<1>6. CASE LinkBreaks
  <2>1. PICK k \in 0..Len(wire) : wire' = SubSeq(wire, 1, k)
    BY <1>6 DEF LinkBreaks
  <2>2. Len(wire') = k /\ \A i \in 1..k : wire'[i] = wire[i]
    BY <2>1, PrefixOfSeq DEF TypeOK
  <2> QED
    BY <1>6, <2>2, WireFrame DEF LinkBreaks
<1>7. CASE UNCHANGED vars
  BY <1>7, <1>a, WireFrame DEF vars
<1> QED
  BY <1>1, <1>2, <1>3, <1>4, <1>5, <1>6, <1>7 DEF Next, LoopStep

---------------------------------------------------------------------------
(* Tombstones *)

LEMMA TombstoneStep ==
  ASSUME TypeOK, StreamInv, [Next]_vars
  PROVE  TombstoneInv'
<1> USE MessageFacts DEF TypeOK
<1> USE DEF StreamInv
<1>1. CASE OpenStream
  <2>1. Quiet /\ task' = task /\ inflight' = {} /\ live' = {}
    BY <1>1 DEF OpenStream, DrainedInv
  <2>2. \A c \in Commands :
          /\ task'[Cancel(c)] \notin {"sending"}
          /\ task'[Run(c)] # "new"
    BY <2>1 DEF Quiet
  <2> QED
    BY <2>1, <2>2 DEF TombstoneInv
<1>2. CASE OpenFails \/ BackoffEnds \/ LoopStops \/ ReceiveFails
             \/ ContextDone \/ Waited \/ Flushed \/ Tick \/ SenderStep \/ Stop
  <2>1. UNCHANGED <<task, inflight, cancelled, live>>
    BY <1>2 DEF OpenFails, BackoffEnds, LoopStops, ReceiveFails, ContextDone,
         Waited, Flushed, Tick, SenderStep, SenderSends, SenderExits, Stop,
         dispatcher
  <2> QED
    BY <2>1 DEF TombstoneInv
<1>3. CASE Receive
  <2>1. /\ wire # <<>> /\ UNCHANGED <<inflight, cancelled, live>>
        /\ task' = [task EXCEPT ![Head(wire)] = "new"]
    BY <1>3 DEF Receive, dispatcher
  <2>2. Head(wire) = wire[1] /\ 1 \in 1..Len(wire) /\ wire[1] \in Messages
    BY <2>1, HeadTailProperties, EmptySeq, LenProperties
  <2>3. /\ task[wire[1]] = "none" /\ task'[wire[1]] = "new"
        /\ \A m \in Messages : m # wire[1] => task'[m] = task[m]
    BY <2>1, <2>2 DEF WireInv
  <2>4. \A c \in Commands : task[Cancel(c)] # "none" => wire[1] # Run(c)
    BY <2>2 DEF WireInv
  <2>5. \A c \in inflight : task'[Run(c)] = "running"
    BY <2>1, <2>3 DEF TombstoneInv
  <2>6. ASSUME NEW c \in Commands, task'[Cancel(c)] \in {"sending", "done"}
        PROVE  c \notin inflight /\ (task'[Run(c)] = "new" => c \in cancelled)
    <3>1. task'[Cancel(c)] = task[Cancel(c)] /\ wire[1] # Run(c)
      BY <2>3, <2>4, <2>6
    <3> QED
      BY <3>1, <2>3, <2>6 DEF TombstoneInv
  <2> QED
    BY <2>1, <2>5, <2>6 DEF TombstoneInv
<1>4. ASSUME NEW m \in Messages, TaskStep(m)
      PROVE  TombstoneInv'
  <2>1. CASE CancelCommand(m.cmd)
    <3>1. \A d \in Commands :
            /\ task'[Run(d)] = task[Run(d)]
            /\ d # m.cmd => task'[Cancel(d)] = task[Cancel(d)]
      BY <2>1 DEF CancelCommand
    <3>2. CASE m.cmd \in inflight
      <4>1. /\ inflight' = inflight \ {m.cmd} /\ live' = live \ {m.cmd}
            /\ cancelled' = cancelled
        BY <2>1, <3>2 DEF CancelCommand
      <4> QED
        BY <3>1, <3>2, <4>1 DEF TombstoneInv
    <3>3. CASE m.cmd \notin inflight
      <4>1. /\ UNCHANGED <<inflight, live>>
            /\ cancelled' = cancelled \cup {m.cmd}
        BY <2>1, <3>3 DEF CancelCommand
      <4> QED
        BY <3>1, <3>3, <4>1 DEF TombstoneInv
    <3> QED
      BY <3>2, <3>3
  <2>2. CASE Register(m.cmd)
    <3>1. /\ task[Run(m.cmd)] = "new" /\ task'[Run(m.cmd)] = "running"
          /\ \A d \in Commands :
               /\ task'[Cancel(d)] = task[Cancel(d)]
               /\ d # m.cmd => task'[Run(d)] = task[Run(d)]
      BY <2>2 DEF Register
    <3>2. CASE m.cmd \in cancelled
      <4>1. UNCHANGED <<inflight, live>> /\ cancelled' = cancelled \ {m.cmd}
        BY <2>2, <3>2 DEF Register
      <4> QED
        BY <3>1, <3>2, <4>1 DEF TombstoneInv
    <3>3. CASE m.cmd \notin cancelled
      <4>1. /\ inflight' = inflight \cup {m.cmd} /\ live' = live \cup {m.cmd}
            /\ cancelled' = cancelled
        BY <2>2, <3>3 DEF Register
      <4> QED
        BY <3>1, <3>3, <4>1 DEF TombstoneInv
    <3> QED
      BY <3>2, <3>3
  <2>3. CASE Deregister(m.cmd)
    BY <2>3 DEF Deregister, TombstoneInv
  <2>4. CASE SendResult(m)
    BY <2>4 DEF SendResult, dispatcher, TombstoneInv
  <2> QED
    BY <1>4, <2>1, <2>2, <2>3, <2>4 DEF TaskStep
<1>5. ASSUME NEW m \in Messages, GatewaySends(m)
      PROVE  TombstoneInv'
  BY <1>5 DEF GatewaySends, dispatcher, TombstoneInv
<1>6. CASE LinkBreaks
  BY <1>6 DEF LinkBreaks, dispatcher, TombstoneInv
<1>7. CASE UNCHANGED vars
  BY <1>7 DEF vars, TombstoneInv
<1> QED
  BY <1>1, <1>2, <1>3, <1>4, <1>5, <1>6, <1>7 DEF Next, LoopStep

---------------------------------------------------------------------------
LEMMA StreamInvInit == Init => StreamInv
<1> SUFFICES ASSUME Init PROVE StreamInv
  OBVIOUS
<1>1. Len(wire) = 0
  BY EmptyQueues DEF Init
<1> QED
  BY <1>1, MessageFacts
     DEF Init, StreamInv, DrainedInv, Quiet, WireInv, TombstoneInv

(* The invariant on which the two properties of the stream rest.           *)
THEOREM StreamInvariance == Spec => []StreamInv
<1>1. Init => StreamInv
  BY StreamInvInit
<1>2. TypeOK /\ StreamInv /\ [Next]_vars => StreamInv'
  BY DrainedStep, WireStep, TombstoneStep DEF StreamInv
<1> QED
  BY <1>1, <1>2, StreamTyped, PTL DEF Spec

(* sendCh is closed only after the goroutines that send on it have ended,  *)
(* and no heartbeat follows: no stream of the daemon panics in its drain.  *)
THEOREM ClosedChannelStaysQuiet == Spec => []ClosedChannelIsQuiet
<1>1. StreamInv => ClosedChannelIsQuiet
  BY DEF StreamInv, DrainedInv, Quiet, ClosedChannelIsQuiet
<1> QED
  BY <1>1, StreamInvariance, PTL

(* However the goroutines of a command and of its CANCEL are scheduled, and*)
(* however often the stream breaks, a cancelled command does not run with  *)
(* a live context.                                                         *)
THEOREM CancelsAreKept == Spec => []CancelIsNotLost
<1>1. StreamInv => CancelIsNotLost
  BY DEF StreamInv, TombstoneInv, CancelIsNotLost
<1> QED
  BY <1>1, StreamInvariance, PTL
=============================================================================
