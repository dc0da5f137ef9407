--------------------------- MODULE GatewayProofs ----------------------------
(***************************************************************************)
(* Proofs about the programs of the gateway: the relay of the packets, for *)
(* every length of the queue and every number of packets, and the Wi-Fi    *)
(* station, for every number of retries, addresses and pending events.     *)
(***************************************************************************)
EXTENDS RfGateway, WifiStation, SequenceTheorems, TLAPS

LEMMA NotifyTyped ==
  ASSUME NEW n \in N!Notification(Events), NEW b \in SUBSET Events
  PROVE  /\ N!Notify(n, b) \in N!Notification(Events)
         /\ N!TakeAndClear(n, b) \in N!Notification(Events)
         /\ N!Block(n) \in N!Notification(Events)
         /\ N!GiveUp(n) \in N!Notification(Events)
BY DEF N!Notification, N!States, N!Notify, N!TakeAndClear, N!Block, N!GiveUp

LEMMA InitTyped == Init => TypeOK
<1> SUFFICES ASSUME Init PROVE TypeOK
  OBVIOUS
<1>1. notif \in N!Notification(Events)
  BY DEF Init, N!Notification, N!States, N!Quiet
<1>2. parsed \in Samples /\ received \in Samples
  BY RfGatewayAssumption DEF Init, Samples, Timestamps
<1>3. queue \in Seq(Timestamps) /\ Len(queue) <= QueueLen
  BY RfGatewayAssumption DEF Init
<1>4. 0 \in Timestamps
  BY RfGatewayAssumption DEF Timestamps
<1>5. QED
  BY <1>1, <1>2, <1>3, <1>4 DEF Init, TypeOK

LEMMA StepTyped == TypeOK /\ [Next]_vars => TypeOK'
<1> SUFFICES ASSUME TypeOK, [Next]_vars PROVE TypeOK'
  OBVIOUS
<1> USE RfGatewayAssumption DEF TypeOK, client, device
<1>1. CASE DeviceInit
  BY <1>1 DEF DeviceInit
<1>2. CASE WaitBlocks \/ WaitTimesOut \/ WaitReturns
  BY <1>2, NotifyTyped DEF WaitBlocks, WaitTimesOut, WaitReturns
<1>3. CASE ReadPayload \/ ReadFails
  <2>1. 0 \in Timestamps
    BY DEF Timestamps
  <2>2. QED
    BY <1>3, <2>1 DEF ReadPayload, TakePayload, ReadFails
<1>4. CASE QueueFrame \/ QueueFull
  <2>1. CASE QueueFrame
    <3>1. queue' \in Seq(Timestamps) /\ Len(queue') = Len(queue) + 1
      BY <2>1, AppendProperties DEF QueueFrame
    <3>2. Len(queue') <= QueueLen
      BY <2>1, <3>1 DEF QueueFrame, Room
    <3>3. QED
      BY <2>1, <3>1, <3>2 DEF QueueFrame
  <2>2. CASE QueueFull
    BY <2>2 DEF QueueFull
  <2>3. QED
    BY <1>4, <2>1, <2>2
<1>5. CASE SendSample
  <2>1. /\ Head(queue) \in Timestamps
        /\ queue' \in Seq(Timestamps)
        /\ Len(queue') = Len(queue) - 1
    BY <1>5, HeadTailProperties DEF SendSample
  <2>2. parsed' \in Samples
    BY <1>5, <2>1 DEF SendSample, Samples
  <2>3. received' \in Samples
    BY <1>5, <2>2 DEF SendSample, Send
  <2>4. QED
    BY <1>5, <2>1, <2>2, <2>3 DEF SendSample
<1>6. CASE SendHeartbeat
  <2>1. parsed' \in Samples
    BY <1>6 DEF SendHeartbeat, ZeroData, Samples
  <2>2. received' \in Samples
    BY <1>6, <2>1 DEF SendHeartbeat, Send
  <2>3. QED
    BY <1>6, <2>1, <2>2 DEF SendHeartbeat
<1>7. CASE PacketArrives \/ PacketWithoutEdge
  <2>1. sent' \in Timestamps
    BY <1>7 DEF PacketArrives, PacketWithoutEdge, Timestamps
  <2>2. N!Notify(notif, {DR}) \in N!Notification(Events)
    BY NotifyTyped DEF Events
  <2>3. QED
    BY <1>7, <2>1, <2>2 DEF PacketArrives, PacketWithoutEdge, DrIsr
<1>8. ASSUME NEW e \in {AM, CD}, CarrierEdge(e) PROVE TypeOK'
  <2>1. N!Notify(notif, {e}) \in N!Notification(Events)
    BY NotifyTyped DEF Events
  <2>2. QED
    BY <1>8, <2>1 DEF CarrierEdge
<1>9. CASE UNCHANGED vars
  BY <1>9 DEF vars
<1>10. QED
  BY <1>1, <1>2, <1>3, <1>4, <1>5, <1>6, <1>7, <1>8, <1>9 DEF Next, RfTask

\* Every variable of the gateway keeps its type; the queue never passes its
\* length (rf_link.c:79, :90).
THEOREM TypeCorrect == Spec => []TypeOK
  BY InitTyped, StepTyped, PTL DEF Spec

-----------------------------------------------------------------------------

\* A DR bit is pending, or a read under way, only for a packet in the chip; and
\* for every packet, unless the last read failed or nothing listens to DR.
EdgeKept ==
  /\ DR \in notif.value => chip # 0 /\ notif.state = "received" /\ pc # "read"
  /\ pc = "read" => chip # 0
  /\ pc = "init" => chip = 0 /\ ~listening
  /\ HearsUnlessReadFails

\* From the network to the antenna timestamps do not decrease ...
Ordered ==
  /\ received.timestamp <= parsed.timestamp
  /\ parsed.timestamp <= rxData
  /\ \A i \in 1..Len(queue) : parsed.timestamp <= queue[i] /\ queue[i] <= rxData
  /\ \A i, j \in 1..Len(queue) : i < j => queue[i] <= queue[j]
  /\ rxData <= sent
  /\ chip <= sent
  /\ chip # 0 => rxData <= chip

\* ... and a frame that was just read is newer than all of them.
Fresh ==
  /\ chip # 0 => rxData < chip
  /\ pc = "queue" /\ ~readFailed => /\ parsed.timestamp < rxData
                                    /\ \A i \in 1..Len(queue) : queue[i] < rxData

IInv == TypeOK /\ EdgeKept /\ Ordered /\ Fresh

LEMMA InitIInv == Init => IInv
<1> SUFFICES ASSUME Init PROVE IInv
  OBVIOUS
<1>1. TypeOK
  BY InitTyped
<1>2. EdgeKept
  BY DEF Init, EdgeKept, N!Quiet, HearsUnlessReadFails, Deaf
<1>3. Ordered /\ Fresh
  BY DEF Init, Ordered, Fresh
<1>4. QED
  BY <1>1, <1>2, <1>3 DEF IInv

LEMMA EdgeStep == TypeOK /\ EdgeKept /\ [Next]_vars => EdgeKept'
<1> SUFFICES ASSUME TypeOK, EdgeKept, [Next]_vars PROVE EdgeKept'
  OBVIOUS
<1> USE DEF EdgeKept, HearsUnlessReadFails, Deaf, client, device, DR, AM, CD, Events
<1>1. CASE DeviceInit
  BY <1>1 DEF DeviceInit
<1>2. CASE WaitBlocks \/ WaitTimesOut
  <2>1. DR \notin notif.value
    BY <1>2 DEF WaitBlocks, WaitTimesOut
  <2>2. notif'.value = notif.value
    BY <1>2 DEF TypeOK, N!Notification, WaitBlocks, WaitTimesOut, N!Block, N!GiveUp
  <2>3. QED
    BY <1>2, <2>1, <2>2 DEF WaitBlocks, WaitTimesOut
<1>3. CASE WaitReturns
  BY <1>3 DEF WaitReturns, ReadsOn, N!TakeAndClear
<1>4. CASE ReadPayload \/ ReadFails
  <2>1. DR \notin notif.value
    BY <1>4 DEF ReadPayload, ReadFails
  <2>2. QED
    BY <1>4, <2>1 DEF ReadPayload, ReadFails
<1>5. CASE QueueFrame \/ QueueFull \/ SendSample \/ SendHeartbeat
  BY <1>5 DEF QueueFrame, QueueFull, SendSample, SendHeartbeat
<1>6. CASE PacketArrives
  <2>1. chip = 0 /\ chip' # 0 /\ pc' \notin {"init", "read"} /\ UNCHANGED <<drEnabled, readFailed>>
    BY <1>6 DEF PacketArrives, TypeOK, Timestamps
  <2>2. CASE drEnabled
    <3>1. DR \in notif'.value /\ notif'.state = "received"
      BY <1>6, <2>2 DEF PacketArrives, DrIsr, N!Notify
    <3>2. QED
      BY <2>1, <3>1
  <2>3. CASE ~drEnabled
    BY <1>6, <2>1, <2>3 DEF PacketArrives
  <2>4. QED
    BY <2>2, <2>3
<1>7. CASE PacketWithoutEdge
  <2>1. chip' # 0 <=> chip # 0
    BY <1>7, RfGatewayAssumption DEF PacketWithoutEdge, TypeOK, Timestamps
  <2>2. QED
    BY <1>7, <2>1 DEF PacketWithoutEdge
<1>8. ASSUME NEW e \in {AM, CD}, CarrierEdge(e) PROVE EdgeKept'
  <2>1. notif'.state = "received" /\ (DR \in notif'.value <=> DR \in notif.value)
    BY <1>8 DEF CarrierEdge, N!Notify
  <2>2. QED
    BY <1>8, <2>1 DEF CarrierEdge
<1>9. CASE UNCHANGED vars
  BY <1>9 DEF vars
<1>10. QED
  BY <1>1, <1>2, <1>3, <1>4, <1>5, <1>6, <1>7, <1>8, <1>9 DEF Next, RfTask

\* What appending x to the queue, and taking its head, do to the order of it.
LEMMA AppendOrdered ==
  ASSUME TypeOK, NEW x \in Timestamps, queue' = Append(queue, x)
  PROVE  /\ \A i \in 1..Len(queue') :
              \/ i \in 1..Len(queue) /\ queue'[i] = queue[i]
              \/ i = Len(queue) + 1 /\ queue'[i] = x
         /\ Len(queue') = Len(queue) + 1 /\ Len(queue) \in Nat
<1>1. /\ Len(queue) \in Nat /\ Len(queue') = Len(queue) + 1
      /\ \A i \in 1..Len(queue) : queue'[i] = queue[i]
      /\ queue'[Len(queue) + 1] = x
  BY AppendProperties, LenProperties DEF TypeOK
<1>2. QED
  BY <1>1

LEMMA TailShifts ==
  ASSUME TypeOK, queue # <<>>, queue' = Tail(queue)
  PROVE  /\ Len(queue) \in Nat /\ Len(queue') = Len(queue) - 1 /\ 1 \in 1..Len(queue)
         /\ Head(queue) = queue[1]
         /\ \A i \in 1..Len(queue') : i + 1 \in 1..Len(queue) /\ queue'[i] = queue[i + 1]
<1>1. /\ Len(queue') = Len(queue) - 1
      /\ \A i \in 1..Len(queue') : queue'[i] = queue[i + 1]
  BY HeadTailProperties DEF TypeOK
<1>2. Len(queue) \in Nat \ {0}
  BY LenProperties, EmptySeq DEF TypeOK
<1>3. QED
  BY <1>1, <1>2 DEF TypeOK

LEMMA QueueNumbers ==
  ASSUME TypeOK
  PROVE  /\ \A i \in 1..Len(queue) : queue[i] \in Int
         /\ {sent, chip, rxData, parsed.timestamp, received.timestamp} \subseteq Nat
BY ElementOfSeq, RfGatewayAssumption DEF TypeOK, Timestamps, Samples

LEMMA OrderedStep == TypeOK /\ EdgeKept /\ Ordered /\ [Next]_vars => Ordered'
<1> SUFFICES ASSUME TypeOK, EdgeKept, Ordered, [Next]_vars PROVE Ordered'
  OBVIOUS
<1> USE DEF client
<1>0. TypeOK' /\ {sent, chip, rxData, parsed.timestamp, received.timestamp} \subseteq Nat
  BY StepTyped, QueueNumbers
<1>1. CASE DeviceInit \/ WaitBlocks \/ WaitTimesOut \/ WaitReturns
  BY <1>1 DEF DeviceInit, WaitBlocks, WaitTimesOut, WaitReturns, Ordered
<1>2. CASE ReadPayload
  <2>1. rxData <= chip /\ chip <= sent
    BY <1>2 DEF ReadPayload, EdgeKept, Ordered
  <2>2. UNCHANGED <<sent, queue, parsed, received>> /\ rxData' = chip /\ chip' = 0
    BY <1>2 DEF ReadPayload, TakePayload
  <2>3. \A i \in 1..Len(queue) : queue[i] \in Int
    BY QueueNumbers
  <2>4. QED
    BY <1>0, <2>1, <2>2, <2>3 DEF Ordered
<1>3. CASE ReadFails \/ QueueFull
  BY <1>0, <1>3 DEF ReadFails, QueueFull, Ordered
<1>4. CASE QueueFrame
  <2>1. queue' = Append(queue, rxData) /\ rxData \in Timestamps
    BY <1>4 DEF QueueFrame, TypeOK
  <2>2. UNCHANGED <<sent, chip, rxData, parsed, received>>
    BY <1>4 DEF QueueFrame
  <2>3. \A i \in 1..Len(queue') : parsed.timestamp <= queue'[i] /\ queue'[i] <= rxData
    BY <1>0, <2>1, AppendOrdered DEF Ordered
  <2>4. \A i, j \in 1..Len(queue') : i < j => queue'[i] <= queue'[j]
    BY <1>0, <2>1, AppendOrdered, QueueNumbers DEF Ordered
  <2>5. QED
    BY <2>2, <2>3, <2>4 DEF Ordered
<1>5. CASE SendSample
  <2>1. queue # <<>> /\ queue' = Tail(queue) /\ parsed'.timestamp = Head(queue)
    BY <1>5 DEF SendSample
  <2>2. UNCHANGED <<sent, chip, rxData>>
    BY <1>5 DEF SendSample
  <2>3. /\ parsed'.timestamp = queue[1] /\ queue[1] \in Int
        /\ parsed.timestamp <= queue[1] /\ queue[1] <= rxData
    BY <2>1, TailShifts, QueueNumbers DEF Ordered
  <2>4. received'.timestamp <= parsed'.timestamp
    <3>1. received' = received \/ received' = parsed'
      BY <1>5 DEF SendSample, Send
    <3>2. QED
      BY <1>0, <2>3, <3>1 DEF Ordered
  <2>5. \A i \in 1..Len(queue') : parsed'.timestamp <= queue'[i] /\ queue'[i] <= rxData
    BY <2>1, <2>3, TailShifts DEF Ordered
  <2>6. \A i, j \in 1..Len(queue') : i < j => queue'[i] <= queue'[j]
    BY <2>1, TailShifts DEF Ordered
  <2>7. QED
    BY <2>2, <2>3, <2>4, <2>5, <2>6 DEF Ordered
<1>6. CASE SendHeartbeat
  <2>1. parsed'.timestamp = parsed.timestamp
    BY <1>6 DEF SendHeartbeat, ZeroData, TypeOK, Samples
  <2>2. received' = received \/ received' = parsed'
    BY <1>6 DEF SendHeartbeat, Send
  <2>3. QED
    BY <1>0, <1>6, <2>1, <2>2 DEF SendHeartbeat, Ordered
<1>7. CASE PacketArrives \/ PacketWithoutEdge
  <2>1. /\ sent' = sent + 1 /\ chip' \in {chip, sent'}
        /\ UNCHANGED <<rxData, queue, parsed, received>>
    BY <1>7 DEF PacketArrives, PacketWithoutEdge
  <2>2. QED
    BY <1>0, <2>1 DEF Ordered
<1>8. ASSUME NEW e \in {AM, CD}, CarrierEdge(e) PROVE Ordered'
  BY <1>8 DEF CarrierEdge, Ordered
<1>9. CASE UNCHANGED vars
  BY <1>9 DEF vars, Ordered
<1>10. QED
  BY <1>1, <1>2, <1>3, <1>4, <1>5, <1>6, <1>7, <1>8, <1>9 DEF Next, RfTask

LEMMA FreshStep == TypeOK /\ EdgeKept /\ Ordered /\ Fresh /\ [Next]_vars => Fresh'
<1> SUFFICES ASSUME TypeOK, EdgeKept, Ordered, Fresh, [Next]_vars PROVE Fresh'
  OBVIOUS
<1> USE DEF client, device
<1>0. /\ {sent, chip, rxData, parsed.timestamp} \subseteq Nat
      /\ \A i \in 1..Len(queue) : queue[i] \in Int
  BY QueueNumbers
<1>1. CASE DeviceInit \/ WaitBlocks \/ WaitTimesOut \/ WaitReturns
  BY <1>1 DEF DeviceInit, WaitBlocks, WaitTimesOut, WaitReturns, Fresh
<1>2. CASE ReadPayload
  <2>1. rxData < chip /\ parsed.timestamp <= rxData
    BY <1>2 DEF ReadPayload, EdgeKept, Fresh, Ordered
  <2>2. UNCHANGED <<queue, parsed>> /\ rxData' = chip /\ chip' = 0
    BY <1>2 DEF ReadPayload, TakePayload
  <2>3. \A i \in 1..Len(queue) : queue[i] <= rxData
    BY DEF Ordered
  <2>4. QED
    BY <1>0, <2>1, <2>2, <2>3 DEF Fresh
<1>3. CASE ReadFails \/ QueueFull
  BY <1>3 DEF ReadFails, QueueFull, Fresh
<1>4. CASE QueueFrame
  BY <1>4 DEF QueueFrame, Fresh
<1>5. CASE SendSample
  <2>1. queue # <<>> /\ queue' = Tail(queue) /\ parsed'.timestamp = queue[1]
    BY <1>5, TailShifts DEF SendSample
  <2>2. UNCHANGED <<pc, chip, rxData, readFailed>>
    BY <1>5 DEF SendSample
  <2>3. pc = "queue" /\ ~readFailed
        => parsed'.timestamp < rxData /\ \A i \in 1..Len(queue') : queue'[i] < rxData
    BY <2>1, TailShifts DEF Fresh
  <2>4. QED
    BY <2>2, <2>3 DEF Fresh
<1>6. CASE SendHeartbeat
  <2>1. parsed'.timestamp = parsed.timestamp
    BY <1>6 DEF SendHeartbeat, ZeroData, TypeOK, Samples
  <2>2. QED
    BY <1>6, <2>1 DEF SendHeartbeat, Fresh
<1>7. CASE PacketArrives \/ PacketWithoutEdge
  <2>1. /\ sent' = sent + 1 /\ chip' \in {chip, sent'}
        /\ UNCHANGED <<pc, rxData, queue, parsed, readFailed>>
    BY <1>7 DEF PacketArrives, PacketWithoutEdge
  <2>2. chip' # 0 => rxData < chip'
    BY <1>0, <2>1 DEF Ordered, Fresh
  <2>3. QED
    BY <2>1, <2>2 DEF Fresh
<1>8. ASSUME NEW e \in {AM, CD}, CarrierEdge(e) PROVE Fresh'
  BY <1>8 DEF CarrierEdge, Fresh
<1>9. CASE UNCHANGED vars
  BY <1>9 DEF vars, Fresh
<1>10. QED
  BY <1>1, <1>2, <1>3, <1>4, <1>5, <1>6, <1>7, <1>8, <1>9 DEF Next, RfTask

THEOREM Inductive == Spec => []IInv
<1>1. IInv /\ [Next]_vars => IInv'
  BY StepTyped, EdgeStep, OrderedStep, FreshStep DEF IInv
<1>2. QED
  BY <1>1, InitIInv, PTL DEF Spec

-----------------------------------------------------------------------------

\* Unless the last read failed, or the DR interrupt could not be installed, every
\* packet in the chip has its edge pending or its read under way (rf_link.c:56-74),
\* whatever else notifies the task.
THEOREM HeardUnlessReadsFail == Spec => []HearsUnlessReadFails
<1>1. IInv => HearsUnlessReadFails
  BY DEF IInv, EdgeKept, HearsUnlessReadFails
<1>2. QED
  BY <1>1, Inductive, PTL

LEMMA TimeStep == IInv /\ Next => received'.timestamp >= received.timestamp
<1> SUFFICES ASSUME IInv, Next PROVE received'.timestamp >= received.timestamp
  OBVIOUS
<1>0. /\ {received.timestamp, parsed.timestamp} \subseteq Nat
      /\ received.timestamp <= parsed.timestamp
      /\ TypeOK
  BY QueueNumbers DEF IInv, Ordered
<1>1. CASE SendSample
  <2>1. parsed'.timestamp = queue[1] /\ parsed.timestamp <= queue[1] /\ queue[1] \in Int
    BY <1>0, <1>1, TailShifts, QueueNumbers DEF SendSample, IInv, Ordered
  <2>2. received' = received \/ received' = parsed'
    BY <1>1 DEF SendSample, Send
  <2>3. QED
    BY <1>0, <2>1, <2>2
<1>2. CASE SendHeartbeat
  <2>1. parsed'.timestamp = parsed.timestamp
    BY <1>0, <1>2 DEF SendHeartbeat, ZeroData, TypeOK, Samples
  <2>2. received' = received \/ received' = parsed'
    BY <1>2 DEF SendHeartbeat, Send
  <2>3. QED
    BY <1>0, <2>1, <2>2
<1>3. CASE UNCHANGED received
  BY <1>0, <1>3
<1>4. QED
  BY <1>1, <1>2, <1>3 DEF Next, RfTask, DeviceInit, WaitBlocks, WaitTimesOut, WaitReturns,
     ReadPayload, ReadFails, QueueFrame, QueueFull, PacketArrives, PacketWithoutEdge,
     CarrierEdge, client

\* Lost packets, failed reads (rf_link.c:74), dropped frames (:79) and heartbeats
\* (udp_client.c:98): no order of them makes the datagrams' time run backwards.
THEOREM TimeNeverRunsBack == Spec => TimestampsNeverDecrease
<1>1. IInv /\ [Next]_vars => [received'.timestamp >= received.timestamp]_vars
  BY TimeStep
<1>2. QED
  BY <1>1, Inductive, PTL DEF Spec, TimestampsNeverDecrease

\* The gateway implements the relay: between the packets the node transmits and
\* the datagrams of the client (udp_client.c:81-101) nothing is reordered,
\* invented or brought back.
THEOREM GatewayRelays == Spec => RelaysPackets
<1>. DEFINE shown == [r \in {"udp"} |-> received.timestamp]
<1>1. Init => Network!Init
  BY DEF Init, Network!Init
<1>2. IInv /\ IInv' /\ [Next]_vars => [Network!Next]_<<sent, shown>>
  <2> SUFFICES ASSUME IInv, IInv', [Next]_vars
               PROVE  Network!Next \/ UNCHANGED <<sent, shown>>
    OBVIOUS
  <2>1. UNCHANGED vars \/ received'.timestamp >= received.timestamp
    BY TimeStep
  <2>2. UNCHANGED sent \/ (sent' = sent + 1 /\ UNCHANGED received)
    BY DEF Next, RfTask, DeviceInit, WaitBlocks, WaitTimesOut, WaitReturns, ReadPayload,
       ReadFails, QueueFrame, QueueFull, SendSample, SendHeartbeat, PacketArrives,
       PacketWithoutEdge, CarrierEdge, client, vars
  <2>3. /\ {sent, received.timestamp, parsed.timestamp, rxData} \subseteq Nat
        /\ {sent', received'.timestamp, parsed'.timestamp, rxData'} \subseteq Nat
    BY RfGatewayAssumption DEF IInv, TypeOK, Samples, Timestamps
  <2>4. received'.timestamp <= sent'
    BY <2>3 DEF IInv, Ordered
  <2>5. CASE received'.timestamp = received.timestamp
    <3>1. UNCHANGED shown
      BY <2>5
    <3>2. QED
      BY <2>2, <3>1 DEF Network!Next, Network!Produce
  <2>6. CASE received'.timestamp # received.timestamp
    <3>1. UNCHANGED sent
      BY <2>2, <2>6
    <3>2. received'.timestamp \in (shown["udp"] + 1)..sent
      BY <2>1, <2>3, <2>4, <2>6, <3>1 DEF vars, client
    <3>3. shown' = [shown EXCEPT !["udp"] = received'.timestamp]
      OBVIOUS
    <3>4. Network!Deliver("udp")
      BY <3>1, <3>2, <3>3 DEF Network!Deliver
    <3>5. QED
      BY <3>4 DEF Network!Next
  <2>7. QED
    BY <2>5, <2>6
<1>3. QED
  BY <1>1, <1>2, Inductive, PTL DEF Spec, RelaysPackets, Network!Spec

\* A frame that the task queues behind a read that worked (rf_link.c:74-79) is
\* newer than all that were queued or forwarded before it; only a failed read
\* makes it queue an old one.
THEOREM NewUnlessReadFails == Spec => SamplesAreNew
<1>1. ASSUME IInv, Next, queue' = Append(queue, rxData), ~readFailed
      PROVE  parsed.timestamp < rxData /\ \A i \in 1..Len(queue) : queue[i] < rxData
  <2>1. Len(queue') = Len(queue) + 1 /\ Len(queue) \in Nat
    BY <1>1, AppendProperties DEF IInv, TypeOK
  <2>2. queue' # queue
    BY <2>1
  <2>3. ~SendSample
    <3>1. SUFFICES ASSUME SendSample PROVE FALSE
      OBVIOUS
    <3>2. queue # <<>> /\ queue' = Tail(queue)
      BY <3>1 DEF SendSample
    <3>3. Len(queue') = Len(queue) - 1
      BY <3>2, <1>1, HeadTailProperties DEF IInv, TypeOK
    <3>4. QED
      BY <2>1, <3>3
  <2>4. QueueFrame
    BY <1>1, <2>2, <2>3 DEF Next, RfTask, DeviceInit, WaitBlocks, WaitTimesOut, WaitReturns,
       ReadPayload, ReadFails, QueueFull, SendHeartbeat, PacketArrives, PacketWithoutEdge,
       CarrierEdge
  <2>5. QED
    BY <1>1, <2>4 DEF QueueFrame, IInv, Fresh
<1>2. IInv /\ [Next]_vars
      => [queue' = Append(queue, rxData) /\ ~readFailed
          => /\ parsed.timestamp < rxData
             /\ \A i \in 1..Len(queue) : queue[i] < rxData]_vars
  BY <1>1
<1>3. QED
  BY <1>2, Inductive, PTL DEF Spec, SamplesAreNew

\* Once the edge of the packet in the chip is used up (rf_link.c:74), nothing
\* makes the task look at the chip again.
THEOREM DeafForGood == Spec => DeafIsFinal
<1>1. IInv /\ [Next]_vars => [Deaf => Deaf']_vars
  <2> SUFFICES ASSUME TypeOK, Deaf, Next PROVE Deaf'
    BY DEF IInv
  <2> USE DEF Deaf, client, device, DR, AM, CD
  <2>1. CASE DeviceInit \/ QueueFrame \/ QueueFull \/ SendSample \/ SendHeartbeat
    BY <2>1 DEF DeviceInit, QueueFrame, QueueFull, SendSample, SendHeartbeat
  <2>2. CASE WaitBlocks \/ WaitTimesOut \/ WaitReturns
    <3>1. notif'.value \subseteq notif.value
      BY <2>2 DEF WaitBlocks, WaitTimesOut, WaitReturns, N!Block, N!GiveUp, N!TakeAndClear,
         TypeOK, N!Notification
    <3>2. QED
      BY <2>2, <3>1 DEF WaitBlocks, WaitTimesOut, WaitReturns, ReadsOn
  <2>3. CASE PacketWithoutEdge
    <3>1. chip' # 0
      BY <2>3, RfGatewayAssumption DEF PacketWithoutEdge, TypeOK, Timestamps
    <3>2. QED
      BY <2>3, <3>1 DEF PacketWithoutEdge
  <2>4. ASSUME NEW e \in {AM, CD}, CarrierEdge(e) PROVE Deaf'
    BY <2>4 DEF CarrierEdge, N!Notify
  <2>5. QED
    BY <2>1, <2>2, <2>3, <2>4 DEF Next, RfTask, ReadPayload, ReadFails, PacketArrives
<1>2. QED
  BY <1>1, Inductive, PTL DEF Spec, DeafIsFinal

-----------------------------------------------------------------------------
(* The Wi-Fi station.                                                      *)

Event == {START, DISCONNECTED, GOT_IP}

LEMMA EventNames == START # GOT_IP /\ DISCONNECTED # GOT_IP /\ START # DISCONNECTED
BY DEF START, DISCONNECTED, GOT_IP

LEMMA BitNames == CONNECTED_BIT # FAIL_BIT
BY DEF CONNECTED_BIT, FAIL_BIT

LEMMA Posted ==
  ASSUME events \in Seq(Event), NEW e \in Event, events' = Append(events, e)
  PROVE  /\ events' \in Seq(Event)
         /\ Len(events) \in Nat /\ Len(events') = Len(events) + 1
         /\ \A i \in 1..Len(events) : events'[i] = events[i]
         /\ events'[Len(events) + 1] = e
         /\ events' # <<>>
BY AppendProperties, LenProperties

LEMMA Handled ==
  ASSUME events \in Seq(Event), events # <<>>, events' = Tail(events)
  PROVE  /\ events' \in Seq(Event)
         /\ Len(events) \in Nat \ {0} /\ Len(events') = Len(events) - 1
         /\ Head(events) = events[1]
         /\ \A i \in 1..Len(events') : events'[i] = events[i + 1]
         /\ Len(events) = 1 => events' = <<>>
         /\ Len(events) # 1 => events' # <<>>
<1>1. /\ events' \in Seq(Event) /\ Len(events') = Len(events) - 1
      /\ \A i \in 1..Len(events') : events'[i] = events[i + 1]
  BY HeadTailProperties
<1>2. Len(events) \in Nat \ {0}
  BY LenProperties, EmptySeq
<1>3. Head(events) = events[1]
  OBVIOUS
<1>4. Len(events') = 0 <=> events' = <<>>
  BY <1>1, EmptySeq
<1>5. QED
  BY <1>1, <1>2, <1>3, <1>4

LEMMA WifiInitTyped == WifiInit => WifiTypeOK
  BY WifiStationAssumption DEF WifiInit, WifiTypeOK

LEMMA WifiStepTyped == WifiTypeOK /\ [WifiNext]_wifiVars => WifiTypeOK'
<1> SUFFICES ASSUME WifiTypeOK, [WifiNext]_wifiVars PROVE WifiTypeOK'
  OBVIOUS
<1> USE WifiStationAssumption DEF WifiTypeOK, history
<1>1. CASE AppMain
  BY <1>1, Posted DEF AppMain, WifiStart, WaitBits, Event
<1>2. CASE EventHandler
  <2>1. events' \in Seq(Event)
    BY <1>2, Handled DEF EventHandler, Event
  <2>2. CASE OnStart
    BY <1>2, <2>1, <2>2 DEF EventHandler, OnStart, Connect, Event
  <2>3. CASE OnDisconnected
    BY <1>2, <2>1, <2>3 DEF EventHandler, OnDisconnected, RetriesLeft, Retry, GiveUp,
       Connect, Event
  <2>4. CASE OnGotIp
    BY <1>2, <2>1, <2>4 DEF EventHandler, OnGotIp, Event
  <2>5. QED
    BY <1>2, <2>2, <2>3, <2>4 DEF EventHandler
<1>3. CASE Associate \/ LoseIp
  BY <1>3 DEF Associate, LoseIp
<1>4. CASE Disconnect
  BY <1>4, Posted DEF Disconnect, Posts, Event
<1>5. CASE GainIp
  BY <1>5, Posted DEF GainIp, Posts, Event
<1>6. CASE UNCHANGED wifiVars
  BY <1>6 DEF wifiVars
<1>7. QED
  BY <1>1, <1>2, <1>3, <1>4, <1>5, <1>6 DEF WifiNext

\* Every variable of the station keeps its type; the retry counter never passes
\* MAXIMUM_RETRY (wifi_connect.c:30-33).
THEOREM WifiTypeCorrect == WifiSpec => []WifiTypeOK
  BY WifiInitTyped, WifiStepTyped, PTL DEF WifiSpec

-----------------------------------------------------------------------------

\* Only the last event may tell of anything but an address, and it does so if
\* and only if the station is idle: then it is what makes it connect again.
Owed ==
  /\ link = "off" <=> main = "connect"
  /\ link = "off" => events = <<>>
  /\ \A i \in 1..Len(events) : i < Len(events) \/ link # "idle" => events[i] = GOT_IP
  /\ link = "idle" /\ FAIL_BIT \notin bits
     => events # <<>> /\ events[Len(events)] # GOT_IP

\* The counter counts what has been handled since the last address.
Counted == FAIL_BIT \notin bits => retry = drops

Surrendered ==
  FAIL_BIT \in bits => link = "idle" /\ events = <<>> /\ drops > MaximumRetry

WifiIInv == WifiTypeOK /\ Owed /\ Counted /\ Surrendered

LEMMA WifiInitIInv == WifiInit => WifiIInv
<1> SUFFICES ASSUME WifiInit PROVE WifiIInv
  OBVIOUS
<1>1. Owed /\ Counted /\ Surrendered
  BY DEF WifiInit, Owed, Counted, Surrendered
<1>2. QED
  BY <1>1, WifiInitTyped DEF WifiIInv

\* An event tells of an address, and what is owed stays owed; or it is the last
\* one, and finds the station idle.
LEMMA Handling ==
  ASSUME WifiIInv, EventHandler
  PROVE  /\ FAIL_BIT \notin bits /\ main # "connect"
         /\ \/ OnGotIp /\ Owed'
            \/ (OnStart \/ OnDisconnected) /\ link = "idle" /\ events' = <<>>
<1> USE EventNames DEF history
<1>1. events \in Seq(Event) /\ events # <<>> /\ events' = Tail(events)
  BY DEF EventHandler, WifiIInv, WifiTypeOK, Event
<1>2. FAIL_BIT \notin bits /\ link # "off" /\ main # "connect"
  BY <1>1 DEF WifiIInv, Surrendered, Owed
<1>3. CASE events[1] = GOT_IP
  <2>1. OnGotIp
    BY <1>1, <1>3, Handled DEF EventHandler
  <2>2. UNCHANGED <<link, main>> /\ (FAIL_BIT \in bits' => FAIL_BIT \in bits)
    BY <2>1, BitNames DEF OnGotIp, EventHandler
  <2>3. \A i \in 1..Len(events') : i < Len(events') \/ link # "idle" => events'[i] = GOT_IP
    BY <1>1, Handled DEF WifiIInv, Owed
  <2>4. ASSUME link = "idle" PROVE events' # <<>> /\ events'[Len(events')] # GOT_IP
    <3>1. events[Len(events)] # GOT_IP
      BY <1>2, <2>4 DEF WifiIInv, Owed
    <3>2. Len(events) # 1
      BY <1>3, <3>1
    <3>3. QED
      BY <1>1, <3>1, <3>2, Handled
  <2>5. Owed'
    BY <1>2, <2>2, <2>3, <2>4 DEF Owed, WifiIInv
  <2>6. QED
    BY <1>2, <2>1, <2>5
<1>4. CASE events[1] # GOT_IP
  <2>1. ~(1 < Len(events)) /\ link = "idle"
    BY <1>1, <1>4, Handled DEF WifiIInv, Owed
  <2>2. events' = <<>>
    BY <1>1, <2>1, Handled
  <2>3. OnStart \/ OnDisconnected
    BY <1>1, <1>4, Handled DEF EventHandler
  <2>4. QED
    BY <1>2, <2>1, <2>2, <2>3
<1>5. QED
  BY <1>3, <1>4

\* The station posts an event: an address while it is linked, or a loss.
LEMMA Posting ==
  ASSUME WifiIInv, NEW e \in Event, events' = Append(events, e), UNCHANGED <<bits, main>>,
         link # "idle", main # "connect",
         link' # "off", e = GOT_IP <=> link' # "idle"
  PROVE  Owed'
<1>1. events \in Seq(Event)
  BY DEF WifiIInv, WifiTypeOK, Event
<1>2. \A i \in 1..Len(events) : events'[i] = GOT_IP
  BY <1>1, Posted DEF WifiIInv, Owed
<1>3. \A i \in 1..Len(events') : i < Len(events') \/ e = GOT_IP => events'[i] = GOT_IP
  BY <1>1, <1>2, Posted
<1>4. events' # <<>> /\ events'[Len(events')] = e
  BY <1>1, Posted
<1>5. QED
  BY <1>3, <1>4 DEF Owed

LEMMA WifiStepIInv == WifiIInv /\ [WifiNext]_wifiVars => WifiIInv'
<1> SUFFICES ASSUME WifiIInv, [WifiNext]_wifiVars PROVE Owed' /\ Counted' /\ Surrendered'
  BY WifiStepTyped DEF WifiIInv
<1> USE DEF history
<1>1. CASE WifiStart
  <2>1. main = "connect" /\ link = "off" /\ events = <<>> /\ FAIL_BIT \notin bits
    BY <1>1 DEF WifiStart, WifiIInv, Owed, Surrendered
  <2>2. /\ events' = Append(events, START) /\ link' = "idle" /\ main' = "wait"
        /\ UNCHANGED <<retry, bits, drops>>
    BY <1>1 DEF WifiStart
  <2>3. events' # <<>> /\ Len(events') = 1 /\ events'[1] = START
    BY <2>1, <2>2
  <2>4. QED
    BY <2>1, <2>2, <2>3, EventNames DEF Owed, Counted, Surrendered, WifiIInv
<1>2. CASE WaitBits
  BY <1>2 DEF WaitBits, WifiIInv, WifiTypeOK, Owed, Counted, Surrendered
<1>3. CASE EventHandler
  <2>1. FAIL_BIT \notin bits /\ main # "connect" /\ main' = main
    BY <1>3, Handling DEF EventHandler
  <2>2. CASE OnGotIp /\ Owed'
    BY <2>1, <2>2, BitNames DEF OnGotIp, Counted, Surrendered
  <2>3. CASE OnStart /\ link = "idle" /\ events' = <<>>
    BY <2>1, <2>3 DEF OnStart, Connect, WifiIInv, Owed, Counted, Surrendered
  <2>4. CASE OnDisconnected /\ link = "idle" /\ events' = <<>>
    <3>1. retry = drops /\ retry \in 0..MaximumRetry /\ drops' = drops + 1
      BY <2>1, <2>4 DEF WifiIInv, Counted, WifiTypeOK, OnDisconnected
    <3>2. CASE RetriesLeft /\ Retry
      BY <2>1, <2>4, <3>1, <3>2 DEF Retry, Connect, WifiIInv, Owed, Counted, Surrendered
    <3>3. CASE ~RetriesLeft /\ GiveUp
      <4>1. drops' > MaximumRetry
        BY <3>1, <3>3, WifiStationAssumption DEF RetriesLeft
      <4>2. QED
        BY <2>1, <2>4, <3>3, <4>1 DEF GiveUp, WifiIInv, Owed, Counted, Surrendered
    <3>4. QED
      BY <2>4, <3>2, <3>3 DEF OnDisconnected
  <2>5. QED
    BY <1>3, <2>2, <2>3, <2>4, Handling
<1>4. CASE Associate \/ LoseIp
  BY <1>4 DEF Associate, LoseIp, WifiIInv, Owed, Counted, Surrendered
<1>5. CASE Disconnect
  <2>1. link # "idle" /\ main # "connect" /\ UNCHANGED <<retry, bits, main, drops>>
    BY <1>5 DEF Disconnect, WifiIInv, Owed
  <2>2. Owed'
    <3>1. events' = Append(events, DISCONNECTED) /\ link' = "idle" /\ link' # "off"
      BY <1>5 DEF Disconnect, Posts
    <3>2. DISCONNECTED \in Event /\ DISCONNECTED # GOT_IP
      BY EventNames DEF Event
    <3>3. UNCHANGED <<bits, main>>
      BY <2>1
    <3>4. QED
      BY <2>1, <3>1, <3>2, <3>3, Posting
  <2>3. QED
    BY <2>1, <2>2 DEF WifiIInv, Counted, Surrendered
<1>6. CASE GainIp
  <2>1. link # "idle" /\ main # "connect" /\ UNCHANGED <<retry, bits, main, drops>>
    BY <1>6 DEF GainIp, WifiIInv, Owed
  <2>2. Owed'
    <3>1. events' = Append(events, GOT_IP) /\ link' # "idle" /\ link' # "off"
      BY <1>6 DEF GainIp, Posts
    <3>2. UNCHANGED <<bits, main>>
      BY <2>1
    <3>3. GOT_IP \in Event
      BY DEF Event
    <3>4. QED
      BY <2>1, <3>1, <3>2, <3>3, Posting
  <2>3. QED
    BY <2>1, <2>2 DEF WifiIInv, Counted, Surrendered
<1>7. CASE UNCHANGED wifiVars
  BY <1>7 DEF wifiVars, WifiIInv, Owed, Counted, Surrendered
<1>8. QED
  BY <1>1, <1>2, <1>3, <1>4, <1>5, <1>6, <1>7 DEF WifiNext, AppMain

THEOREM WifiInductive == WifiSpec => []WifiIInv
  BY WifiInitIInv, WifiStepIInv, PTL DEF WifiSpec

\* The station gives up (wifi_connect.c:38) only after more than MAXIMUM_RETRY
\* disconnections since its last address.
THEOREM LateSurrender == WifiSpec => []GivesUpLate
<1>1. WifiIInv => GivesUpLate
  BY DEF WifiIInv, Surrendered, GivesUpLate
<1>2. QED
  BY <1>1, WifiInductive, PTL

\* Having set WIFI_FAIL_BIT it is idle, no event is pending that would make it
\* connect (wifi_connect.c:24-33), and none comes.
THEOREM FinalSurrender == WifiSpec => GivesUpForGood
<1>1. WifiIInv /\ [WifiNext]_wifiVars
      => [{FAIL_BIT} \subseteq bits
          => link' = "idle" /\ events' = <<>> /\ bits' = bits]_wifiVars
  <2> SUFFICES ASSUME WifiIInv, WifiNext, FAIL_BIT \in bits
               PROVE  link' = "idle" /\ events' = <<>> /\ bits' = bits
    OBVIOUS
  <2>1. link = "idle" /\ events = <<>> /\ main # "connect"
    BY DEF WifiIInv, Surrendered, Owed
  <2>2. CASE WaitBits
    BY <2>1, <2>2 DEF WaitBits
  <2>3. QED
    BY <2>1, <2>2 DEF WifiNext, AppMain, WifiStart, EventHandler, Associate, Disconnect, GainIp,
       LoseIp
<1>2. QED
  BY <1>1, WifiInductive, PTL DEF WifiSpec, GivesUpForGood
=============================================================================
