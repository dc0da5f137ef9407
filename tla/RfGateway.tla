----------------------------- MODULE RfGateway ------------------------------
(***************************************************************************)
(* The ESP32 gateway: the nRF905 task, which reads a payload when the DR   *)
(* interrupt has notified it and queues it, and the UDP client, which      *)
(* sends what it finds in the queue, or a heartbeat of zeroes.             *)
(*                                                                         *)
(* A frame is its timestamp: the n-th packet of the node has timestamp n,  *)
(* and 0 is the content of the buffers at start.                           *)
(***************************************************************************)
EXTENDS Integers, Sequences

CONSTANTS
  QueueLen,  \* elements of rf_queue_handle (8 in the code)
  MaxSent    \* packets the node transmits (a bound of the model)

ASSUME RfGatewayAssumption ==
  /\ QueueLen \in Nat \ {0}
  /\ MaxSent \in Nat

VARIABLES
  sent,       \* packets the node has transmitted
  listening,  \* the receiver is configured
  drEnabled,  \* the DR interrupt is installed
  chip,       \* the packet in the receiver, its DR line high; 0 if none
  pc,         \* where nrf905_task_handler stands
  notif,      \* the nrf905 task's notification record
  rxData,     \* the static buffer rx_data
  queue,      \* rf_queue_handle
  parsed,     \* the client's parsed_payload: its timestamp, sample or zeroes
  received,   \* the last datagram that reached the network
  readFailed  \* the last read of the payload failed (a history)

N == INSTANCE RtosNotify

device == <<listening, drEnabled>>
client == <<parsed, received>>
vars == <<sent, device, chip, pc, notif, rxData, queue, client, readFailed>>

DR == "DR_EVENT"
AM == "AM_EVENT"
CD == "CD_EVENT"
Events == {DR, AM, CD}

Timestamps == 0..MaxSent
Samples == [timestamp : Timestamps, zeroes : BOOLEAN]

TypeOK ==
  /\ sent \in Timestamps
  /\ listening \in BOOLEAN
  /\ drEnabled \in BOOLEAN
  /\ chip \in Timestamps
  /\ pc \in {"init", "wait", "read", "queue"}
  /\ notif \in N!Notification(Events)
  /\ rxData \in Timestamps
  /\ queue \in Seq(Timestamps)
  /\ Len(queue) <= QueueLen
  /\ parsed \in Samples
  /\ received \in Samples
  /\ readFailed \in BOOLEAN

Init ==
  /\ sent = 0
  /\ listening = FALSE
  /\ drEnabled = FALSE
  /\ chip = 0
  /\ pc = "init"
  /\ notif = N!Quiet
  /\ rxData = 0
  /\ queue = <<>>
  /\ parsed = [timestamp |-> 0, zeroes |-> TRUE]
  /\ received = parsed
  /\ readFailed = FALSE

-----------------------------------------------------------------------------
(* The nRF905 task.                                                        *)

\* The GPIO interrupts and nrf905_device_init: errors are only logged.
DeviceInit ==
  /\ pc = "init"
  /\ listening' \in BOOLEAN /\ drEnabled' \in BOOLEAN
  /\ pc' = "wait"
  /\ UNCHANGED <<sent, chip, notif, rxData, queue, client, readFailed>>

WaitBlocks ==
  /\ pc = "wait"
  /\ notif.state = "none"
  /\ notif' = N!Block(notif)
  /\ UNCHANGED <<sent, device, chip, pc, rxData, queue, client, readFailed>>

\* 5 s without a notification: an error is logged, the loop goes on.
WaitTimesOut ==
  /\ pc = "wait"
  /\ notif.state = "waiting"
  /\ notif' = N!GiveUp(notif)
  /\ UNCHANGED <<sent, device, chip, pc, rxData, queue, client, readFailed>>

\* Only DR makes the handler do something.
ReadsOn == DR \in notif.value

WaitReturns ==
  /\ pc = "wait"
  /\ N!Received(notif)
  /\ pc' = IF ReadsOn THEN "read" ELSE "wait"
  /\ notif' = N!TakeAndClear(notif, Events)
  /\ UNCHANGED <<sent, device, chip, rxData, queue, client, readFailed>>

\* nrf905_get_rx_payload: with the last byte read DR falls.
KeepOld == UNCHANGED rxData
TakePayload == rxData' = chip
ReadPayload ==
  /\ pc = "read"
  /\ TakePayload
  /\ chip' = 0
  /\ readFailed' = FALSE
  /\ pc' = "queue"
  /\ UNCHANGED <<sent, device, notif, queue, client>>

\* It fails, before or after the bytes were clocked out of the chip; the buffer
\* keeps what it holds, and the handler goes on as if it had succeeded.
ReadFails ==
  /\ pc = "read"
  /\ chip' \in {chip, 0}
  /\ readFailed' = TRUE
  /\ pc' = "queue"
  /\ UNCHANGED <<sent, device, notif, rxData, queue, client>>

Room == Len(queue) < QueueLen

\* xQueueSendToBack(10 ms).
QueueFrame ==
  /\ pc = "queue"
  /\ Room
  /\ queue' = Append(queue, rxData)
  /\ pc' = "wait"
  /\ UNCHANGED <<sent, device, chip, notif, rxData, client, readFailed>>

\* The queue stayed full for 10 ms: the frame is dropped.
QueueFull ==
  /\ pc = "queue"
  /\ ~Room
  /\ pc' = "wait"
  /\ UNCHANGED <<sent, device, chip, notif, rxData, queue, client, readFailed>>

RfTask == \/ DeviceInit \/ WaitBlocks \/ WaitTimesOut \/ WaitReturns
          \/ ReadPayload \/ ReadFails \/ QueueFrame \/ QueueFull

-----------------------------------------------------------------------------
(* The UDP client.                                                         *)

\* sendto, an error of which is only logged; the datagram may get lost anyway.
Send(payload) == received' \in {received, payload}

\* xQueueReceive, parse_payload, sendto.
SendSample ==
  /\ queue # <<>>
  /\ parsed' = [timestamp |-> Head(queue), zeroes |-> FALSE]
  /\ queue' = Tail(queue)
  /\ Send(parsed')
  /\ UNCHANGED <<sent, device, chip, pc, notif, rxData, readFailed>>

\* memset of the seven words of data, not of the timestamp that follows them.
ZeroAll(p) == [timestamp |-> 0, zeroes |-> TRUE]
ZeroData(p) == [p EXCEPT !.zeroes = TRUE]

\* 1 s with an empty queue: zeroes with the timestamp of the last sample.
SendHeartbeat ==
  /\ queue = <<>>
  /\ parsed' = ZeroData(parsed)
  /\ Send(parsed')
  /\ UNCHANGED <<sent, device, chip, pc, notif, rxData, queue, readFailed>>

-----------------------------------------------------------------------------
(* The radio.                                                              *)

\* rf_dr_isr, on the rising edge of the line.
DrIsrNoOverwrite == notif' = IF N!Received(notif) THEN notif ELSE N!Notify(notif, {DR})
DrIsr == notif' = N!Notify(notif, {DR})

\* A packet reaches a listening receiver whose last one was read.
PacketArrives ==
  /\ sent < MaxSent
  /\ sent' = sent + 1
  /\ listening /\ chip = 0
  /\ chip' = sent'
  /\ IF drEnabled THEN DrIsr ELSE UNCHANGED notif
  /\ UNCHANGED <<device, pc, rxData, queue, client, readFailed>>

\* It is lost on the air, or finds DR still high: the receiver then keeps its
\* packet or takes the new one, and the line does not rise either way.
PacketWithoutEdge ==
  /\ sent < MaxSent
  /\ sent' = sent + 1
  /\ chip' = chip \/ (chip # 0 /\ chip' = sent')
  /\ UNCHANGED <<device, pc, notif, rxData, queue, client, readFailed>>

\* rf_am_isr and rf_cd_isr: an address match, or any carrier on the channel.
CarrierEdge(e) ==
  /\ e \in {AM, CD}
  /\ notif' = N!Notify(notif, {e})
  /\ UNCHANGED <<sent, device, chip, pc, rxData, queue, client, readFailed>>

Next == \/ RfTask \/ SendSample \/ SendHeartbeat
        \/ PacketArrives \/ PacketWithoutEdge
        \/ \E e \in {AM, CD} : CarrierEdge(e)

Spec == Init /\ [][Next]_vars

\* Both tasks are scheduled; nothing makes packets come.
FairSpec == Spec /\ WF_vars(RfTask) /\ WF_vars(SendSample)

-----------------------------------------------------------------------------
(* Properties.                                                             *)

\* From the antenna to the network time never runs backwards, whatever is lost,
\* fails or is repeated: viewers take differences of these timestamps.
TimestampsNeverDecrease == [][received'.timestamp >= received.timestamp]_vars

\* The gateway relays the node's packets to the network: every datagram carries
\* the time of a packet that was sent, later ones never that of an earlier one.
Network == INSTANCE Relay WITH
  Receiver <- {"udp"}, shown <- [r \in {"udp"} |-> received.timestamp]
RelaysPackets == Network!Spec

\* A frame that is queued behind a read that worked is newer than all those
\* queued or forwarded before, whatever failed earlier.  Only directly after a
\* failed read is the last frame queued once more.
SamplesAreNew ==
  [][queue' = Append(queue, rxData) /\ ~readFailed
     => /\ parsed.timestamp < rxData
        /\ \A i \in 1..Len(queue) : queue[i] < rxData]_vars

\* DR is high and nobody is going to read it: its edge was used up.
Deaf == chip # 0 /\ pc # "read" /\ DR \notin notif.value

\* Only a failed read makes a gateway with its DR interrupt deaf.
HearsUnlessReadFails == Deaf => readFailed \/ ~drEnabled

\* And a deaf gateway stays deaf: no packet raises the line again, and neither
\* the other two interrupts nor the time-out make the task look at the chip.
DeafIsFinal == [][Deaf => Deaf']_vars

\* A received packet is taken out of the chip, whatever carriers and time-outs
\* come in between, and the receiver is free for the next one, unless the read
\* of this packet fails and makes the gateway deaf.
PacketsAreRead ==
  (chip # 0 /\ drEnabled) ~> (chip = 0 \/ (Deaf /\ readFailed))
=============================================================================
