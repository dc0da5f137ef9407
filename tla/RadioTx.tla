------------------------------ MODULE RadioTx -------------------------------
(***************************************************************************)
(* The radio side of the STM32 node: the nRF905 task takes a frame from    *)
(* the queue, nrf905_send loads it into the chip and raises CE, polls the  *)
(* flag "finished" for a bounded time, and the task then waits without a   *)
(* bound for the notification that the DR interrupt gives along with it.   *)
(* An SPI call is one step here; SpiBus shows what its result is worth.    *)
(***************************************************************************)
EXTENDS Naturals, Sequences

CONSTANTS
  Frames,     \* what the queue holds
  QueueLen,   \* elements of mpu_queue_handle (8 in the code)
  PollLimit,  \* polls of 1 ms in nrf905_send (5000 in the code)
  Faults,     \* what may go wrong, a subset of FaultKinds
  Nothing     \* not a frame

\* nrf905_init or write_conf fails; the write of the TX address fails; the
\* write of the payload fails; it returns 0 by an earlier transfer's completion.
FaultKinds == {"init", "address", "write", "late"}

ASSUME RadioTxAssumption ==
  /\ QueueLen \in Nat \ {0}
  /\ PollLimit \in Nat \ {0}
  /\ Faults \subseteq FaultKinds
  /\ Nothing \notin Frames

VARIABLES
  pc,         \* where nrf905_handler and the nrf905_send it calls stand
  notif,      \* the task's notification record at index 0
  queue,      \* the frames in mpu_queue_handle
  buf,        \* the handler's buffer: the frame being sent
  inited,     \* rf_handle.inited
  addressed,  \* the chip has the gateway's address as its TX address
  payload,    \* the chip's TX payload register
  chip,       \* "idle", or whose packet it transmits: see Init and Receive
  finished,   \* rf_handle.finished
  polls,      \* polls left in nrf905_send
  result,     \* what the last nrf905_send returned
  aired       \* history: the packet transmitted in full since the last receive

N == INSTANCE RtosNotify

vars == <<pc, notif, queue, buf, inited, addressed, payload, chip, finished,
          polls, result, aired>>
handle == <<inited, addressed>>

DR_INT == "NRF905_DR_INT"

PCs == {"init", "receive", "load", "clear", "raise", "poll", "waitDr"}
Results == {0, 1, 3, 5}

TypeOK ==
  /\ pc \in PCs
  /\ notif \in N!Notification({DR_INT})
  /\ queue \in Seq(Frames)
  /\ Len(queue) <= QueueLen
  /\ buf \in Frames \cup {Nothing}
  /\ inited \in BOOLEAN
  /\ addressed \in BOOLEAN
  /\ payload \in Frames \cup {Nothing}
  /\ chip \in {"idle", "own", "earlier"}
  /\ finished \in BOOLEAN
  /\ polls \in 0..PollLimit
  /\ result \in Results
  /\ aired \in Frames \cup {Nothing}

Init ==
  /\ pc = "init"
  /\ notif = N!Quiet
  /\ queue = <<>>
  /\ buf = Nothing
  /\ inited = FALSE
  /\ addressed = FALSE
  /\ payload = Nothing
  /\ chip = "idle"
  /\ finished = FALSE
  /\ polls = 0
  /\ result = 0
  /\ aired = Nothing

-----------------------------------------------------------------------------
(* The nrf905 task.                                                        *)

\* nrf905_device_init, which deinitialises the handle when a step of it fails,
\* and nrf905_set_tx_address; the handler ignores both results.
DeviceInit ==
  /\ pc = "init"
  /\ inited' \in {TRUE} \cup (IF "init" \in Faults THEN {FALSE} ELSE {})
  /\ addressed' \in {inited'} \cup (IF "address" \in Faults THEN {FALSE} ELSE {})
  /\ pc' = "receive"
  /\ UNCHANGED <<notif, queue, buf, payload, chip, finished, polls, result, aired>>

\* Where the handler goes after send_data, whatever it returned.
AfterSendSkips(res) == IF res = 0 THEN "waitDr" ELSE "receive"
AfterSend(res) == "waitDr"

\* xQueueReceive(portMAX_DELAY), the timestamp, and the entry of nrf905_send:
\* an uninitialised handle is refused; the frame's length is the configured one.
Receive ==
  /\ pc = "receive"
  /\ queue # <<>>
  /\ buf' = Head(queue)
  /\ queue' = Tail(queue)
  /\ aired' = Nothing
  /\ chip' = IF chip = "own" THEN "earlier" ELSE chip
  /\ IF inited
     THEN pc' = "load" /\ UNCHANGED result
     ELSE pc' = AfterSend(3) /\ result' = 3
  /\ UNCHANGED <<notif, handle, payload, finished, polls>>

\* The SPI write of the payload.
Load ==
  /\ pc = "load"
  /\ payload' = buf
  /\ pc' = "clear"
  /\ UNCHANGED <<notif, queue, buf, handle, chip, finished, polls, result, aired>>

\* It fails, and may have written the payload, a part of it or none of it.
LoadFails ==
  /\ pc = "load"
  /\ "write" \in Faults
  /\ payload' \in {payload, buf, Nothing}
  /\ result' = 1
  /\ pc' = AfterSend(1)
  /\ UNCHANGED <<notif, queue, buf, handle, chip, finished, polls, aired>>

\* The notification of an earlier transfer passes for its own, which chip select
\* then cuts short.
LoadMissed ==
  /\ pc = "load"
  /\ "late" \in Faults
  /\ payload' \in {payload, buf, Nothing}
  /\ pc' = "clear"
  /\ UNCHANGED <<notif, queue, buf, handle, chip, finished, polls, result, aired>>

ClearNothing == UNCHANGED finished
ClearFinished == finished' = FALSE

\* handle->finished = 0, before CE is raised.
Clear ==
  /\ pc = "clear"
  /\ ClearFinished
  /\ pc' = "raise"
  /\ UNCHANGED <<notif, queue, buf, handle, payload, chip, polls, result, aired>>

\* CE high: an idle chip starts to transmit its payload.
RaiseCe ==
  /\ pc = "raise"
  /\ chip' = IF chip = "idle" THEN "own" ELSE chip
  /\ polls' = PollLimit
  /\ pc' = "poll"
  /\ UNCHANGED <<notif, queue, buf, handle, payload, finished, result, aired>>

PollsLeft == polls # 0

\* One turn of the loop: the delay of 1 ms, and timeout--.
Poll ==
  /\ pc = "poll"
  /\ PollsLeft /\ ~finished
  /\ polls' = polls - 1
  /\ UNCHANGED <<pc, notif, queue, buf, handle, payload, chip, finished, result, aired>>

\* The loop ends; CE low (a packet in the air is completed all the same); the
\* timeout is looked at before the flag.
PollEnds ==
  /\ pc = "poll"
  /\ polls = 0 \/ finished
  /\ result' = IF polls = 0 THEN 5 ELSE 0
  /\ pc' = AfterSend(result')
  /\ UNCHANGED <<notif, queue, buf, handle, payload, chip, finished, polls, aired>>

\* xTaskNotifyWaitIndexed(DR, portMAX_DELAY), after every send.
WaitBlocks ==
  /\ pc = "waitDr"
  /\ notif.state = "none"
  /\ notif' = N!Block(notif)
  /\ UNCHANGED <<pc, queue, buf, handle, payload, chip, finished, polls, result, aired>>

WaitReturns ==
  /\ pc = "waitDr"
  /\ N!Received(notif)
  /\ notif' = N!TakeAndClear(notif, {DR_INT})
  /\ pc' = "receive"
  /\ UNCHANGED <<queue, buf, handle, payload, chip, finished, polls, result, aired>>

Task == \/ DeviceInit \/ Receive \/ Load \/ LoadFails \/ LoadMissed \/ Clear
        \/ RaiseCe \/ Poll \/ PollEnds \/ WaitBlocks \/ WaitReturns

-----------------------------------------------------------------------------
(* The chip and the task that fills the queue.                             *)

ExtiCallbackSilent == finished' = TRUE /\ UNCHANGED notif
ExtiCallback == finished' = TRUE /\ notif' = N!Notify(notif, {DR_INT})

\* The last bit of the packet is out: DR rises, HAL_GPIO_EXTI_Callback.
DrEdge ==
  /\ chip # "idle"
  /\ chip' = "idle"
  /\ aired' = IF chip = "own" /\ addressed THEN payload ELSE aired
  /\ ExtiCallback
  /\ UNCHANGED <<pc, queue, buf, handle, payload, polls, result>>

\* The IMU task's xQueueSendToBack, which waits for room.
Put(f) ==
  /\ Len(queue) < QueueLen
  /\ queue' = Append(queue, f)
  /\ UNCHANGED <<pc, notif, buf, handle, payload, chip, finished, polls, result, aired>>

Next == Task \/ DrEdge \/ \E f \in Frames : Put(f)

Spec == Init /\ [][Next]_vars

\* The task is scheduled, and a packet in the air comes to its end.
FairSpec == Spec /\ WF_vars(Task) /\ WF_vars(DrEdge)

-----------------------------------------------------------------------------
(* Properties.                                                             *)

\* While a frame is loaded and CE raised, no earlier packet is in the air: a
\* timed-out send is waited out before the next frame touches the chip.
OneOnAir == pc \in {"load", "clear", "raise"} => chip = "idle"

\* The flag and the notification, set by the same interrupt and consumed at
\* different places, tell of one and the same packet: the wait after a send
\* never takes the DR of another frame, and a flag left set from the previous
\* frame never ends the next one's polling.
DrTellsOfThisFrame ==
  /\ pc = "poll" /\ finished => chip = "idle" /\ N!Received(notif)
  /\ pc \in {"receive", "load", "clear", "raise"} => ~N!Received(notif)
  /\ pc = "waitDr" /\ result \in {0, 5} => (chip = "idle" <=> N!Received(notif))

\* Whatever fails elsewhere, a send that returns 0 has put all that the chip held
\* on the air, to the gateway if the chip knew its address: what the result does
\* not tell is whether that was the frame, and whether the address was written.
SentMeansAired ==
  pc = "waitDr" /\ result = 0 => aired = IF addressed THEN payload ELSE Nothing

Failed == pc = "waitDr" /\ result \in {1, 3}

\* The task that has failed to hand a frame to the chip never gets past the
\* wait for the DR edge of that frame: the failure is the node's last act.
FailedSendIsFinal == [][Failed => pc' = "waitDr" /\ chip' = "idle"]_vars

\* Unless a send fails, the queue is read again and again while it holds a frame,
\* and every frame read from it gets on the air, to the gateway's address; only
\* an address that was not written, or a payload the bus has cut, is in the way.
QueuedIsAired ==
  /\ (queue # <<>>) ~> (pc = "load" \/ Failed)
  /\ \A f \in Frames :
       (pc = "load" /\ buf = f)
         ~> (aired = f \/ Failed \/ ~addressed \/ (pc = "waitDr" /\ payload # buf))
=============================================================================
