------------------------------ MODULE ImuTask -------------------------------
(***************************************************************************)
(* The IMU side of the STM32 node: the mpu6050 task, the two interrupt     *)
(* callbacks that notify it, the I2C DMA transfers it and the callbacks    *)
(* start, and the queue it fills for the nRF905 task.                      *)
(*                                                                         *)
(* Tasks and interrupts interleave at the points where the task reads or   *)
(* writes something an interrupt or the DMA also touches.  Interrupts do   *)
(* not nest (they share one priority), so a callback is one step.          *)
(***************************************************************************)
EXTENDS Naturals, Sequences

CONSTANTS
  QueueLen,       \* elements of mpu_queue_handle (8 in the code)
  SettlingFrames, \* frames that may still be stale or torn after the regime
                  \* became calm: where the history sinceCalm stops counting
  Regimes         \* how the node may start: {TRUE} calm, and then for ever

ASSUME ImuTaskAssumption ==
  /\ QueueLen \in Nat \ {0}
  /\ SettlingFrames \in Nat
  /\ Regimes \subseteq BOOLEAN

VARIABLES
  pc,         \* where mpu6050_handler stands
  notif,      \* the task's notification record at index 0
  events,     \* the handler's local: the value the last wait returned
  i2c,        \* hi2c1 and the DMA transfer it runs (see I2cStates)
  intStatus,  \* DATA_READY bit of mpu_handle.int_status
  rxBuf,      \* what dma_i2c_rx_buf holds (see Contents)
  queue,      \* the frames in mpu_queue_handle
  sensorOn,   \* the chip was configured and samples
  dataReady,  \* DATA_READY bit of the chip's INT_STATUS register
  calm,       \* environment: samples are slow and the bus has no faults
  sinceCalm   \* history: frames queued since then, up to SettlingFrames

N == INSTANCE RtosNotify

vars == <<pc, notif, events, i2c, intStatus, rxBuf, queue, sensorOn,
          dataReady, calm, sinceCalm>>
taskVars == <<pc, events, queue, sinceCalm>>
chipVars == <<sensorOn, dataReady>>

DR_INT == "IMU_DR_INT"
RX_CPLT == "IMU_I2C_RX_CPLT"
Bits == {DR_INT, RX_CPLT}

\* A frame is one whole sample that was not queued before ("new"), one that
\* was ("old", or the zeroes of the static buffer), or bytes of two samples.
Contents == {"old", "torn", "new"}

\* READY; INT_STATUS being read, and read with the STOP interrupt to come;
\* the payload read started, its bytes arriving, and all of them arrived
\* with the STOP interrupt to come; READY with the DMA channel of a broken
\* transfer still BUSY.
I2cStates ==
  {"ready", "status", "statusDone", "payload", "filling", "payloadDone", "jammed"}

PCs == {"configure", "wait1", "intIsr", "wait2", "check", "read", "wait3", "send"}

TypeOK ==
  /\ pc \in PCs
  /\ notif \in N!Notification(Bits)
  /\ events \subseteq Bits
  /\ i2c \in I2cStates
  /\ intStatus \in BOOLEAN
  /\ rxBuf \in Contents
  /\ queue \in Seq(Contents)
  /\ Len(queue) <= QueueLen
  /\ sensorOn \in BOOLEAN
  /\ dataReady \in BOOLEAN
  /\ calm \in BOOLEAN
  /\ sinceCalm \in 0..SettlingFrames

Init ==
  /\ pc = "configure"
  /\ notif = N!Quiet
  /\ events = {}
  /\ i2c = "ready"
  /\ intStatus = FALSE
  /\ rxBuf = "old"
  /\ queue = <<>>
  /\ sensorOn = FALSE
  /\ dataReady = FALSE
  /\ calm \in Regimes
  /\ sinceCalm = 0

-----------------------------------------------------------------------------
(* The mpu6050 task.                                                       *)

\* MPU_6050_init and MPU_6050_set_mode: polled transfers, the results are
\* ignored, so the chip may be left asleep.
Configure ==
  /\ pc = "configure"
  /\ pc' = "wait1"
  /\ sensorOn' \in BOOLEAN
  /\ UNCHANGED <<notif, events, i2c, intStatus, rxBuf, queue, dataReady, calm, sinceCalm>>

\* xTaskNotifyWait(0, bits, &events, portMAX_DELAY): it blocks without limit ...
WaitBlocks ==
  /\ pc \in {"wait1", "wait2", "wait3"}
  /\ notif.state = "none"
  /\ notif' = N!Block(notif)
  /\ UNCHANGED <<taskVars, chipVars, i2c, intStatus, rxBuf, calm>>

\* ... and any notification at all ends it.
WaitReturns(bits) ==
  /\ N!Received(notif)
  /\ events' = notif.value
  /\ notif' = N!TakeAndClear(notif, bits)
  /\ UNCHANGED <<i2c, intStatus, rxBuf, queue, chipVars, calm, sinceCalm>>

\* The first wait looks at the bit it waits for.
WaitDataReady ==
  /\ pc = "wait1"
  /\ WaitReturns({DR_INT})
  /\ pc' = IF DR_INT \in events' THEN "intIsr" ELSE "wait2"

\* The other two do not: a data-ready edge passes for a completed transfer.
WaitStatus ==
  /\ pc = "wait2"
  /\ WaitReturns({RX_CPLT})
  /\ pc' = "check"

WaitPayload ==
  /\ pc = "wait3"
  /\ WaitReturns({RX_CPLT})
  /\ pc' = "send"

\* HAL_I2C_Mem_Read_DMA takes the bus when it and its DMA channel are READY and
\* is refused otherwise; the start may fail too.  The handler ignores the result.
StartTransferAnyChannel(target) ==
  \/ /\ i2c \in {"ready", "jammed"}
     /\ i2c' = target
  \/ /\ i2c # "ready" \/ ~calm
     /\ UNCHANGED i2c
StartTransfer(target) ==
  \/ /\ i2c = "ready"
     /\ i2c' = target
  \/ /\ i2c # "ready" \/ ~calm
     /\ UNCHANGED i2c

\* MPU_6050_int_isr, called by the task.
IntIsr ==
  /\ pc = "intIsr"
  /\ StartTransfer("status")
  /\ pc' = "wait2"
  /\ UNCHANGED <<notif, events, intStatus, rxBuf, queue, chipVars, calm, sinceCalm>>

\* if(mpu_handle.int_status & 1U): a read of what the DMA and the callback write.
CheckStatus ==
  /\ pc = "check"
  /\ pc' = IF intStatus THEN "read" ELSE "wait3"
  /\ UNCHANGED <<notif, events, i2c, intStatus, rxBuf, queue, chipVars, calm, sinceCalm>>

\* MPU_6050_single_read, called by the task.
SingleRead ==
  /\ pc = "read"
  /\ StartTransfer("payload")
  /\ pc' = "wait3"
  /\ UNCHANGED <<notif, events, intStatus, rxBuf, queue, chipVars, calm, sinceCalm>>

\* The queue has room for one more element.
Room == Len(queue) < QueueLen

\* Parse, then xQueueSendToBack(portMAX_DELAY), which blocks while the queue
\* is full and copies whatever the buffer holds when there is room.
SendFrame ==
  /\ pc = "send"
  /\ Room
  /\ queue' = Append(queue, rxBuf)
  /\ rxBuf' = IF rxBuf = "new" THEN "old" ELSE rxBuf
  /\ sinceCalm' = IF calm /\ sinceCalm < SettlingFrames THEN sinceCalm + 1 ELSE sinceCalm
  /\ pc' = "wait1"
  /\ UNCHANGED <<notif, events, i2c, intStatus, chipVars, calm>>

Task == \/ Configure \/ WaitBlocks \/ WaitDataReady \/ IntIsr \/ WaitStatus
        \/ CheckStatus \/ SingleRead \/ WaitPayload \/ SendFrame

-----------------------------------------------------------------------------
(* The I2C transfers and their interrupts.                                 *)

\* INT_STATUS arrives: reading it clears it in the chip.
StatusArrives ==
  /\ i2c = "status"
  /\ i2c' = "statusDone"
  /\ intStatus' = dataReady
  /\ dataReady' = FALSE
  /\ UNCHANGED <<taskVars, notif, rxBuf, sensorOn, calm>>

\* The first bytes of the payload overwrite the sample in the buffer ...
PayloadFills ==
  /\ i2c = "payload"
  /\ i2c' = "filling"
  /\ rxBuf' = "torn"
  /\ UNCHANGED <<taskVars, notif, intStatus, chipVars, calm>>

\* ... and with the last one the buffer is one sample again.
PayloadArrives ==
  /\ i2c = "filling"
  /\ i2c' = "payloadDone"
  /\ rxBuf' = "new"
  /\ UNCHANGED <<taskVars, notif, intStatus, chipVars, calm>>

\* MPU_6050_i2c_rxcplt_isr in MPU_SINGLE_MODE: a status with DATA_READY set is
\* used up and the payload read is started (which may fail when not calm).
I2cRxCpltIsrNoClear ==
  IF intStatus
  THEN /\ i2c' \in (IF calm THEN {"payload"} ELSE {"payload", "ready"})
       /\ intStatus' = TRUE
  ELSE i2c' = "ready" /\ UNCHANGED intStatus
I2cRxCpltIsrClearsOnly == i2c' = "ready" /\ intStatus' = FALSE
I2cRxCpltIsr ==
  IF intStatus
  THEN /\ i2c' \in (IF calm THEN {"payload"} ELSE {"payload", "ready"})
       /\ intStatus' = FALSE
  ELSE i2c' = "ready" /\ UNCHANGED intStatus

\* HAL_I2C_MemRxCpltCallback: the state is READY again before the callback,
\* the library's handler runs, and in any case the task is notified.
RxCplt ==
  /\ i2c \in {"statusDone", "payloadDone"}
  /\ I2cRxCpltIsr
  /\ notif' = N!Notify(notif, {RX_CPLT})
  /\ UNCHANGED <<taskVars, rxBuf, chipVars, calm>>

\* A NACK of an address byte: the STOP interrupt aborts the DMA transfer, and
\* the application has no error callback, so nobody is told.
Nack ==
  /\ ~calm
  /\ i2c \in {"status", "payload"}
  /\ i2c' = "ready"
  /\ UNCHANGED <<taskVars, notif, intStatus, rxBuf, chipVars, calm>>

\* A bus or an arbitration error: I2C_ITError makes the handle READY, tells
\* nobody either, and leaves the DMA channel BUSY (PreviousState is NONE);
\* nothing in the firmware aborts it.
BusError ==
  /\ ~calm
  /\ i2c \in {"status", "payload", "filling"}
  /\ i2c' = "jammed"
  /\ UNCHANGED <<taskVars, notif, intStatus, rxBuf, chipVars, calm>>

Bus == StatusArrives \/ PayloadFills \/ PayloadArrives \/ RxCplt

-----------------------------------------------------------------------------
(* The chip, the reader of the queue, and the regime.                      *)

\* No transfer runs and the task is blocked, in a wait or on the full queue.
Idle == i2c \in {"ready", "jammed"} /\ (notif.state = "waiting" \/ pc = "send")

\* HAL_GPIO_EXTI_Callback for GPIO_PIN_12.
ExtiCallbackSilent == UNCHANGED notif
ExtiCallback == notif' = N!Notify(notif, {DR_INT})

\* A new sample: the data-ready pulse, and the callback it raises.
\* In the calm regime a sample comes when the previous one was dealt with: the
\* sample period is 16 ms (SMPLRT_DIV 15) and the two transfers take under 1 ms.
DataReadyEdge ==
  /\ sensorOn
  /\ calm => Idle
  /\ dataReady' = TRUE
  /\ ExtiCallback
  /\ UNCHANGED <<taskVars, i2c, intStatus, rxBuf, sensorOn, calm>>

\* xQueueReceive of the nRF905 task.
Drain ==
  /\ queue # <<>>
  /\ queue' = Tail(queue)
  /\ UNCHANGED <<pc, notif, events, i2c, intStatus, rxBuf, chipVars, calm, sinceCalm>>

\* From here on samples are slow against the cycle and the bus works.
Settle ==
  /\ ~calm
  /\ calm' = TRUE
  /\ UNCHANGED <<taskVars, chipVars, notif, i2c, intStatus, rxBuf>>

Next == Task \/ Bus \/ Nack \/ BusError \/ DataReadyEdge \/ Drain \/ Settle

Spec == Init /\ [][Next]_vars

\* The task is scheduled, a started transfer ends, the chip keeps sampling and
\* the queue is drained; faults and the change of regime are never forced.
Fairness ==
  /\ WF_vars(Task)
  /\ WF_vars(Bus)
  /\ SF_vars(DataReadyEdge)
  /\ WF_vars(Drain)

FairSpec == Spec /\ Fairness

-----------------------------------------------------------------------------
(* Properties.                                                             *)

\* A frame enters the queue.
Queued == Len(queue') > Len(queue)

\* Self-stabilisation of the three waits: however early edges, NACKs and refused
\* starts left the task and the transfers, once the regime is calm at most
\* SettlingFrames (three) frames that are stale or torn are queued, and every
\* later one is a whole sample queued for the first time.  A bus error is the
\* one thing the handler does not get over.
Stabilises ==
  [][Queued /\ calm /\ sinceCalm = SettlingFrames /\ i2c # "jammed" => rxBuf = "new"]_vars

\* What a bus error leaves: the task goes on queueing (KeepsQueueing), but after
\* the sample that may still be in the buffer never a new one again, also when
\* the bus works.
JamFreezesFrames ==
  i2c = "jammed" ~> [](rxBuf # "new" /\ \A i \in 1..Len(queue) : queue[i] # "new")

\* One transfer of the payload, from its start to its completed interrupt.
PayloadUnderway ==
  /\ ~intStatus /\ ~dataReady
  /\ <<i2c, rxBuf>> \in {<<"payload", "old">>, <<"filling", "torn">>,
                        <<"payloadDone", "new">>, <<"ready", "new">>}

BusAtRest == i2c = "ready" /\ ~intStatus

\* The handler and its transfers agree on how far the cycle has come: each
\* wait is entered for the event that is going to end it.
InStep ==
  \/ /\ pc = "configure" /\ notif = N!Quiet
     /\ BusAtRest /\ rxBuf = "old" /\ ~dataReady
  \/ /\ pc = "wait1" /\ BusAtRest /\ rxBuf = "old"
     /\ \/ notif.state # "received" /\ notif.value = {} /\ ~dataReady
        \/ notif.value = {DR_INT} /\ dataReady
  \/ /\ pc = "intIsr" /\ notif = N!Quiet
     /\ BusAtRest /\ rxBuf = "old" /\ dataReady
  \/ /\ pc = "wait2" /\ notif.state # "received" /\ notif.value = {} /\ rxBuf = "old"
     /\ \/ i2c = "status" /\ ~intStatus /\ dataReady
        \/ i2c = "statusDone" /\ intStatus /\ ~dataReady
  \/ /\ pc = "wait2" /\ notif = [state |-> "received", value |-> {RX_CPLT}]
     /\ PayloadUnderway
  \/ /\ pc \in {"check", "wait3"} /\ PayloadUnderway
     /\ \/ notif = N!Quiet
        \/ pc = "wait3" /\ notif = N!Block(N!Quiet)
        \/ notif = [state |-> "received", value |-> {RX_CPLT}] /\ i2c = "ready"
  \/ /\ pc = "wait3" /\ notif = [state |-> "received", value |-> {DR_INT}]
     /\ BusAtRest /\ rxBuf = "new" /\ dataReady
  \/ /\ pc = "send" /\ BusAtRest /\ rxBuf = "new"
     /\ \/ notif = N!Quiet /\ ~dataReady
        \/ notif.state # "waiting" /\ notif.value = {DR_INT} /\ dataReady

\* A node that starts into the calm regime, or has once come into step, stays
\* in step for as long as the regime is calm: no order of the task's steps and
\* the interrupts gets it out again.
StaysInStep == [][calm /\ InStep => InStep']_vars

\* The library's workflow: a frame is parsed and forwarded only when the DMA
\* transfer that fills it has completed (README of mpu6050_lib, steps 5 to 7).
ForwardAfterCompletion == pc = "send" => i2c \notin {"payload", "filling"}

\* No sequence of lost completions, early edges and broken transfers parks the
\* task for good: while the chip samples, the handler gets to the queue again and
\* again (each wait is ended by the next edge at the latest).
KeepsQueueing == sensorOn ~> (pc = "send")

\* And in the calm regime what it gets there with is again and again a sample
\* that was not queued before, unless a bus error has come before.
FreshFrames ==
  (calm /\ sensorOn /\ i2c # "jammed") ~> (pc = "send" /\ rxBuf = "new")
=============================================================================
