------------------------------- MODULE SpiBus -------------------------------
(***************************************************************************)
(* One SPI call of the STM32's nRF905 interface at a time: the task starts *)
(* a full-duplex DMA transfer, sleeps on its notification record of index  *)
(* 1 for at most 100 ms, and is woken by the SPI callbacks.  The three     *)
(* entry points differ in what they return when the wait ends without a    *)
(* bit in the value.                                                       *)
(*                                                                         *)
(* What the bytes are is left out, and with it what an error leaves in the *)
(* FIFOs of the peripheral, except for the interrupts it can still raise.  *)
(***************************************************************************)
EXTENDS Naturals

VARIABLES
  pc,        \* "idle" between calls, else where the call stands
  op,        \* the entry point of the call
  notif,     \* the nRF905 task's notification record at index 1
  events,    \* the call's local: the value the wait returned
  dma,       \* hspi1 and its two DMA channels (see DmaStates)
  cs,        \* chip select
  done,      \* history: this call's transfer ended, with CS low throughout
  ret,       \* what the last call returned
  filled,    \* the last read copied the received bytes to its caller
  residue,   \* a DMA error left bytes in the FIFOs
  late       \* history: an SPI callback ran when no call was waiting for it

N == INSTANCE RtosNotify

spiVars == <<pc, op, notif, events, dma, cs, done, ret, filled, residue, late>>

CPLT == "NRF905_SPI_TXRX_CPLT"
ERROR == "NRF905_SPI_ERROR"
ABORT == "NRF905_SPI_ABORT"
Bits == {CPLT, ERROR, ABORT}

Ops == {"read", "write", "transmit"}

\* READY; busy with this or an earlier call's transfer; READY with the TX channel
\* still BUSY; and BUSY_TX_RX with RX armed and that TX channel refused.
DmaStates == {"ready", "own", "earlier", "stuck", "armed"}
Clocking == dma \in {"own", "earlier"}
Stuck == dma \in {"stuck", "armed"}

SpiTypeOK ==
  /\ pc \in {"idle", "start", "wait", "abort", "finish"}
  /\ op \in Ops
  /\ notif \in N!Notification(Bits)
  /\ events \subseteq Bits
  /\ dma \in DmaStates
  /\ cs \in {"low", "high"}
  /\ done \in BOOLEAN
  /\ ret \in {0, 1}
  /\ filled \in BOOLEAN
  /\ residue \in BOOLEAN
  /\ late \in BOOLEAN

SpiInit ==
  /\ pc = "idle"
  /\ op = "write"
  /\ notif = N!Quiet
  /\ events = {}
  /\ dma = "ready"
  /\ cs = "high"
  /\ done = TRUE
  /\ ret = 0
  /\ filled = TRUE
  /\ residue = FALSE
  /\ late = FALSE

-----------------------------------------------------------------------------

\* ulTaskNotifyValueClearIndexed at the start of a call: bits, not state.
ClearStale == notif' = N!ValueClear(notif, Bits)

\* The driver calls with a buffer and a length that fits the static tx buffer.
Call(o) ==
  /\ pc = "idle"
  /\ op' = o
  /\ ClearStale
  /\ events' = {}
  /\ dma' = IF dma = "own" THEN "earlier" ELSE dma
  /\ done' = FALSE
  /\ filled' = FALSE
  /\ pc' = "start"
  /\ UNCHANGED <<cs, ret, residue, late>>

\* Chip select low and HAL_SPI_TransmitReceive_DMA, which takes a READY bus with
\* both channels READY.
StartTransfer ==
  /\ pc = "start"
  /\ dma = "ready"
  /\ dma' = "own"
  /\ cs' = "low"
  /\ residue' = FALSE
  /\ pc' = "wait"
  /\ UNCHANGED <<op, notif, events, done, ret, filled, late>>

\* It is BUSY, or arms RX and is refused TX, which leaves it BUSY: error exit.
StartRefused ==
  /\ pc = "start"
  /\ dma # "ready"
  /\ dma' = IF dma = "stuck" THEN "armed" ELSE dma
  /\ cs' = "high"
  /\ ret' = 1
  /\ pc' = "idle"
  /\ UNCHANGED <<op, notif, events, done, filled, residue, late>>

WaitBlocks ==
  /\ pc = "wait"
  /\ notif.state = "none"
  /\ notif' = N!Block(notif)
  /\ UNCHANGED <<pc, op, events, dma, cs, done, ret, filled, residue, late>>

WaitReturns ==
  /\ pc = "wait"
  /\ N!Received(notif)
  /\ events' = notif.value
  /\ notif' = N!TakeAndClear(notif, Bits)
  /\ pc' = "finish"
  /\ UNCHANGED <<op, dma, cs, done, ret, filled, residue, late>>

WaitsForEver == FALSE

\* 100 ms without a notification.
WaitTimesOut ==
  /\ pc = "wait"
  /\ notif.state = "waiting"
  /\ notif' = N!GiveUp(notif)
  /\ events' = notif.value
  /\ pc' = "abort"
  /\ UNCHANGED <<op, dma, cs, done, ret, filled, residue, late>>

\* HAL_SPI_Abort stops the transfer without a callback, but passes over a channel
\* whose request an error has already switched off; then the error exit.
NoAbort == UNCHANGED dma
AbortBothChannels == dma' = "ready"
AbortTransfer == dma' = IF Stuck THEN "stuck" ELSE "ready"
Abort ==
  /\ pc = "abort"
  /\ AbortTransfer
  /\ cs' = "high"
  /\ ret' = 1
  /\ pc' = "idle"
  /\ UNCHANGED <<op, notif, events, done, filled, residue, late>>

CodeOnlyCplt(o, bits) == IF CPLT \in bits \/ o = "read" THEN 0 ELSE 1
\* The result by the bits of the value: without any of them a read succeeds
\* (and copies nothing) and the other two fail.
Code(o, bits) ==
  IF ABORT \in bits \/ ERROR \in bits THEN 1
  ELSE IF CPLT \in bits \/ o = "read" THEN 0 ELSE 1

Finish ==
  /\ pc = "finish"
  /\ cs' = "high"
  /\ ret' = Code(op, events)
  /\ filled' = (op = "read" /\ ret' = 0 /\ CPLT \in events)
  /\ pc' = "idle"
  /\ UNCHANGED <<op, notif, events, dma, done, residue, late>>

Task == (\E o \in Ops : Call(o)) \/ StartTransfer \/ StartRefused \/ WaitBlocks
        \/ WaitReturns \/ WaitTimesOut \/ Abort \/ Finish

\* The rest of a call that has begun.
Proceed == pc # "idle" /\ Task

-----------------------------------------------------------------------------

\* An SPI callback notifies the task.
Callback(bit) ==
  /\ notif' = N!Notify(notif, {bit})
  /\ late' = (late \/ pc # "wait")
  /\ UNCHANGED <<pc, op, events, cs, ret, filled>>

\* The last byte was clocked: READY again, HAL_SPI_TxRxCpltCallback.
TxRxCplt ==
  /\ Clocking
  /\ dma' = "ready"
  /\ done' = IF dma = "own" THEN cs = "low" ELSE done
  /\ Callback(CPLT)
  /\ UNCHANGED residue

\* An overrun or a mode fault aborts both channels, and an error at the end of
\* the transaction finds them done: READY again, HAL_SPI_ErrorCallback.
BusError ==
  /\ Clocking
  /\ dma' = "ready"
  /\ Callback(ERROR)
  /\ UNCHANGED <<done, residue>>

\* SPI_DMAError of the RX channel: READY again and HAL_SPI_ErrorCallback, but the
\* TX channel, its requests now switched off, stays BUSY unless it was done.
DmaError ==
  /\ Clocking
  /\ dma' \in {"ready", "stuck"}
  /\ residue' = TRUE
  /\ Callback(ERROR)
  /\ UNCHANGED done

\* What it left in the FIFOs overruns them, or completes an armed RX channel; the
\* refused start has set ErrorCode, so either is HAL_SPI_ErrorCallback.
ResidueEnds ==
  /\ residue /\ ~Clocking
  /\ dma' = IF dma = "armed" THEN "stuck" ELSE dma
  /\ residue' = FALSE
  /\ Callback(ERROR)
  /\ UNCHANGED done

SpiNext == Task \/ TxRxCplt \/ BusError \/ DmaError \/ ResidueEnds

\* The task is scheduled and its 100 ms run out; the transfer need not end.
SpiSpec == SpiInit /\ [][SpiNext]_spiVars /\ WF_spiVars(Proceed)

-----------------------------------------------------------------------------
(* Properties.                                                             *)

\* What the comments on the three entry points say of status code 0: the
\* call's bytes were exchanged (and a read has handed them over).
SuccessMeansDone ==
  pc = "idle" /\ ret = 0 => done /\ (op = "read" => filled)

\* The only thing that makes a call report another call's transfer is a callback
\* that no call was waiting for: a transfer that ended between a timeout and its
\* abort, or the rest of one that a DMA error cut short.
SuccessMeansDoneUnlessLate == late \/ SuccessMeansDone

\* Without such a callback no transfer and no notification outlives its call,
\* whatever mix of errors, timeouts and refused starts came before.  What a DMA
\* error leaves BUSY does, but it clocks nothing.
NothingLeftBehind ==
  pc \in {"idle", "start"} /\ ~late => ~Clocking /\ notif.state = "none"

\* Chip select is never released under a transfer that still clocks bytes,
\* unless an earlier late callback woke the call too soon.
SelectHeld == Clocking /\ ~late => cs = "low"

\* A TX channel that a DMA error left BUSY stays so: whatever the calls do from
\* then on, no abort and no refused start frees it, and none of them succeeds.
StuckForGood ==
  [][Stuck => Stuck' /\ (pc = "start" /\ pc' # "start" => pc' = "idle" /\ ret' = 1)]_spiVars

\* Every call returns, also when the transfer never ends: the wait is bounded.
CallReturns == (pc = "start") ~> (pc = "idle")
=============================================================================
