---------------------------- MODULE Mpu6050Burst ----------------------------
(***************************************************************************)
(* The burst mode of the MPU-6050 library: the template interrupt handlers *)
(* chain DMA reads of INT_STATUS, FIFO_COUNT and the FIFO, while the main  *)
(* program resets the FIFO after an overflow.  The firmware links these    *)
(* handlers and runs them in the single-sample mode (module ImuTask).      *)
(*                                                                         *)
(* The FIFO is counted in samples.  An interrupt handler is one step.      *)
(***************************************************************************)
EXTENDS Integers

CONSTANTS
  Capacity,     \* samples the sensor's FIFO holds
  BURST_COUNT,  \* the macro that init copies to the handle
  burst_count,  \* the field of the handle, which the user may have changed
  BusFails      \* whether a transfer may end in an error

ASSUME Mpu6050BurstAssumption ==
  /\ {Capacity, BURST_COUNT, burst_count} \subseteq Nat \ {0}
  /\ BURST_COUNT <= Capacity /\ burst_count <= Capacity
  /\ BusFails \in BOOLEAN

VARIABLES
  fifo,        \* samples in the FIFO
  enabled,     \* USER_CTRL.FIFO_EN
  overflowed,  \* FIFO_OFLOW in the sensor's INT_STATUS
  pulse,       \* an edge of the INT pin waits for its handler
  transfer,    \* the read that has the I2C peripheral
  raw,         \* fifo_count_raw
  fifo_count,
  fifo_oflow_flag,
  bus_status,  \* the lock of the bus
  reset        \* where MPU_6050_fifo_reset is

sensor == <<fifo, enabled, overflowed, pulse>>
flags == <<raw, fifo_count, fifo_oflow_flag>>
burstVars == <<sensor, transfer, flags, bus_status, reset>>

BurstTypeOK ==
  /\ fifo \in 0..Capacity /\ raw \in 0..Capacity /\ fifo_count \in 0..Capacity
  /\ {enabled, overflowed, pulse, fifo_oflow_flag, bus_status} \subseteq BOOLEAN
  /\ transfer \in {"idle", "status", "count", "burst", "jammed"}
  /\ reset \in {"idle", "wait", "off", "on"}

\* After MPU_6050_init and MPU_6050_set_mode(MPU_BURST_MODE).
BurstInit ==
  /\ fifo = 0 /\ enabled = TRUE /\ overflowed = FALSE /\ pulse = FALSE
  /\ transfer = "idle"
  /\ raw = 0 /\ fifo_count = 0 /\ fifo_oflow_flag = FALSE
  /\ bus_status = FALSE /\ reset = "idle"

-----------------------------------------------------------------------------
(* The sensor.                                                             *)

\* A full FIFO drops its oldest sample and raises the interrupt every time.
Sample ==
  /\ enabled
  /\ IF fifo < Capacity
     THEN fifo' = fifo + 1 /\ UNCHANGED <<overflowed, pulse>>
     ELSE fifo' = fifo /\ overflowed' = TRUE /\ pulse' = TRUE
  /\ UNCHANGED <<enabled, transfer, flags, bus_status, reset>>

-----------------------------------------------------------------------------
(* Interrupts.                                                             *)

\* A read is refused while the bus is locked, or busy with another one, or
\* after a bus error, which leaves the DMA channel busy for ever.
ReadAdmittedLocked == transfer = "idle"
ReadAdmittedBusy == ~bus_status
ReadAdmitted == ~bus_status /\ transfer = "idle"

\* MPU_6050_int_isr.  A refused one is not repeated.
IntIsr ==
  /\ pulse /\ pulse' = FALSE
  /\ transfer' = IF ReadAdmitted THEN "status" ELSE transfer
  /\ UNCHANGED <<fifo, enabled, overflowed, flags, bus_status, reset>>

\* The user's timer calls MPU_6050_read_fifo_cnt.
Timer ==
  /\ transfer' = IF ReadAdmitted THEN "count" ELSE transfer
  /\ UNCHANGED <<sensor, flags, bus_status, reset>>

\* MPU_6050_burst_read, called when the transfer before it has ended.
BurstRead == transfer' = IF bus_status THEN "idle" ELSE "burst"

\* MPU_6050_i2c_rxcplt_isr, which every kind of transfer ends in: the count
\* comes from the raw bytes of the last count read.
Enough == raw' >= BURST_COUNT
Completed(status) ==
  /\ fifo_count' = raw'
  /\ fifo_oflow_flag' = (fifo_oflow_flag \/ status)
  /\ IF ~status /\ Enough THEN BurstRead ELSE transfer' = "idle"

\* Reading INT_STATUS clears it.
StatusRead ==
  /\ transfer = "status"
  /\ overflowed' = FALSE
  /\ UNCHANGED raw
  /\ Completed(overflowed)
  /\ UNCHANGED <<fifo, enabled, pulse, bus_status, reset>>

CountRead ==
  /\ transfer = "count"
  /\ raw' = fifo
  /\ Completed(FALSE)
  /\ UNCHANGED <<sensor, bus_status, reset>>

\* What an empty FIFO returns is no sample.
Left == IF fifo >= burst_count THEN fifo - burst_count ELSE 0
FifoRead ==
  /\ transfer = "burst"
  /\ fifo' = Left
  /\ UNCHANGED raw
  /\ Completed(FALSE)
  /\ UNCHANGED <<enabled, overflowed, pulse, bus_status, reset>>

\* An error ends in another callback, which calls none of these functions.
\* After a refused address, or an error of the DMA, the next read may start;
\* a bus error frees the peripheral, but leaves its DMA channel armed.
TransferFails ==
  /\ BusFails /\ transfer \in {"status", "count", "burst"}
  /\ transfer' \in {"idle", "jammed"}
  /\ UNCHANGED <<sensor, flags, bus_status, reset>>

Completion == StatusRead \/ CountRead \/ FifoRead \/ TransferFails

-----------------------------------------------------------------------------
(* The main program polls fifo_oflow_flag and calls MPU_6050_fifo_reset.   *)

LockBus ==
  /\ reset = "idle" /\ fifo_oflow_flag
  /\ bus_status' = TRUE /\ reset' = "wait"
  /\ UNCHANGED <<sensor, transfer, flags>>

\* The wait ends when the peripheral is ready, or after 10 ms all the same: a
\* burst of 560 bytes takes longer.
WaitEnds ==
  /\ reset = "wait"
  /\ reset' = "off"
  /\ UNCHANGED <<sensor, transfer, flags, bus_status>>

Ready == transfer \in {"idle", "jammed"}

\* The first write: FIFO_ENABLE off, FIFO_RESET on.
ClearFifo ==
  /\ reset = "off" /\ Ready
  /\ fifo' = 0 /\ enabled' = FALSE /\ reset' = "on"
  /\ UNCHANGED <<overflowed, pulse, transfer, flags, bus_status>>

\* The second write, or a failure that leaves the FIFO as it is: HAL_BUSY of
\* the first access, or an error of any.
LastAccess ==
  \/ reset = "on" /\ enabled' = TRUE
  \/ reset = "off" /\ ~Ready /\ enabled' = enabled
  \/ reset \in {"off", "on"} /\ BusFails /\ enabled' = enabled

\* The end of MPU_6050_fifo_reset, which a failure comes to as well.
ReleasedUnlessEarly == fifo_oflow_flag' = FALSE /\ bus_status' = (reset = "off")
Released == fifo_oflow_flag' = FALSE /\ bus_status' = FALSE

ResetEnds ==
  /\ LastAccess /\ Released
  /\ reset' = "idle"
  /\ UNCHANGED <<fifo, overflowed, pulse, transfer, raw, fifo_count>>

ResetFifo == LockBus \/ WaitEnds \/ ClearFifo \/ ResetEnds

BurstNext == Sample \/ IntIsr \/ Timer \/ Completion \/ ResetFifo

BurstSpec == BurstInit /\ [][BurstNext]_burstVars

\* Handlers and transfers end, and the main program keeps polling.
BurstFairSpec ==
  BurstSpec /\ WF_burstVars(IntIsr) /\ WF_burstVars(Completion) /\ WF_burstVars(ResetFifo)

-----------------------------------------------------------------------------
(* Properties.                                                             *)

\* From the write that empties the FIFO to the return of the reset no transfer
\* runs, although handlers start the next read from the end of the last one
\* and the wait for them ends after 10 ms.
ResetHasTheBus == reset = "on" => Ready

\* Bursts run away: the count a burst was started for stays in the handle, so
\* the end of each burst starts the next, on samples that are not there.  All
\* other reads are refused meanwhile, an overflow goes unnoticed and nothing
\* asks for a reset: only a failed transfer stops them.
RunAway == transfer = "burst" /\ ~fifo_oflow_flag /\ ~bus_status
BurstsRunAway == [][RunAway => RunAway' \/ TransferFails]_burstVars

\* An overflow the handlers have noticed ends with the flag cleared and the bus
\* free: the FIFO emptied or, when an access fails or a read still has the bus
\* after the wait, the reset given up.
OverflowIsHandled == fifo_oflow_flag ~> (~fifo_oflow_flag /\ ~bus_status)
=============================================================================
