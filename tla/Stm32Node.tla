----------------------------- MODULE Stm32Node ------------------------------
(***************************************************************************)
(* The STM32 node: the IMU side (ImuTask) and the radio side (RadioTx) on  *)
(* one core, joined by mpu_queue_handle.  The nRF905 task has priority 2,  *)
(* the mpu6050 task priority 1, and the kernel is preemptive, so the IMU   *)
(* task runs only while the radio task is blocked.                         *)
(***************************************************************************)
EXTENDS Naturals, Sequences

CONSTANTS QueueLen, Regimes, PollLimit, Faults, Nothing

VARIABLES
  queue,
  imuPc, imuNotif, events, i2c, intStatus, rxBuf, sensorOn, dataReady, calm, sinceCalm,
  rfPc, rfNotif, buf, inited, addressed, payload, chip, finished, polls, result, aired

\* No frames are counted here: sinceCalm stays 0.
Imu == INSTANCE ImuTask WITH SettlingFrames <- 0, pc <- imuPc, notif <- imuNotif

Radio == INSTANCE RadioTx WITH Frames <- {"old", "torn", "new"},
                               pc <- rfPc, notif <- rfNotif

ASSUME NodeAssumption ==
  /\ QueueLen \in Nat \ {0}
  /\ Regimes \subseteq BOOLEAN
  /\ PollLimit \in Nat \ {0}
  /\ Faults \subseteq {"init", "address", "write", "late"}
  /\ Nothing \notin {"old", "torn", "new"}

imuVars == <<imuPc, imuNotif, events, i2c, intStatus, rxBuf, sensorOn, dataReady,
             calm, sinceCalm>>
rfVars == <<rfPc, rfNotif, buf, inited, addressed, payload, chip, finished, polls,
            result, aired>>
vars == <<queue, imuVars, rfVars>>

Init == Imu!Init /\ Radio!Init

-----------------------------------------------------------------------------

\* The radio task is inside a call that has put it to sleep: the queue is empty,
\* an SPI transfer or a delay runs, or no DR edge has come.
RadioBlocked ==
  \/ rfPc = "receive" /\ queue = <<>>
  \/ rfPc \in {"init", "load", "poll"}
  \/ rfPc = "waitDr" /\ rfNotif.state = "waiting"

\* The IMU task has the core.
Scheduled == RadioBlocked

RadioTask == Radio!Task /\ UNCHANGED imuVars

ImuTask == Scheduled /\ Imu!Task /\ UNCHANGED rfVars

\* The I2C transfers and their callback.
I2c == Imu!Bus /\ UNCHANGED rfVars

ImuWorld ==
  /\ Imu!Nack \/ Imu!BusError \/ Imu!DataReadyEdge \/ Imu!Settle
  /\ UNCHANGED rfVars

DrEdge == Radio!DrEdge /\ UNCHANGED imuVars

Next == RadioTask \/ ImuTask \/ I2c \/ ImuWorld \/ DrEdge

Spec == Init /\ [][Next]_vars

\* The core is not idle while a task can run, whichever task that is; transfers
\* and packets come to an end; the chip keeps sampling.
FairSpec ==
  /\ Spec
  /\ WF_vars(RadioTask \/ ImuTask)
  /\ WF_vars(I2c)
  /\ WF_vars(DrEdge)
  /\ SF_vars(Imu!DataReadyEdge /\ UNCHANGED rfVars)

-----------------------------------------------------------------------------
(* Properties.                                                             *)

\* Both sides in step and nothing but whole new samples on the way: in the
\* queue, in the radio task's buffer, in the chip.
Clean ==
  /\ calm /\ Imu!InStep
  /\ \A i \in 1..Len(queue) : queue[i] = "new"
  /\ rfPc \in {"load", "clear", "raise", "poll"} => buf = "new"
  /\ rfPc \in {"clear", "raise"} \/ chip # "idle" => payload = "new"

\* A node that has come to this stays so, however the tasks are scheduled and
\* whatever else fails: from the sample to the antenna nothing turns a frame stale
\* or torn again.
CleanStays == [][Clean /\ "late" \notin Faults => Clean']_vars

\* So in a node that starts healthy, only new samples ever get on the air.
AiredIsNew == Regimes = {TRUE} /\ "late" \notin Faults => aired \in {"new", Nothing}

\* Once the I2C bus is calm new samples get on the air again and again, to the
\* gateway's address: unless a bus error has come before, a send has failed, or
\* the write of that address.
FreshOnAir ==
  (calm /\ sensorOn /\ i2c # "jammed")
    ~> (aired = "new" \/ Radio!Failed \/ (rfPc # "init" /\ ~addressed))

\* One failed SPI write silences the node for good, the IMU side included: the
\* queue fills, and the IMU task blocks in its xQueueSendToBack for ever.
Silenced == imuPc = "send" /\ Len(queue) = QueueLen
FailureSilencesNode ==
  (Radio!Failed /\ sensorOn) ~> []Silenced
=============================================================================
