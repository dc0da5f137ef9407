--------------------------- MODULE ImuTaskProofs ----------------------------
(***************************************************************************)
(* Proofs about the IMU task, for every length of the queue.               *)
(***************************************************************************)
EXTENDS ImuTask, TLAPS

LEMMA NotifyTyped ==
  ASSUME NEW n \in N!Notification(Bits), NEW b \in SUBSET Bits
  PROVE  /\ N!Notify(n, b) \in N!Notification(Bits)
         /\ N!TakeAndClear(n, b) \in N!Notification(Bits)
         /\ N!Block(n) \in N!Notification(Bits)
BY DEF N!Notification, N!States, N!Notify, N!TakeAndClear, N!Block

LEMMA InitTyped == Init => TypeOK
<1> SUFFICES ASSUME Init PROVE TypeOK
  OBVIOUS
<1>1. notif \in N!Notification(Bits)
  BY DEF Init, N!Notification, N!States, N!Quiet
<1>2. queue \in Seq(Contents) /\ Len(queue) <= QueueLen
  BY ImuTaskAssumption DEF Init
<1>3. sinceCalm \in 0..SettlingFrames
  BY ImuTaskAssumption DEF Init
<1>4. calm \in BOOLEAN
  BY ImuTaskAssumption DEF Init
<1>5. QED
  BY <1>1, <1>2, <1>3, <1>4 DEF Init, TypeOK, PCs, I2cStates, Contents

LEMMA StepTyped == TypeOK /\ [Next]_vars => TypeOK'
<1> SUFFICES ASSUME TypeOK, [Next]_vars PROVE TypeOK'
  OBVIOUS
<1> USE DEF TypeOK, PCs, I2cStates, Contents, taskVars, chipVars
<1>0. /\ DR_INT \in Bits /\ RX_CPLT \in Bits
      /\ {DR_INT} \in SUBSET Bits /\ {RX_CPLT} \in SUBSET Bits
  BY DEF Bits
<1>1. CASE Configure
  BY <1>1 DEF Configure
<1>2. CASE WaitBlocks
  BY <1>2, <1>0, NotifyTyped DEF WaitBlocks
<1>3. ASSUME NEW b \in SUBSET Bits, WaitReturns(b)
      PROVE  /\ events' \subseteq Bits
             /\ notif' \in N!Notification(Bits)
  BY <1>3, NotifyTyped DEF WaitReturns, N!Notification
<1>4. CASE WaitDataReady
  BY <1>4, <1>3, <1>0 DEF WaitDataReady, WaitReturns
<1>5. CASE WaitStatus
  BY <1>5, <1>3, <1>0 DEF WaitStatus, WaitReturns
<1>6. CASE WaitPayload
  BY <1>6, <1>3, <1>0 DEF WaitPayload, WaitReturns
<1>7. CASE IntIsr
  BY <1>7 DEF IntIsr, StartTransfer
<1>8. CASE CheckStatus
  BY <1>8 DEF CheckStatus
<1>9. CASE SingleRead
  BY <1>9 DEF SingleRead, StartTransfer
<1>10. CASE SendFrame
  BY <1>10, ImuTaskAssumption DEF SendFrame, Room
<1>11. CASE Bus
  BY <1>11, <1>0, NotifyTyped DEF Bus, StatusArrives, PayloadFills, PayloadArrives, RxCplt,
     I2cRxCpltIsr
<1>12. CASE Nack \/ BusError \/ Settle
  BY <1>12 DEF Nack, BusError, Settle
<1>13. CASE DataReadyEdge
  BY <1>13, <1>0, NotifyTyped DEF DataReadyEdge, ExtiCallback
<1>14. CASE Drain
  BY <1>14, ImuTaskAssumption DEF Drain
<1>15. CASE UNCHANGED vars
  BY <1>15 DEF vars
<1>16. QED
  BY <1>1, <1>2, <1>4, <1>5, <1>6, <1>7, <1>8, <1>9, <1>10, <1>11, <1>12, <1>13,
     <1>14, <1>15 DEF Next, Task

\* Every variable of the IMU side keeps its type; in particular the queue
\* never holds more than its QueueLen elements (imu_data_input.c:74, 103).
THEOREM TypeCorrect == Spec => []TypeOK
  BY InitTyped, StepTyped, PTL DEF Spec

-----------------------------------------------------------------------------

\* One step of the calm regime leads from InStep to InStep.
LEMMA InStepStep == TypeOK /\ calm /\ InStep /\ [Next]_vars => InStep'
<1> SUFFICES ASSUME TypeOK, calm, InStep, [Next]_vars PROVE InStep'
  OBVIOUS
<1> USE DEF taskVars, chipVars, PayloadUnderway, BusAtRest, N!Quiet, N!Block
<1>0. /\ DR_INT # RX_CPLT
      /\ notif = [state |-> notif.state, value |-> notif.value]
      /\ notif.state \in {"none", "waiting", "received"}
  BY DEF TypeOK, N!Notification, N!States, DR_INT, RX_CPLT
<1>1. CASE Configure
  BY <1>1 DEF Configure, InStep
<1>2. CASE WaitBlocks
  BY <1>2, <1>0 DEF WaitBlocks, InStep, N!Block
<1>3. CASE WaitDataReady
  BY <1>3, <1>0 DEF WaitDataReady, WaitReturns, InStep, N!Received, N!TakeAndClear
<1>4. CASE WaitStatus
  BY <1>4, <1>0 DEF WaitStatus, WaitReturns, InStep, N!Received, N!TakeAndClear
<1>5. CASE WaitPayload
  BY <1>5, <1>0 DEF WaitPayload, WaitReturns, InStep, N!Received, N!TakeAndClear
<1>6. CASE IntIsr
  BY <1>6, <1>0 DEF IntIsr, StartTransfer, InStep
<1>7. CASE CheckStatus
  BY <1>7, <1>0 DEF CheckStatus, InStep
<1>8. CASE SingleRead
  BY <1>8 DEF SingleRead, InStep
<1>9. CASE SendFrame
  BY <1>9, <1>0 DEF SendFrame, Room, InStep
<1>10. CASE StatusArrives
  BY <1>10, <1>0 DEF StatusArrives, InStep
<1>11. CASE PayloadFills \/ PayloadArrives
  BY <1>11, <1>0 DEF PayloadFills, PayloadArrives, InStep
<1>12. CASE RxCplt
  BY <1>12, <1>0 DEF RxCplt, I2cRxCpltIsr, InStep, N!Notify
<1>13. CASE Nack \/ BusError \/ Settle
  BY <1>13 DEF Nack, BusError, Settle
<1>14. CASE DataReadyEdge
  <2>1. /\ Idle /\ dataReady' = TRUE
        /\ UNCHANGED <<pc, i2c, intStatus, rxBuf>>
    BY <1>14 DEF DataReadyEdge
  <2>2. /\ notif' = [state |-> "received", value |-> notif.value \cup {DR_INT}]
        /\ notif.value \in {{}, {DR_INT}} => notif'.value = {DR_INT}
    BY <1>14 DEF DataReadyEdge, ExtiCallback, N!Notify
  <2>3. CASE notif.state = "waiting"
    BY <2>1, <2>2, <2>3 DEF Idle, InStep
  <2>4. CASE pc = "send"
    BY <2>1, <2>2, <2>4 DEF Idle, InStep
  <2>5. QED
    BY <2>1, <2>3, <2>4 DEF Idle
<1>15. CASE Drain \/ UNCHANGED vars
  BY <1>15 DEF Drain, vars, InStep
<1>16. QED
  BY <1>1, <1>2, <1>3, <1>4, <1>5, <1>6, <1>7, <1>8, <1>9, <1>10, <1>11, <1>12,
     <1>13, <1>14, <1>15 DEF Next, Task, Bus

\* In the calm regime no interleaving of the task's three waits with the two
\* callbacks (imu_data_input.c:46-78, callbacks.c:66-91) gets them out of step.
THEOREM KeepsStep == Spec => StaysInStep
<1>1. TypeOK /\ [Next]_vars => [calm /\ InStep => InStep']_vars
  BY InStepStep
<1>2. QED
  BY <1>1, TypeCorrect, PTL DEF Spec, StaysInStep

\* And in step, what the handler forwards is one whole sample that no transfer
\* is writing to and that was not forwarded before.
LEMMA InStepForwardsNewSamples ==
  ASSUME InStep, pc = "send"
  PROVE  rxBuf = "new" /\ i2c = "ready"
BY DEF InStep, BusAtRest

-----------------------------------------------------------------------------
(* How the handler gets into step.  Whatever early edges and NACKs left      *)
(* behind, every frame that is queued in the calm regime uses up a part of   *)
(* it: after one frame WithinTwo holds, after two WithinOne, after three     *)
(* InStep.                                                                   *)

\* What both regimes keep: a blocked task is in a wait, only the status
\* transfer carries the status bit, and the buffer is torn while it fills and
\* whole when it is full.
Coupled ==
  /\ notif.state = "waiting" => pc \in {"wait1", "wait2", "wait3"}
  /\ pc = "configure" => InStep /\ ~sensorOn
  /\ intStatus => i2c = "statusDone"
  /\ i2c = "filling" => rxBuf = "torn"
  /\ i2c = "payloadDone" => rxBuf # "torn"
  /\ pc = "read" => i2c # "status"

Notified == notif.state = "received"

\* A payload transfer without an unread sample in the chip.
Reading == i2c \in {"payload", "filling", "payloadDone"} /\ ~intStatus /\ ~dataReady

\* The status transfer of an edge, before and after it took the edge's bit.
AskingStatus ==
  \/ i2c = "status" /\ ~intStatus /\ dataReady
  \/ i2c = "statusDone" /\ intStatus /\ ~dataReady

\* A data-ready edge that is pending is that of the sample in the chip, and no
\* transfer is under way.
EdgeIsLatest == DR_INT \in notif.value => pc # "intIsr" /\ BusAtRest /\ dataReady

\* Two frames from InStep at most: the edge that may be pending is the latest
\* except at the first wait, and no frame is sent, or about to be, during a
\* status transfer.
WithinTwo ==
  /\ pc # "wait1" => EdgeIsLatest
  /\ pc = "read" => ~dataReady
  /\ i2c = "statusDone" /\ dataReady => /\ pc \notin {"check", "read", "wait3"}
                                        /\ pc \in {"intIsr", "wait2"} => ~Notified
  /\ \/ pc = "send"
     \/ pc \in {"check", "read", "wait3"} /\ Notified
     => BusAtRest \/ Reading
  /\ pc = "send" /\ BusAtRest /\ Notified /\ rxBuf = "torn" => DR_INT \in notif.value

\* One frame from InStep at most: what is sent is whole, even if it may have
\* been sent before, and a torn buffer is on the way to be read again.
WithinOne ==
  /\ EdgeIsLatest
  /\ \/ pc = "configure"
     \/ /\ pc = "wait1" /\ BusAtRest
        /\ Notified => DR_INT \in notif.value \/ rxBuf # "torn"
     \/ pc \in {"wait1", "wait2"} /\ Reading
     \/ pc = "intIsr" /\ BusAtRest /\ dataReady /\ ~Notified
     \/ pc = "wait2" /\ ~Notified /\ AskingStatus
     \/ pc = "wait2" /\ BusAtRest /\ rxBuf # "torn"
     \/ pc \in {"check", "wait3"} /\ Reading /\ ~Notified
     \/ /\ pc \in {"check", "wait3"} /\ BusAtRest /\ rxBuf # "torn"
        /\ Notified /\ dataReady => DR_INT \in notif.value
     \/ /\ pc = "send" /\ BusAtRest /\ rxBuf # "torn" /\ RX_CPLT \notin notif.value
        /\ Notified \/ dataReady => DR_INT \in notif.value

\* The ranking: every frame queued since the regime is calm is a step on it,
\* unless a bus error has ended all reading.
Settling ==
  /\ Coupled
  /\ sinceCalm > 0 => calm
  /\ i2c # "jammed" => /\ sinceCalm > 0 => WithinTwo
                       /\ sinceCalm > 1 => WithinOne
                       /\ sinceCalm > 2 => InStep

LEMMA InitSettling == Init => Settling
<1> SUFFICES ASSUME Init PROVE Settling
  OBVIOUS
<1>1. notif.state = "none"
  BY DEF Init, N!Quiet
<1>2. InStep
  BY DEF Init, InStep, BusAtRest
<1>3. Coupled
  BY <1>1, <1>2 DEF Init, Coupled
<1>4. ~(sinceCalm > 0) /\ ~(sinceCalm > 1) /\ ~(sinceCalm > 2)
  BY DEF Init
<1>5. QED
  BY <1>3, <1>4 DEF Settling

\* Closer is not farther.
LEMMA InStepWithinOne == TypeOK /\ Coupled /\ InStep => WithinOne
<1> SUFFICES ASSUME TypeOK, Coupled, InStep PROVE WithinOne
  OBVIOUS
<1>0. DR_INT # RX_CPLT
  BY DEF DR_INT, RX_CPLT
<1> USE DEF PayloadUnderway, BusAtRest, N!Quiet, N!Block, Notified
<1>1. EdgeIsLatest
  BY <1>0 DEF InStep, EdgeIsLatest
<1>2. QED
  BY <1>0, <1>1 DEF InStep, WithinOne, Reading, AskingStatus, Coupled

LEMMA WithinOneWithinTwo == TypeOK /\ WithinOne => WithinTwo
  BY DEF TypeOK, PCs, WithinOne, WithinTwo, AskingStatus, Reading, BusAtRest, InStep

\* Coupled is kept in both regimes.
LEMMA CoupledStep ==
  ASSUME TypeOK, Coupled, [Next]_vars
  PROVE  Coupled'
<1> USE DEF taskVars, chipVars, BusAtRest, Reading, Notified
<1>0. /\ DR_INT # RX_CPLT
      /\ notif.state \in {"none", "waiting", "received"}
      /\ pc \in PCs /\ i2c \in I2cStates /\ rxBuf \in Contents
      /\ intStatus \in BOOLEAN /\ dataReady \in BOOLEAN
  BY DEF TypeOK, N!Notification, N!States, DR_INT, RX_CPLT
<1> USE DEF PCs, I2cStates, Contents
<1>1. CASE Configure
  BY <1>0, <1>1 DEF Configure, Coupled, InStep, N!Quiet
<1>2. CASE WaitBlocks
  BY <1>0, <1>2 DEF WaitBlocks, N!Block, Coupled, InStep, N!Quiet
<1>3. CASE WaitDataReady
  BY <1>0, <1>3 DEF WaitDataReady, WaitReturns, N!Received, N!TakeAndClear, Coupled, InStep, N!Quiet
<1>4. CASE WaitStatus
  BY <1>0, <1>4 DEF WaitStatus, WaitReturns, N!Received, N!TakeAndClear, Coupled, InStep, N!Quiet
<1>5. CASE WaitPayload
  BY <1>0, <1>5 DEF WaitPayload, WaitReturns, N!Received, N!TakeAndClear, Coupled, InStep, N!Quiet
<1>6. CASE IntIsr
  BY <1>0, <1>6 DEF IntIsr, StartTransfer, Coupled, InStep, N!Quiet
<1>7. CASE CheckStatus
  BY <1>0, <1>7 DEF CheckStatus, Coupled, InStep, N!Quiet
<1>8. CASE SingleRead
  BY <1>0, <1>8 DEF SingleRead, StartTransfer, Coupled, InStep, N!Quiet
<1>9. CASE SendFrame
  BY <1>0, <1>9 DEF SendFrame, Room, Coupled, InStep, N!Quiet
<1>10. CASE StatusArrives
  BY <1>0, <1>10 DEF StatusArrives, Coupled, InStep, N!Quiet
<1>11. CASE PayloadFills
  BY <1>0, <1>11 DEF PayloadFills, Coupled, InStep, N!Quiet
<1>12. CASE PayloadArrives
  BY <1>0, <1>12 DEF PayloadArrives, Coupled, InStep, N!Quiet
<1>13. CASE RxCplt
  BY <1>0, <1>13 DEF RxCplt, I2cRxCpltIsr, N!Notify, Coupled, InStep, N!Quiet
<1>14. CASE Nack \/ BusError \/ Settle
  BY <1>0, <1>14 DEF Nack, BusError, Settle, Coupled, InStep, N!Quiet
<1>15. CASE DataReadyEdge
  BY <1>0, <1>15 DEF DataReadyEdge, ExtiCallback, Idle, N!Notify, Coupled, InStep, N!Quiet
<1>16. CASE Drain
  BY <1>0, <1>16 DEF Drain, Coupled, InStep, N!Quiet
<1>17. CASE UNCHANGED vars
  BY <1>0, <1>17 DEF vars, Coupled, InStep, N!Quiet
<1>18. QED
  BY <1>1, <1>2, <1>3, <1>4, <1>5, <1>6, <1>7, <1>8, <1>9, <1>10, <1>11, <1>12, <1>13, <1>14, <1>15, <1>16, <1>17 DEF Next, Task, Bus

\* Between two frames of the calm regime the distance to InStep does not grow.
LEMMA WithinTwoStep ==
  ASSUME TypeOK, Coupled, calm, i2c # "jammed", WithinTwo, ~SendFrame, [Next]_vars
  PROVE  WithinTwo'
<1> USE DEF taskVars, chipVars, BusAtRest, Reading, Notified
<1>0. /\ DR_INT # RX_CPLT
      /\ notif.state \in {"none", "waiting", "received"}
      /\ pc \in PCs /\ i2c \in I2cStates /\ rxBuf \in Contents
      /\ intStatus \in BOOLEAN /\ dataReady \in BOOLEAN
  BY DEF TypeOK, N!Notification, N!States, DR_INT, RX_CPLT
<1> USE DEF PCs, I2cStates, Contents
<1>1. CASE Configure
  BY <1>0, <1>1 DEF Configure, Coupled, WithinTwo, EdgeIsLatest
<1>2. CASE WaitBlocks
  BY <1>0, <1>2 DEF WaitBlocks, N!Block, Coupled, WithinTwo, EdgeIsLatest
<1>3. CASE WaitDataReady
  BY <1>0, <1>3 DEF WaitDataReady, WaitReturns, N!Received, N!TakeAndClear, Coupled, WithinTwo, EdgeIsLatest
<1>4. CASE WaitStatus
  BY <1>0, <1>4 DEF WaitStatus, WaitReturns, N!Received, N!TakeAndClear, Coupled, WithinTwo, EdgeIsLatest
<1>5. CASE WaitPayload
  BY <1>0, <1>5 DEF WaitPayload, WaitReturns, N!Received, N!TakeAndClear, Coupled, WithinTwo, EdgeIsLatest
<1>6. CASE IntIsr
  BY <1>0, <1>6 DEF IntIsr, StartTransfer, Coupled, WithinTwo, EdgeIsLatest
<1>7. CASE CheckStatus
  BY <1>0, <1>7 DEF CheckStatus, Coupled, WithinTwo, EdgeIsLatest
<1>8. CASE SingleRead
  BY <1>0, <1>8 DEF SingleRead, StartTransfer, Coupled, WithinTwo, EdgeIsLatest
<1>9. CASE SendFrame
  BY <1>0, <1>9 DEF SendFrame, Room, Coupled, WithinTwo, EdgeIsLatest
<1>10. CASE StatusArrives
  BY <1>0, <1>10 DEF StatusArrives, Coupled, WithinTwo, EdgeIsLatest
<1>11. CASE PayloadFills
  BY <1>0, <1>11 DEF PayloadFills, Coupled, WithinTwo, EdgeIsLatest
<1>12. CASE PayloadArrives
  BY <1>0, <1>12 DEF PayloadArrives, Coupled, WithinTwo, EdgeIsLatest
<1>13. CASE RxCplt
  BY <1>0, <1>13 DEF RxCplt, I2cRxCpltIsr, N!Notify, Coupled, WithinTwo, EdgeIsLatest
<1>14. CASE Nack \/ BusError \/ Settle
  BY <1>0, <1>14 DEF Nack, BusError, Settle, Coupled, WithinTwo, EdgeIsLatest
<1>15. CASE DataReadyEdge
  BY <1>0, <1>15 DEF DataReadyEdge, ExtiCallback, Idle, N!Notify, Coupled, WithinTwo, EdgeIsLatest
<1>16. CASE Drain
  BY <1>0, <1>16 DEF Drain, Coupled, WithinTwo, EdgeIsLatest
<1>17. CASE UNCHANGED vars
  BY <1>0, <1>17 DEF vars, Coupled, WithinTwo, EdgeIsLatest
<1>18. QED
  BY <1>1, <1>2, <1>3, <1>4, <1>5, <1>6, <1>7, <1>8, <1>9, <1>10, <1>11, <1>12, <1>13, <1>14, <1>15, <1>16, <1>17 DEF Next, Task, Bus

LEMMA WithinOneStep ==
  ASSUME TypeOK, Coupled, calm, i2c # "jammed", WithinOne, ~SendFrame, [Next]_vars
  PROVE  WithinOne'
<1> USE DEF taskVars, chipVars, BusAtRest, Reading, Notified
<1>0. /\ DR_INT # RX_CPLT
      /\ notif.state \in {"none", "waiting", "received"}
      /\ pc \in PCs /\ i2c \in I2cStates /\ rxBuf \in Contents
      /\ intStatus \in BOOLEAN /\ dataReady \in BOOLEAN
  BY DEF TypeOK, N!Notification, N!States, DR_INT, RX_CPLT
<1> USE DEF PCs, I2cStates, Contents
<1>1. CASE Configure
  BY <1>0, <1>1 DEF Configure, Coupled, WithinOne, EdgeIsLatest, AskingStatus, InStep
<1>2. CASE WaitBlocks
  BY <1>0, <1>2 DEF WaitBlocks, N!Block, Coupled, WithinOne, EdgeIsLatest, AskingStatus, InStep
<1>3. CASE WaitDataReady
  BY <1>0, <1>3 DEF WaitDataReady, WaitReturns, N!Received, N!TakeAndClear, Coupled, WithinOne, EdgeIsLatest, AskingStatus, InStep
<1>4. CASE WaitStatus
  BY <1>0, <1>4 DEF WaitStatus, WaitReturns, N!Received, N!TakeAndClear, Coupled, WithinOne, EdgeIsLatest, AskingStatus, InStep
<1>5. CASE WaitPayload
  BY <1>0, <1>5 DEF WaitPayload, WaitReturns, N!Received, N!TakeAndClear, Coupled, WithinOne, EdgeIsLatest, AskingStatus, InStep
<1>6. CASE IntIsr
  BY <1>0, <1>6 DEF IntIsr, StartTransfer, Coupled, WithinOne, EdgeIsLatest, AskingStatus, InStep
<1>7. CASE CheckStatus
  BY <1>0, <1>7 DEF CheckStatus, Coupled, WithinOne, EdgeIsLatest, AskingStatus, InStep
<1>8. CASE SingleRead
  BY <1>0, <1>8 DEF SingleRead, StartTransfer, Coupled, WithinOne, EdgeIsLatest, AskingStatus, InStep
<1>9. CASE SendFrame
  BY <1>0, <1>9 DEF SendFrame, Room, Coupled, WithinOne, EdgeIsLatest, AskingStatus, InStep
<1>10. CASE StatusArrives
  BY <1>0, <1>10 DEF StatusArrives, Coupled, WithinOne, EdgeIsLatest, AskingStatus, InStep
<1>11. CASE PayloadFills
  BY <1>0, <1>11 DEF PayloadFills, Coupled, WithinOne, EdgeIsLatest, AskingStatus, InStep
<1>12. CASE PayloadArrives
  BY <1>0, <1>12 DEF PayloadArrives, Coupled, WithinOne, EdgeIsLatest, AskingStatus, InStep
<1>13. CASE RxCplt
  BY <1>0, <1>13 DEF RxCplt, I2cRxCpltIsr, N!Notify, Coupled, WithinOne, EdgeIsLatest, AskingStatus, InStep
<1>14. CASE Nack \/ BusError \/ Settle
  BY <1>0, <1>14 DEF Nack, BusError, Settle, Coupled, WithinOne, EdgeIsLatest, AskingStatus, InStep
<1>15. CASE DataReadyEdge
  BY <1>0, <1>15 DEF DataReadyEdge, ExtiCallback, Idle, N!Notify, Coupled, WithinOne, EdgeIsLatest, AskingStatus, InStep
<1>16. CASE Drain
  BY <1>0, <1>16 DEF Drain, Coupled, WithinOne, EdgeIsLatest, AskingStatus, InStep
<1>17. CASE UNCHANGED vars
  BY <1>0, <1>17 DEF vars, Coupled, WithinOne, EdgeIsLatest, AskingStatus, InStep
<1>18. QED
  BY <1>1, <1>2, <1>3, <1>4, <1>5, <1>6, <1>7, <1>8, <1>9, <1>10, <1>11, <1>12, <1>13, <1>14, <1>15, <1>16, <1>17 DEF Next, Task, Bus

\* Each frame of the calm regime is one step on the ranking.
LEMMA FrameStep ==
  ASSUME TypeOK, Coupled, i2c # "jammed", SendFrame
  PROVE  /\ WithinTwo'
         /\ WithinTwo => WithinOne'
         /\ WithinOne => rxBuf # "torn" /\ InStep'
<1> USE DEF taskVars, BusAtRest, Reading, Notified
<1>0. /\ DR_INT # RX_CPLT
      /\ notif = [state |-> notif.state, value |-> notif.value]
      /\ notif.state \in {"none", "received"} /\ notif.value \subseteq {DR_INT, RX_CPLT}
      /\ rxBuf \in Contents /\ i2c \in I2cStates
  BY DEF TypeOK, Coupled, SendFrame, N!Notification, N!States, Bits, DR_INT, RX_CPLT
<1>1. /\ pc = "send" /\ pc' = "wait1"
      /\ rxBuf' = IF rxBuf = "new" THEN "old" ELSE rxBuf
      /\ UNCHANGED <<notif, i2c, intStatus, dataReady>>
  BY DEF SendFrame, chipVars
<1>2. WithinTwo'
  BY <1>0, <1>1 DEF WithinTwo, EdgeIsLatest
<1>3. ASSUME WithinTwo PROVE WithinOne'
  BY <1>0, <1>1, <1>3 DEF WithinTwo, WithinOne, EdgeIsLatest
<1>4. ASSUME WithinOne PROVE rxBuf # "torn" /\ InStep'
  <2>1. /\ BusAtRest /\ rxBuf # "torn" /\ RX_CPLT \notin notif.value
        /\ Notified \/ dataReady => DR_INT \in notif.value
        /\ DR_INT \in notif.value => dataReady
    BY <1>0, <1>1, <1>4 DEF WithinOne, EdgeIsLatest
  <2>2. rxBuf' = "old" /\ pc' = "wait1" /\ BusAtRest'
    BY <1>0, <1>1, <2>1 DEF Contents
  <2>3. CASE DR_INT \in notif.value
    <3>1. notif'.value = {DR_INT} /\ dataReady'
      BY <1>0, <1>1, <2>1, <2>3
    <3>2. QED
      BY <2>1, <2>2, <3>1 DEF InStep
  <2>4. CASE DR_INT \notin notif.value
    <3>1. notif'.state # "received" /\ notif'.value = {} /\ ~dataReady'
      BY <1>0, <1>1, <2>1, <2>4
    <3>2. QED
      BY <2>1, <2>2, <3>1 DEF InStep
  <2>5. QED
    BY <2>3, <2>4
<1>5. QED
  BY <1>2, <1>3, <1>4

\* A frame is counted only in the calm regime, and from one on exactly; a bus
\* error is final.
LEMMA CountStep ==
  ASSUME TypeOK, [Next]_vars
  PROVE  /\ SendFrame /\ calm => sinceCalm' \in {sinceCalm, sinceCalm + 1}
         /\ ~(SendFrame /\ calm) => sinceCalm' = sinceCalm
         /\ calm => calm'
         /\ i2c = "jammed" => i2c' = "jammed"
  BY DEF TypeOK, Next, Task, Bus, Configure, WaitBlocks, WaitDataReady, WaitStatus,
     WaitPayload, WaitReturns, IntIsr, CheckStatus, SingleRead, SendFrame, StatusArrives,
     PayloadFills, PayloadArrives, RxCplt, I2cRxCpltIsr, StartTransfer, Nack, BusError,
     DataReadyEdge, Drain, Settle, vars, taskVars, chipVars

LEMMA SettlingStep == TypeOK /\ Settling /\ [Next]_vars => Settling'
<1> SUFFICES ASSUME TypeOK, Settling, [Next]_vars PROVE Settling'
  OBVIOUS
<1>1. Coupled /\ Coupled'
  BY CoupledStep DEF Settling
<1>2. TypeOK'
  BY StepTyped
<1>3. sinceCalm' > 0 => calm'
  BY CountStep DEF Settling, TypeOK
<1>4. CASE sinceCalm' = 0 \/ i2c' = "jammed"
  BY <1>1, <1>3, <1>4 DEF Settling
<1>5. CASE sinceCalm' > 0 /\ i2c' # "jammed"
  <2>1. calm /\ calm' /\ sinceCalm \in Nat /\ i2c # "jammed"
    BY <1>5, CountStep DEF Settling, TypeOK
  <2>2. CASE SendFrame
    <3>1. sinceCalm' \in {sinceCalm, sinceCalm + 1}
      BY <2>1, <2>2, CountStep
    <3>2. WithinTwo'
      BY <1>1, <2>1, <2>2, FrameStep
    <3>3. sinceCalm' > 1 => WithinOne'
      BY <1>1, <2>1, <2>2, <3>1, FrameStep DEF Settling
    <3>4. sinceCalm' > 2 => InStep'
      BY <1>1, <2>1, <2>2, <3>1, FrameStep DEF Settling
    <3>5. QED
      BY <1>1, <2>1, <3>2, <3>3, <3>4 DEF Settling
  <2>3. CASE ~SendFrame
    <3>1. sinceCalm' = sinceCalm
      BY <2>3, CountStep
    <3>2. WithinTwo'
      BY <1>1, <1>5, <2>1, <2>3, <3>1, WithinTwoStep DEF Settling
    <3>3. sinceCalm' > 1 => WithinOne'
      BY <1>1, <2>1, <2>3, <3>1, WithinOneStep DEF Settling
    <3>4. sinceCalm' > 2 => InStep'
      BY <2>1, <3>1, InStepStep DEF Settling
    <3>5. QED
      BY <1>1, <2>1, <3>2, <3>3, <3>4 DEF Settling
  <2>4. QED
    BY <2>2, <2>3
<1>6. QED
  BY <1>2, <1>4, <1>5 DEF TypeOK

\* Only the task queues.
LEMMA QueuedBySend == TypeOK /\ [Next]_vars /\ Queued => SendFrame
  BY DEF TypeOK, Queued, Next, Task, Bus, Configure, WaitBlocks, WaitDataReady, WaitStatus,
     WaitPayload, WaitReturns, IntIsr, CheckStatus, SingleRead, StatusArrives, PayloadFills,
     PayloadArrives, RxCplt, Nack, BusError, DataReadyEdge, Drain, Settle, vars, taskVars, chipVars

\* Self-stabilisation: however early edges, merged notifications, NACKs and
\* refused starts left the three waits and the two callbacks
\* (imu_data_input.c:46-78, callbacks.c:66-91), once the regime is calm at most
\* three frames are queued that are stale or torn, as long as no bus error has
\* left the DMA channel BUSY.  Three is tight.
THEOREM SettlesWithinThree == SettlingFrames > 2 => (Spec => Stabilises)
<1> SUFFICES ASSUME SettlingFrames > 2 PROVE Spec => Stabilises
  OBVIOUS
<1>1. TypeOK /\ Settling /\ [Next]_vars
      => [Queued /\ calm /\ sinceCalm = SettlingFrames /\ i2c # "jammed" => rxBuf = "new"]_vars
  <2> SUFFICES ASSUME TypeOK, Settling, [Next]_vars, Queued, calm,
                      sinceCalm = SettlingFrames, i2c # "jammed"
               PROVE  rxBuf = "new"
    OBVIOUS
  <2>1. pc = "send"
    BY QueuedBySend DEF SendFrame
  <2>2. InStep
    BY DEF Settling
  <2>3. QED
    BY <2>1, <2>2, InStepForwardsNewSamples
<1>2. QED
  BY <1>1, InitTyped, StepTyped, InitSettling, SettlingStep, PTL DEF Spec, Stabilises
=============================================================================
