-------------------------- MODULE Stm32NodeProofs ---------------------------
(***************************************************************************)
(* The node is a correct composition: each side behaves in it as it does   *)
(* in an environment that fills or drains the queue as it likes.  What is  *)
(* proved of ImuTask and of RadioTx alone therefore holds of the node.     *)
(***************************************************************************)
EXTENDS Stm32Node, TLAPS

\* The queue holds what the radio side takes for frames, and never too many.
QueueTyped ==
  /\ rxBuf \in {"old", "torn", "new"}
  /\ queue \in Seq({"old", "torn", "new"})
  /\ Len(queue) <= QueueLen

LEMMA QueueTypedInvariant == Spec => []QueueTyped
<1>1. Init => QueueTyped
  BY NodeAssumption DEF Init, Imu!Init, QueueTyped
<1>2. QueueTyped /\ [Next]_vars => QueueTyped'
  <2> SUFFICES ASSUME QueueTyped, [Next]_vars PROVE QueueTyped'
    OBVIOUS
  <2> USE NodeAssumption
      DEF QueueTyped, imuVars, rfVars, Imu!taskVars, Imu!chipVars, Radio!handle
  <2>1. CASE RadioTask
    <3>1. rxBuf' = rxBuf
      BY <2>1 DEF RadioTask
    <3>2. queue' = queue \/ (queue # <<>> /\ queue' = Tail(queue))
      BY <2>1 DEF RadioTask, Radio!Task, Radio!DeviceInit, Radio!Receive, Radio!Load,
         Radio!LoadFails, Radio!LoadMissed, Radio!Clear, Radio!RaiseCe, Radio!Poll,
         Radio!PollEnds, Radio!WaitBlocks, Radio!WaitReturns
    <3>3. QED
      BY <3>1, <3>2
  <2>2. CASE ImuTask
    <3>1. CASE Imu!SendFrame
      BY <3>1 DEF Imu!SendFrame, Imu!Room
    <3>2. CASE ~ Imu!SendFrame
      BY <2>2, <3>2 DEF ImuTask, Imu!Task, Imu!Configure, Imu!WaitBlocks,
         Imu!WaitDataReady, Imu!WaitReturns, Imu!IntIsr, Imu!WaitStatus, Imu!CheckStatus,
         Imu!SingleRead, Imu!WaitPayload
    <3>3. QED
      BY <3>1, <3>2
  <2>3. CASE I2c
    BY <2>3 DEF I2c, Imu!Bus, Imu!StatusArrives, Imu!PayloadFills, Imu!PayloadArrives,
       Imu!RxCplt
  <2>4. CASE ImuWorld
    BY <2>4 DEF ImuWorld, Imu!Nack, Imu!BusError, Imu!DataReadyEdge, Imu!Settle
  <2>5. CASE DrEdge
    BY <2>5 DEF DrEdge, Radio!DrEdge
  <2>6. CASE UNCHANGED vars
    BY <2>6 DEF vars
  <2>7. QED
    BY <2>1, <2>2, <2>3, <2>4, <2>5, <2>6 DEF Next
<1>3. QED
  BY <1>1, <1>2, PTL DEF Spec

LEMMA RadioStep == QueueTyped /\ [Next]_vars => [Radio!Next]_(Radio!vars)
<1> SUFFICES ASSUME QueueTyped, [Next]_vars PROVE Radio!Next \/ UNCHANGED Radio!vars
  OBVIOUS
<1> USE DEF Radio!vars, Radio!handle, rfVars, Imu!taskVars, Imu!chipVars
<1>1. CASE RadioTask \/ DrEdge
  BY <1>1 DEF RadioTask, DrEdge, Radio!Next
<1>2. CASE ImuTask
  <2>1. CASE Imu!SendFrame
    <3>1. Radio!Put(rxBuf)
      BY <1>2, <2>1 DEF ImuTask, Imu!SendFrame, Imu!Room, Radio!Put
    <3>2. rxBuf \in {"old", "torn", "new"}
      BY DEF QueueTyped
    <3>3. QED
      BY <3>1, <3>2 DEF Radio!Next
  <2>2. CASE ~ Imu!SendFrame
    <3>1. UNCHANGED queue
      BY <1>2, <2>2 DEF ImuTask, Imu!Task, Imu!Configure, Imu!WaitBlocks,
         Imu!WaitDataReady, Imu!WaitReturns, Imu!IntIsr, Imu!WaitStatus,
         Imu!CheckStatus, Imu!SingleRead, Imu!WaitPayload
    <3>2. QED
      BY <1>2, <3>1 DEF ImuTask
  <2>3. QED
    BY <2>1, <2>2
<1>3. CASE I2c
  BY <1>3 DEF I2c, Imu!Bus, Imu!StatusArrives, Imu!PayloadFills, Imu!PayloadArrives,
     Imu!RxCplt
<1>4. CASE ImuWorld
  BY <1>4 DEF ImuWorld, Imu!Nack, Imu!BusError, Imu!DataReadyEdge, Imu!Settle
<1>5. CASE UNCHANGED vars
  BY <1>5 DEF vars
<1>6. QED
  BY <1>1, <1>2, <1>3, <1>4, <1>5 DEF Next

\* No step of the IMU side disturbs the radio side but by putting a frame into
\* the queue when there is room (imu_data_input.c:74, nrf905_link.c:47).
THEOREM NodeImplementsRadio == Spec => Radio!Spec
<1>1. Init => Radio!Init
  BY DEF Init
<1>2. QED
  BY <1>1, RadioStep, QueueTypedInvariant, PTL DEF Spec, Radio!Spec

LEMMA ImuStep == [Next]_vars => [Imu!Next]_(Imu!vars)
<1> SUFFICES ASSUME [Next]_vars PROVE Imu!Next \/ UNCHANGED Imu!vars
  OBVIOUS
<1> USE DEF Imu!vars, imuVars, Radio!handle
<1>1. CASE RadioTask
  <2>1. CASE Radio!Receive
    <3>1. Imu!Drain
      BY <1>1, <2>1 DEF RadioTask, Radio!Receive, Imu!Drain, Imu!chipVars
    <3>2. QED
      BY <3>1 DEF Imu!Next
  <2>2. CASE ~ Radio!Receive
    <3>1. UNCHANGED queue
      BY <1>1, <2>2 DEF RadioTask, Radio!Task, Radio!DeviceInit, Radio!Load,
         Radio!LoadFails, Radio!LoadMissed, Radio!Clear, Radio!RaiseCe, Radio!Poll,
         Radio!PollEnds, Radio!WaitBlocks, Radio!WaitReturns
    <3>2. QED
      BY <1>1, <3>1 DEF RadioTask
  <2>3. QED
    BY <2>1, <2>2
<1>2. CASE ImuTask \/ I2c \/ ImuWorld
  BY <1>2 DEF ImuTask, I2c, ImuWorld, Imu!Next
<1>3. CASE DrEdge
  BY <1>3 DEF DrEdge, Radio!DrEdge
<1>4. CASE UNCHANGED vars
  BY <1>4 DEF vars
<1>5. QED
  BY <1>1, <1>2, <1>3, <1>4 DEF Next

\* No step of the radio side disturbs the IMU side but by taking a frame out of
\* the queue, and preemption only takes behaviours away.
THEOREM NodeImplementsImu == Spec => Imu!Spec
<1>1. Init => Imu!Init
  BY DEF Init
<1>2. QED
  BY <1>1, ImuStep, PTL DEF Spec, Imu!Spec

-----------------------------------------------------------------------------
(* What is proved of each side, carried over to the node.  An operator of  *)
(* ImuSide is the one of Imu by another name.                              *)

ImuSide == INSTANCE ImuTaskProofs WITH SettlingFrames <- 0, pc <- imuPc, notif <- imuNotif

RadioSide == INSTANCE RadioTxProofs WITH
  Frames <- {"old", "torn", "new"}, pc <- rfPc, notif <- rfNotif

LEMMA SameImuPredicates ==
  /\ Imu!Init <=> ImuSide!Init
  /\ Imu!InStep <=> ImuSide!InStep
<1>. USE DEF Imu!DR_INT, ImuSide!DR_INT, Imu!RX_CPLT, ImuSide!RX_CPLT,
     Imu!N!Quiet, ImuSide!N!Quiet, Imu!N!Block, ImuSide!N!Block
<1>1. Imu!Init <=> ImuSide!Init
  BY DEF Imu!Init, ImuSide!Init
<1>2. Imu!PayloadUnderway <=> ImuSide!PayloadUnderway
  BY DEF Imu!PayloadUnderway, ImuSide!PayloadUnderway
<1>3. Imu!BusAtRest <=> ImuSide!BusAtRest
  BY DEF Imu!BusAtRest, ImuSide!BusAtRest
<1>4. Imu!InStep <=> ImuSide!InStep
  BY <1>2, <1>3 DEF Imu!InStep, ImuSide!InStep
<1>. QED
  BY <1>1, <1>4

LEMMA SameInStepNext == Imu!InStep' <=> ImuSide!InStep'
BY SameImuPredicates, PTL

LEMMA SameImuStep == [Imu!Next]_(Imu!vars) => [ImuSide!Next]_(ImuSide!vars)
<1>. USE DEF Imu!taskVars, ImuSide!taskVars, Imu!chipVars, ImuSide!chipVars,
     Imu!DR_INT, ImuSide!DR_INT, Imu!RX_CPLT, ImuSide!RX_CPLT
<1>1. Imu!Task => ImuSide!Task
  BY DEF Imu!Task, ImuSide!Task, Imu!Configure, ImuSide!Configure, Imu!WaitBlocks,
     ImuSide!WaitBlocks, Imu!WaitDataReady, ImuSide!WaitDataReady, Imu!IntIsr,
     ImuSide!IntIsr, Imu!WaitStatus, ImuSide!WaitStatus, Imu!CheckStatus,
     ImuSide!CheckStatus, Imu!SingleRead, ImuSide!SingleRead, Imu!WaitPayload,
     ImuSide!WaitPayload, Imu!SendFrame, ImuSide!SendFrame, Imu!Room, ImuSide!Room,
     Imu!WaitReturns, ImuSide!WaitReturns, Imu!StartTransfer, ImuSide!StartTransfer,
     Imu!N!Block, ImuSide!N!Block, Imu!N!TakeAndClear, ImuSide!N!TakeAndClear,
     Imu!N!Received, ImuSide!N!Received
<1>2. Imu!Bus => ImuSide!Bus
  BY DEF Imu!Bus, ImuSide!Bus, Imu!StatusArrives, ImuSide!StatusArrives,
     Imu!PayloadFills, ImuSide!PayloadFills, Imu!PayloadArrives, ImuSide!PayloadArrives,
     Imu!RxCplt, ImuSide!RxCplt, Imu!I2cRxCpltIsr, ImuSide!I2cRxCpltIsr,
     Imu!N!Notify, ImuSide!N!Notify
<1>3. Imu!Nack \/ Imu!BusError \/ Imu!Drain \/ Imu!Settle
      => ImuSide!Nack \/ ImuSide!BusError \/ ImuSide!Drain \/ ImuSide!Settle
  BY DEF Imu!Nack, ImuSide!Nack, Imu!BusError, ImuSide!BusError, Imu!Drain, ImuSide!Drain,
         Imu!Settle, ImuSide!Settle
<1>4. Imu!DataReadyEdge => ImuSide!DataReadyEdge
  BY DEF Imu!DataReadyEdge, ImuSide!DataReadyEdge, Imu!Idle, ImuSide!Idle,
     Imu!ExtiCallback, ImuSide!ExtiCallback, Imu!N!Notify, ImuSide!N!Notify
<1>. QED
  BY <1>1, <1>2, <1>3, <1>4 DEF Imu!Next, ImuSide!Next, Imu!vars, ImuSide!vars

LEMMA SameRadioInit == Radio!Init => RadioSide!Init
BY DEF Radio!Init, RadioSide!Init, Radio!N!Quiet, RadioSide!N!Quiet

LEMMA SameRadioStep ==
  [Radio!Next]_(Radio!vars) => [RadioSide!Next]_(RadioSide!vars)
<1>. USE DEF Radio!handle, RadioSide!handle, Radio!AfterSend, RadioSide!AfterSend
<1>1. UNCHANGED Radio!vars => UNCHANGED RadioSide!vars
  BY DEF Radio!vars, RadioSide!vars
<1>2. Radio!Task => RadioSide!Task
  BY DEF Radio!Task, RadioSide!Task, Radio!DeviceInit, RadioSide!DeviceInit,
     Radio!Receive, RadioSide!Receive, Radio!Load, RadioSide!Load, Radio!LoadFails,
     RadioSide!LoadFails, Radio!LoadMissed, RadioSide!LoadMissed, Radio!Clear,
     RadioSide!Clear, Radio!ClearFinished, RadioSide!ClearFinished, Radio!RaiseCe,
     RadioSide!RaiseCe, Radio!Poll, RadioSide!Poll, Radio!PollsLeft, RadioSide!PollsLeft,
     Radio!PollEnds, RadioSide!PollEnds, Radio!WaitBlocks, RadioSide!WaitBlocks,
     Radio!WaitReturns, RadioSide!WaitReturns, Radio!DR_INT, RadioSide!DR_INT,
     Radio!N!Block, RadioSide!N!Block, Radio!N!Received, RadioSide!N!Received,
     Radio!N!TakeAndClear, RadioSide!N!TakeAndClear
<1>3. Radio!DrEdge => RadioSide!DrEdge
  BY DEF Radio!DrEdge, RadioSide!DrEdge, Radio!ExtiCallback, RadioSide!ExtiCallback,
     Radio!N!Notify, RadioSide!N!Notify, Radio!DR_INT, RadioSide!DR_INT
<1>4. ASSUME NEW f \in {"old", "torn", "new"} PROVE Radio!Put(f) => RadioSide!Put(f)
  BY DEF Radio!Put, RadioSide!Put
<1>. QED
  BY <1>1, <1>2, <1>3, <1>4 DEF Radio!Next, RadioSide!Next

LEMMA SidesAssumptions == ImuSide!ImuTaskAssumption /\ RadioSide!RadioTxAssumption
BY NodeAssumption DEF ImuSide!ImuTaskAssumption, RadioSide!RadioTxAssumption,
   RadioSide!FaultKinds

\* Each side keeps its types, and the radio side its step, in the node.
Sides == ImuSide!TypeOK /\ RadioSide!TypeOK /\ RadioSide!InStep /\ QueueTyped

LEMMA SidesInvariant == Spec => []Sides
<1>1. Init => ImuSide!TypeOK /\ RadioSide!TypeOK /\ RadioSide!InStep
  <2>1. Init => ImuSide!Init /\ RadioSide!Init
    BY SameImuPredicates, SameRadioInit DEF Init
  <2>. QED
    BY <2>1, SidesAssumptions, ImuSide!InitTyped, RadioSide!InitIInv DEF RadioSide!IInv
<1>2. /\ ImuSide!TypeOK /\ RadioSide!TypeOK /\ RadioSide!InStep /\ QueueTyped
      /\ [Next]_vars
      => (ImuSide!TypeOK /\ RadioSide!TypeOK /\ RadioSide!InStep)'
  <2>1. [Next]_vars => [ImuSide!Next]_(ImuSide!vars)
    BY ImuStep, SameImuStep
  <2>2. QueueTyped /\ [Next]_vars => [RadioSide!Next]_(RadioSide!vars)
    BY RadioStep, SameRadioStep
  <2>. QED
    BY <2>1, <2>2, SidesAssumptions, ImuSide!StepTyped, RadioSide!StepTyped,
       RadioSide!InStepStep
<1>3. Spec => [](ImuSide!TypeOK /\ RadioSide!TypeOK /\ RadioSide!InStep)
  BY <1>1, <1>2, QueueTypedInvariant, PTL DEF Spec
<1>. QED
  BY <1>3, QueueTypedInvariant, PTL DEF Sides

-----------------------------------------------------------------------------

\* One step keeps a clean node clean.
\* What a clean node carries from the sample to the antenna.
Carried ==
  /\ \A i \in 1..Len(queue) : queue[i] = "new"
  /\ rfPc \in {"load", "clear", "raise", "poll"} => buf = "new"
  /\ rfPc \in {"clear", "raise"} \/ chip # "idle" => payload = "new"

\* The chip is idle while the task is not waiting for a packet of its own.
LEMMA IdleChip ==
  ASSUME Sides
  PROVE  rfPc \in {"init", "receive", "load", "clear", "raise"} => chip = "idle"
BY DEF Sides, RadioSide!InStep

LEMMA QueueStep ==
  ASSUME Sides, Clean, [Next]_vars
  PROVE  \A i \in 1..Len(queue') : queue'[i] = "new"
<1>. DEFINE F == {"old", "torn", "new"}
<1>1. queue \in Seq(F) /\ \A i \in 1..Len(queue) : queue[i] = "new"
  BY DEF Sides, QueueTyped, Clean
<1>2. \/ queue' = queue
      \/ queue # <<>> /\ queue' = Tail(queue)
      \/ queue' = Append(queue, "new")
  <2>1. CASE RadioTask
    BY <2>1 DEF RadioTask, Radio!Task, Radio!DeviceInit, Radio!Receive, Radio!Load,
       Radio!LoadFails, Radio!LoadMissed, Radio!Clear, Radio!RaiseCe, Radio!Poll,
       Radio!PollEnds, Radio!WaitBlocks, Radio!WaitReturns
  <2>2. CASE ImuTask
    <3>1. CASE Imu!SendFrame
      <4>1. rxBuf = "new"
        BY <3>1 DEF Imu!SendFrame, Clean, Imu!InStep
      <4>. QED
        BY <3>1, <4>1 DEF Imu!SendFrame
    <3>2. CASE ~ Imu!SendFrame
      BY <2>2, <3>2 DEF ImuTask, Imu!Task, Imu!Configure, Imu!WaitBlocks,
         Imu!WaitDataReady, Imu!WaitReturns, Imu!IntIsr, Imu!WaitStatus, Imu!CheckStatus,
         Imu!SingleRead, Imu!WaitPayload, Imu!taskVars
    <3>. QED
      BY <3>1, <3>2
  <2>3. CASE I2c
    BY <2>3 DEF I2c, Imu!Bus, Imu!StatusArrives, Imu!PayloadFills, Imu!PayloadArrives,
       Imu!RxCplt, Imu!taskVars
  <2>4. CASE ImuWorld
    BY <2>4 DEF ImuWorld, Imu!Nack, Imu!BusError, Imu!DataReadyEdge, Imu!Settle, Imu!taskVars
  <2>5. CASE DrEdge
    BY <2>5 DEF DrEdge, Radio!DrEdge
  <2>6. CASE UNCHANGED vars
    BY <2>6 DEF vars
  <2>. QED
    BY <2>1, <2>2, <2>3, <2>4, <2>5, <2>6 DEF Next
<1>. QED
  BY <1>1, <1>2

LEMMA CarriedStep ==
  Sides /\ Clean /\ "late" \notin Faults /\ [Next]_vars => Carried'
<1>. SUFFICES ASSUME Sides, Clean, "late" \notin Faults, [Next]_vars PROVE Carried'
  OBVIOUS
<1>. USE QueueStep DEF Carried, Clean
<1>1. CASE RadioTask
  <2>. USE IdleChip DEF Radio!handle, Radio!AfterSend
  <2>1. CASE Radio!DeviceInit \/ Radio!Clear \/ Radio!RaiseCe \/ Radio!Poll \/ Radio!PollEnds
    BY <2>1 DEF Radio!DeviceInit, Radio!Clear, Radio!RaiseCe, Radio!Poll, Radio!PollEnds
  <2>2. CASE Radio!Receive
    <3>1. Head(queue) = "new"
      BY <2>2 DEF Radio!Receive, Sides, QueueTyped
    <3>. QED
      BY <2>2, <3>1 DEF Radio!Receive
  <2>3. CASE Radio!Load \/ Radio!LoadFails \/ Radio!LoadMissed
    BY <2>3 DEF Radio!Load, Radio!LoadFails, Radio!LoadMissed
  <2>4. CASE Radio!WaitBlocks \/ Radio!WaitReturns
    BY <2>4 DEF Radio!WaitBlocks, Radio!WaitReturns
  <2>. QED
    BY <1>1, <2>1, <2>2, <2>3, <2>4 DEF RadioTask, Radio!Task
<1>2. CASE ImuTask \/ I2c \/ ImuWorld \/ UNCHANGED vars
  BY <1>2 DEF ImuTask, I2c, ImuWorld, vars, rfVars
<1>3. CASE DrEdge
  BY <1>3, IdleChip DEF DrEdge, Radio!DrEdge, Radio!handle
<1>. QED
  BY <1>1, <1>2, <1>3 DEF Next

\* One step keeps a clean node clean.
LEMMA CleanStep == Sides /\ Clean /\ "late" \notin Faults /\ [Next]_vars => Clean'
<1>. SUFFICES ASSUME Sides, Clean, "late" \notin Faults, [Next]_vars PROVE Clean'
  OBVIOUS
<1>1. calm' /\ Imu!InStep'
  <2>1. calm'
    BY DEF Clean, Next, vars, imuVars, RadioTask, ImuTask, I2c, ImuWorld, DrEdge, Imu!Task,
       Imu!Configure, Imu!WaitBlocks, Imu!WaitDataReady, Imu!WaitReturns, Imu!IntIsr,
       Imu!WaitStatus, Imu!CheckStatus, Imu!SingleRead, Imu!WaitPayload, Imu!SendFrame,
       Imu!Bus, Imu!StatusArrives, Imu!PayloadFills, Imu!PayloadArrives, Imu!RxCplt,
       Imu!Nack, Imu!BusError, Imu!DataReadyEdge, Imu!Settle
  <2>2. ImuSide!InStep'
    BY ImuStep, SameImuStep, SameImuPredicates, SidesAssumptions, ImuSide!InStepStep
       DEF Sides, Clean
  <2>3. Imu!InStep'
    BY <2>2, SameInStepNext
  <2>. QED
    BY <2>1, <2>3
<1>2. Carried'
  BY CarriedStep
<1>. QED
  BY <1>1, <1>2 DEF Clean, Carried

\* However the tasks are scheduled, nothing between the sample and the antenna
\* turns a clean node's frames stale or torn (imu_data_input.c:46-78,
\* nrf905_link.c:45-64, callbacks.c:66-103).
THEOREM NodeStaysClean == Spec => CleanStays
<1>1. Sides /\ [Next]_vars => [Clean /\ "late" \notin Faults => Clean']_vars
  BY CleanStep
<1>. QED
  BY <1>1, SidesInvariant, PTL DEF Spec, CleanStays

Healthy == Regimes = {TRUE} /\ "late" \notin Faults

\* A node that starts healthy is clean, and what it has transmitted was new.
NInv == Healthy => Clean /\ aired \in {"new", Nothing}

LEMMA InitNInv == Init => NInv
<1>. SUFFICES ASSUME Init, Healthy PROVE Clean /\ aired \in {"new", Nothing}
  BY DEF NInv
<1>1. calm /\ Imu!InStep
  BY DEF Init, Healthy, Imu!Init, Imu!InStep, Imu!BusAtRest
<1>. QED
  BY <1>1 DEF Init, Imu!Init, Radio!Init, Clean

\* Only new samples get on the air of a node that starts healthy, whatever its
\* SPI bus and its initialisation do.
THEOREM OnlyNewOnAir == Spec => []AiredIsNew
<1>1. Sides /\ NInv /\ [Next]_vars => NInv'
  <2>. SUFFICES ASSUME Sides, NInv, [Next]_vars, Healthy
                PROVE  Clean' /\ aired' \in {"new", Nothing}
    BY DEF NInv, Healthy
  <2>1. Clean /\ "late" \notin Faults /\ aired \in {"new", Nothing}
    BY DEF NInv, Healthy
  <2>2. aired' \in {"new", Nothing}
    <3>1. CASE DrEdge
      BY <2>1, <3>1 DEF DrEdge, Radio!DrEdge, Clean
    <3>2. CASE RadioTask
      BY <2>1, <3>2 DEF RadioTask, Radio!Task, Radio!DeviceInit, Radio!Receive, Radio!Load,
         Radio!LoadFails, Radio!LoadMissed, Radio!Clear, Radio!RaiseCe, Radio!Poll,
         Radio!PollEnds, Radio!WaitBlocks, Radio!WaitReturns
    <3>3. CASE ImuTask \/ I2c \/ ImuWorld \/ UNCHANGED vars
      BY <2>1, <3>3 DEF ImuTask, I2c, ImuWorld, vars, rfVars
    <3>. QED
      BY <3>1, <3>2, <3>3 DEF Next
  <2>. QED
    BY <2>1, <2>2, CleanStep
<1>2. NInv => AiredIsNew
  BY DEF NInv, Healthy, AiredIsNew
<1>. QED
  BY <1>1, <1>2, InitNInv, SidesInvariant, PTL DEF Spec
=============================================================================
