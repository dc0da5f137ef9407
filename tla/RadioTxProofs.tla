--------------------------- MODULE RadioTxProofs ----------------------------
(***************************************************************************)
(* Proofs about the radio task, for every number of polls, every length of *)
(* the queue and every combination of faults.                              *)
(***************************************************************************)
EXTENDS RadioTx, TLAPS

LEMMA NotifyTyped ==
  ASSUME NEW n \in N!Notification({DR_INT})
  PROVE  /\ N!Notify(n, {DR_INT}) \in N!Notification({DR_INT})
         /\ N!TakeAndClear(n, {DR_INT}) \in N!Notification({DR_INT})
         /\ N!Block(n) \in N!Notification({DR_INT})
BY DEF N!Notification, N!States, N!Notify, N!TakeAndClear, N!Block

LEMMA InitTyped == Init => TypeOK
<1> SUFFICES ASSUME Init PROVE TypeOK
  OBVIOUS
<1>1. notif \in N!Notification({DR_INT})
  BY DEF Init, N!Notification, N!States, N!Quiet
<1>2. queue \in Seq(Frames) /\ Len(queue) <= QueueLen /\ polls \in 0..PollLimit
  BY RadioTxAssumption DEF Init
<1>3. QED
  BY <1>1, <1>2 DEF Init, TypeOK, PCs, Results

LEMMA StepTyped == TypeOK /\ [Next]_vars => TypeOK'
<1> SUFFICES ASSUME TypeOK, [Next]_vars PROVE TypeOK'
  OBVIOUS
<1> USE RadioTxAssumption DEF TypeOK, PCs, Results, handle, AfterSend
<1>1. CASE DeviceInit
  BY <1>1 DEF DeviceInit
<1>2. CASE Receive
  BY <1>2 DEF Receive
<1>3. CASE Load \/ LoadFails \/ LoadMissed
  BY <1>3 DEF Load, LoadFails, LoadMissed
<1>4. CASE Clear \/ RaiseCe
  <2>1. PollLimit \in 0..PollLimit
    OBVIOUS
  <2>2. QED
    BY <1>4, <2>1 DEF Clear, ClearFinished, RaiseCe
<1>5. CASE Poll \/ PollEnds
  <2>1. CASE Poll
    <3>1. polls' \in 0..PollLimit
      BY <2>1 DEF Poll, PollsLeft
    <3>2. QED
      BY <2>1, <3>1 DEF Poll
  <2>2. CASE PollEnds
    BY <2>2 DEF PollEnds
  <2>3. QED
    BY <1>5, <2>1, <2>2
<1>6. CASE WaitBlocks \/ WaitReturns
  BY <1>6, NotifyTyped DEF WaitBlocks, WaitReturns
<1>7. CASE DrEdge
  BY <1>7, NotifyTyped DEF DrEdge, ExtiCallback
<1>8. ASSUME NEW f \in Frames, Put(f) PROVE TypeOK'
  BY <1>8 DEF Put
<1>9. CASE UNCHANGED vars
  BY <1>9 DEF vars
<1>10. QED
  BY <1>1, <1>2, <1>3, <1>4, <1>5, <1>6, <1>7, <1>8, <1>9 DEF Next, Task

\* Every variable of the radio side keeps its type: the poll counter never
\* passes zero (driver_nrf905.c:628-632), the queue never its length.
THEOREM TypeCorrect == Spec => []TypeOK
  BY InitTyped, StepTyped, PTL DEF Spec

-----------------------------------------------------------------------------

Unnotified == notif = N!Quiet \/ notif = N!Block(N!Quiet)
Notified == notif = N!Notify(N!Quiet, {DR_INT})

\* Where chip, flag and notification stand at each point of the task.
InStep ==
  \/ pc \in {"init", "receive", "load", "clear"} /\ chip = "idle" /\ notif = N!Quiet
  \/ pc = "raise" /\ chip = "idle" /\ notif = N!Quiet /\ ~finished
  \/ pc = "poll" /\ chip = "own" /\ notif = N!Quiet /\ ~finished
  \/ pc = "poll" /\ chip = "idle" /\ Notified /\ finished
  \/ pc = "waitDr" /\ result \in {0, 5} /\ chip = "own" /\ Unnotified
  \/ pc = "waitDr" /\ result \in {0, 5} /\ chip = "idle" /\ Notified
  \/ pc = "waitDr" /\ result \in {1, 3} /\ chip = "idle" /\ Unnotified

\* What the chip transmits: nothing before CE is raised, all it holds by then.
OnAir == IF addressed THEN payload ELSE Nothing
AiredInStep ==
  /\ pc \in {"load", "clear", "raise"} => aired = Nothing
  /\ pc = "poll" => aired = IF finished THEN OnAir ELSE Nothing
  /\ pc = "waitDr" /\ result = 0 => chip = "idle" /\ aired = OnAir

IInv == TypeOK /\ InStep /\ AiredInStep

LEMMA InitIInv == Init => IInv
<1> SUFFICES ASSUME Init PROVE IInv
  OBVIOUS
<1>1. InStep /\ AiredInStep
  BY DEF Init, InStep, AiredInStep
<1>2. QED
  BY <1>1, InitTyped DEF IInv

LEMMA InStepStep == TypeOK /\ InStep /\ [Next]_vars => InStep'
<1> SUFFICES ASSUME TypeOK, InStep, [Next]_vars PROVE InStep'
  OBVIOUS
<1> USE DEF InStep, Unnotified, Notified, handle, AfterSend, N!Quiet, N!Block, N!Notify
<1>1. CASE DeviceInit
  BY <1>1 DEF DeviceInit
<1>2. CASE Receive
  BY <1>2 DEF Receive
<1>3. CASE Load \/ LoadFails \/ LoadMissed
  BY <1>3 DEF Load, LoadFails, LoadMissed
<1>4. CASE Clear \/ RaiseCe
  BY <1>4 DEF Clear, ClearFinished, RaiseCe
<1>5. CASE Poll \/ PollEnds
  BY <1>5 DEF Poll, PollsLeft, PollEnds
<1>6. CASE WaitBlocks
  BY <1>6 DEF WaitBlocks
<1>7. CASE WaitReturns
  BY <1>7 DEF WaitReturns, N!Received, N!TakeAndClear
<1>8. CASE DrEdge
  BY <1>8 DEF DrEdge, ExtiCallback
<1>9. ASSUME NEW f \in Frames, Put(f) PROVE InStep'
  BY <1>9 DEF Put
<1>10. CASE UNCHANGED vars
  BY <1>10 DEF vars
<1>11. QED
  BY <1>1, <1>2, <1>3, <1>4, <1>5, <1>6, <1>7, <1>8, <1>9, <1>10 DEF Next, Task

LEMMA AiredStep == TypeOK /\ InStep /\ AiredInStep /\ [Next]_vars => AiredInStep'
<1> SUFFICES ASSUME TypeOK, InStep, AiredInStep, [Next]_vars PROVE AiredInStep'
  OBVIOUS
<1> USE DEF InStep, AiredInStep, OnAir, Unnotified, Notified, handle, AfterSend, N!Quiet, N!Block,
    N!Notify
<1>1. CASE DeviceInit
  BY <1>1 DEF DeviceInit
<1>2. CASE Receive
  BY <1>2 DEF Receive
<1>3. CASE Load \/ LoadFails \/ LoadMissed
  BY <1>3 DEF Load, LoadFails, LoadMissed
<1>4. CASE Clear \/ RaiseCe
  BY <1>4 DEF Clear, ClearFinished, RaiseCe
<1>5. CASE Poll \/ PollEnds
  BY <1>5 DEF Poll, PollsLeft, PollEnds, TypeOK
<1>6. CASE WaitBlocks \/ WaitReturns
  BY <1>6 DEF WaitBlocks, WaitReturns
<1>7. CASE DrEdge
  BY <1>7 DEF DrEdge, ExtiCallback
<1>8. ASSUME NEW f \in Frames, Put(f) PROVE AiredInStep'
  BY <1>8 DEF Put
<1>9. CASE UNCHANGED vars
  BY <1>9 DEF vars
<1>10. QED
  BY <1>1, <1>2, <1>3, <1>4, <1>5, <1>6, <1>7, <1>8, <1>9 DEF Next, Task

THEOREM Inductive == Spec => []IInv
<1>1. IInv /\ [Next]_vars => IInv'
  BY StepTyped, InStepStep, AiredStep DEF IInv
<1>2. QED
  BY <1>1, InitIInv, PTL DEF Spec

\* The chip is idle whenever the task is about to load it or to raise CE: the
\* wait after every send (nrf905_link.c:56) serialises the packets.
THEOREM PacketsAreSerial == Spec => []OneOnAir
<1>1. IInv => OneOnAir
  BY DEF IInv, InStep, OneOnAir
<1>2. QED
  BY <1>1, Inductive, PTL

\* The flag (driver_nrf905.c:619) and the notification (callbacks.c:97-100) of
\* the DR interrupt are never those of another packet.
THEOREM DrIsTheFramesOwn == Spec => []DrTellsOfThisFrame
<1>1. IInv => DrTellsOfThisFrame
  BY DEF IInv, InStep, DrTellsOfThisFrame, Unnotified, Notified, N!Received, N!Quiet,
     N!Block, N!Notify
<1>2. QED
  BY <1>1, Inductive, PTL

\* Once a send has failed before CE was raised, the task stays in its unbounded
\* wait (nrf905_link.c:51-56), under any fault and any order of events.
THEOREM FailureIsFinal == Spec => FailedSendIsFinal
<1>1. IInv /\ [Next]_vars
      => [Failed => pc' = "waitDr" /\ chip' = "idle"]_vars
  <2> SUFFICES ASSUME IInv, Next, Failed
               PROVE  pc' = "waitDr" /\ chip' = "idle"
    OBVIOUS
  <2>1. chip = "idle" /\ Unnotified
    BY DEF IInv, InStep, Failed
  <2>2. ~ WaitReturns
    BY <2>1 DEF WaitReturns, Unnotified, N!Received, N!Quiet, N!Block
  <2>3. QED
    BY <2>1, <2>2 DEF Next, Task, DeviceInit, Receive, Load, LoadFails, LoadMissed, Clear,
       RaiseCe, Poll, PollEnds, WaitBlocks, DrEdge, Put, Failed
<1>2. QED
  BY <1>1, Inductive, PTL DEF Spec, FailedSendIsFinal

\* Result 0 of nrf905_send (driver_nrf905.c:634-641) is the truth about the chip,
\* under any fault: the packet is out, and is what the chip held.
THEOREM SuccessIsTransmission == Spec => []SentMeansAired
<1>1. IInv => SentMeansAired
  BY DEF IInv, AiredInStep, OnAir, SentMeansAired
<1>2. QED
  BY <1>1, Inductive, PTL
=============================================================================
