# Verification of the real-time telemetry system

TLA+ models of the telemetry system in `src/`: an STM32 node that samples an
MPU-6050 and transmits the samples with an nRF905, an ESP32 gateway that
receives them and forwards them over UDP, a Python server that broadcasts them
to web sockets, and a browser that displays them. The models are checked with
TLC on small instances; the properties that matter most are proved with TLAPS
for all values of the constants.

## 1. The system

```
 MPU-6050 --INT/I2C--> mpu6050 task --mpu_queue_handle--> nrf905 task --SPI--> nRF905
                          (STM32, priority 1)      (8)     (STM32, priority 2)    |
                                                                                433 MHz
                                                                                  |
 browser <--WebSocket-- udp_server.py <--UDP-- UDP client <--rf_queue_handle-- nrf905 task
                                             (ESP32)             (8)            (ESP32)
```

| Component (source under `src/`) | State | Operations | Talks to |
|---|---|---|---|
| IMU task (`STM32L4/Core/mpu6050/imu_data_input.c`, the single-sample path of `Lib/mpu6050_lib/mpu-6050.c`) | `int_status`, the static DMA buffer, the task's notification record 0 | configure; wait for data ready, for the status, for the payload; start the two DMA reads; parse and queue | chip by I2C/DMA; callbacks of `callbacks.c`; `mpu_queue_handle` |
| Notifications (`FreeRTOS/source/tasks.c`) | per task and index: state byte and 32-bit value | `xTaskNotifyWait`, `xTaskNotifyFromISR(eSetBits)`, `ulTaskNotifyValueClear` | every task |
| SPI interface (`STM32L4/Core/nrf905/driver_nrf905_interface.c`) | notification record 1 of the radio task, `hspi1`, chip select | read, write, transmit; 100 ms wait; abort | HAL, `callbacks.c` |
| Radio task (`nrf905_link.c`, `nrf905_init.c`, `nrf905_send` in `Lib/nrf905_lib/driver_nrf905.c`) | `rf_handle.inited`, `.finished`, notification record 0 | device initialisation, receive from the queue, load, clear the flag, CE, poll, wait for DR | chip by SPI; DR interrupt |
| Register configuration of both radios (`driver_nrf905.c`, `nrf905_init.c`, `rf_init.c`) | `conf[]`, the chip's registers, bus and pins | initialise and release, setters and getters, write the register, the channel command | chips |
| RF receiver (`ESP32/.../rf_link.c`, `rf_peripherals.c`) | notification bits DR/AM/CD, `rx_data`, `rf_queue_handle` | initialise, wait 5 s, read the payload, queue for 10 ms | chip by SPI; three interrupts |
| UDP client (`ESP32/.../udp_client.c`) | `parsed_payload` | receive for 1 s, parse and send, or send a heartbeat | network |
| Wi-Fi station (`ESP32/.../wifi_connect.c`, `main/telemetry_gateway.c`) | `s_retry_num`, the event group | the event handler's three cases, the start of the tasks | Wi-Fi driver, event loop |
| Server (`server/udp_server.py`) | the set of clients, the sample counter | accept, close, receive a datagram, broadcast | sockets |
| Viewer (`visualization/app.js`) | socket, calibration sums, last timestamp, orientation | connect, calibrate, update from a sample | server |
| MPU-6050 library (`Lib/mpu6050_lib/mpu-6050.c`) | `MPU_6050_t`, the sensor's registers and FIFO, `bus_status` | init, modes, sources, FIFO content, ranges, self test, FIFO reset; burst interrupts | sensor by I2C |

What is hard, and what makes each part correct:

- **IMU task.** Three waits on one notification record, two of which do not
  look at the bits they were woken with; completions of two transfers may merge
  into one notification; the callback and the task may both start the payload
  read; start errors are ignored; the queue blocks. It is correct when it never
  gets stuck while the chip samples and when what it queues is, after a bounded
  number of frames, one whole new sample each; a bus error takes the second away.
- **SPI interface.** A time-out races with the completion; the next call clears
  the bits of the record but not its state; an error of the DMA leaves one of two
  channels busy. It is correct when result 0 means that the bytes were exchanged
  and when no transfer that still clocks bytes outlives its call.
- **Radio task.** A flag and a notification set by the same interrupt are
  consumed at different places; a send may time out while its packet is in the
  air; the wait for DR has no limit. It is correct when packets are serial, when
  each DR is attributed to its frame, and when what is queued gets on the air.
- **Both tasks on one core.** Priorities, the full queue, a fault of one side
  stopping the other.
- **Register configuration.** Setters write fields of shared bytes in any order
  and reach the chip only with a later write; every step of the initialisation
  can fail, and the clean-up after it can fail too. It is correct when two radios
  that both report success hear each other and a failure leaves nothing behind.
- **Gateway.** Three interrupts and a time-out share one wait; DR is an edge; a
  failed read is only logged. It is correct when no received packet is ignored
  and timestamps never run backwards. That none is forwarded twice fails with the
  first failed read, and only there.
- **Wi-Fi station.** Events are handled after the fact; retries are counted; the
  last failure calls nothing that would cause another event, nor does an
  association that never gets an address.
- **Encodings.** Three of them, with two byte orders and a shared buffer that the
  heartbeat reuses. They are correct when the server reads the values the sensor
  measured.
- **Server.** Viewers join, leave and stop reading at every `await` of a
  broadcast, which holds the loop. It is correct when a viewer that stays misses
  nothing and one that left is forgotten.
- **Viewer.** Events of a socket come late; each connection calibrates anew; the
  unit of a time step is guessed. It is correct when no orientation is shown
  without offsets of its own connection, no step is longer than the time that
  passed, and time that is integrated again is bounded.
- **MPU-6050 library.** Calls are sequences of register writes, each of which can
  fail after others took effect; the handle is updated in the middle; a nested
  call releases the bus lock. It is correct when the handle describes the sensor
  and interrupts keep off the bus during a call.

## 2. The modules

Every action names its handler or step; `PROJECT.json` maps each definition to
its lines. Variants such as `RestoreRanges` or `NoAbort` stand next to a
definition and are used nowhere in the specifications: they are plausible
mistakes, with which each property that is checked has been seen to fail.

| Module | Models | State against the code |
|---|---|---|
| `RtosNotify` | one notification record | `state` is `ucNotifyState`, `value` the set of the bits of `ulNotifiedValue` |
| `ImuTask` | the IMU side | `pc` is the position in `mpu6050_handler`; `i2c` the HAL state with the progress of the DMA, `jammed` READY with the DMA channel busy for ever; `rxBuf` whether `dma_i2c_rx_buf` holds a new sample, one queued before, or bytes of two; `calm` the regime (below) |
| `SpiBus` | one SPI call at a time | `dma` says whose transfer `hspi1` runs, or which half of a broken one is left: `stuck`, the TX channel busy; `armed`, RX armed behind it; `residue` is what an error left in the FIFOs; `done` and `late` are histories |
| `RadioTx` | the radio side | `chip` says whose packet is in the air; `finished`, `inited` are fields of `rf_handle`; `payload` and `addressed` are registers of the chip; `aired` is a history |
| `Stm32Node` | `ImuTask` and `RadioTx` composed | both instances share `queue`; `Scheduled` is the preemptive priority rule |
| `RfGateway` | receiver and UDP client of the gateway | a frame is its timestamp; `chip` the packet in the receiver with DR high; `received` the last datagram on the network; `listening` and `drEnabled` whether the receiver and its interrupt were set up; `readFailed` is a history: the last read failed |
| `WifiStation` | station, event loop, start-up | `events` is the loop's queue; `retry`, `bits` as in the code; `drops` is a history |
| `Relay` | the abstract promise of every stage: what comes out went in before, and never later what went in earlier; the same item again is a stutter | implemented by `RfGateway` (one receiver, the network) and by `UdpServer` (every connection) |
| `UdpServer` | server | `clients`, `current` as in the code; `pending`, `draining`, `failed` is where each send of the `gather` stands; `transit` what a connection owes; `seen` is a history |
| `Viewer` | page, and the clocks of node and browser | names of `app.js`; `biasOf` is the set of connections whose messages made the offsets, and with `inputs`, `since`, `sinceAt`, `previousAt` and `total` a history |
| `FrameCodec` | the three encodings of a sample | `frame`, `parsed`, `datagram`, `got` are the sample at the four places; `meant` is a history |
| `Nrf905Conf` | one nRF905 and its driver | `conf`, `inited` of the handle; `regs`, `txAddress`, `pins` of the chip; `at` the step of `nrf905_device_init`; `meant`, `asked`, `torn`, `stuck` are histories |
| `RadioLink` | `FrameCodec` over two instances of `Nrf905Conf` | `Node` and `Gateway` with the constants of their headers; a packet is received only when `InTouch` |
| `Mpu6050Driver` | configuration functions of the sensor's library | `handle` is the configuration in `MPU_6050_t`; `locked` is `bus_status`; `at` the register access of the call under way; `inited`, `damage`, `manual` are histories |
| `Mpu6050Burst` | its interrupt handlers in burst mode | `raw`, `fifo_count`, `fifo_oflow_flag` as in the code; `transfer` the read under way, or `jammed`; `reset` the position in `MPU_6050_fifo_reset` |
| `*Proofs` | theorems about the module of that name; `RadioLinkProofs` also about `FrameCodec` and `SpiBus`, `GatewayProofs` about `RfGateway` and `WifiStation`, `ServerViewerProofs` about `UdpServer` and `Viewer`, `Mpu6050Proofs` about `Mpu6050Driver` and `Mpu6050Burst` | |

Decisions that the properties depend on:

- *Atomicity of the node.* Interrupts of the node share one priority and do not
  nest, so a callback is one step. A task is cut wherever it reads or writes
  something that an interrupt, the DMA or the other task touches.
- *Atomicity of the server.* It is one thread: a step is what runs between two
  `await`s, and everything else happens at these.
- *The HAL is READY before the callback runs* (`stm32l4xx_hal_i2c.c:6888-6939`),
  which is why the callback can start the next transfer. An error has no
  callback in the application, so nobody is told. A NACK ends with a STOP, which
  aborts the DMA (`:6208-6266`). A bus or arbitration error does not: the memory
  reads set `PreviousState` to NONE, so `I2C_ITError` (`:6618-6742`) frees the
  handle and not the DMA channel, and `HAL_DMA_Start_IT` refuses every later read.
- *SPI errors.* An overrun or a mode fault aborts both DMA channels. A DMA error
  of the RX channel frees the handle and leaves the TX channel busy
  (`hal_spi.c:3371`); the next start arms RX, is refused TX and returns with the
  handle BUSY (`:2281-2310`), which an abort resets and the busy channel survives.
  The interrupts that the bytes left in the FIFOs still raise are modelled, their
  values are not.
- *An SPI call is one step of `RadioTx`.* Its possible results are those that
  `SpiBus` exhibits: success, failure (anything may have been written), and, with
  the fault `"late"`, success without the bytes.
- *The regime.* The chip samples every 16 ms (`SMPLRT_DIV` 15) and two transfers
  take under 1 ms. `calm` says that from now on a sample comes only when the
  cycle of the last one is over and that the bus has no faults from then on; the
  DMA channel may have been jammed before. The guard is the weakest one tried:
  with edges allowed whenever the bus is READY the handler need not get back into
  step. Before `calm`, edges and errors come at any time.
- *A register write of the MPU library is one step*, the read before it included:
  the lock and the single caller leave nothing to come between. A failed access
  may or may not have reached the sensor. The self test's ten measurements are
  one. A FIFO is counted in samples.
- *The lock of the MPU library waits 10 ms and goes on all the same*
  (`mpu-6050.c:1327-1332`). The default burst of 560 bytes takes longer at 400 kHz,
  so in `Mpu6050Burst` the wait may end with any transfer running; the first
  access of the reset then returns `HAL_BUSY` and the reset is given up.
- *Failures happen; histories remember them.* Where a property holds only up to a
  failure, the failure stays possible and a history (`readFailed`, `damage`,
  `torn`, `stuck`, `late`) says that it happened.
- *External parts.* An nRF905 completes the packet in the air when CE falls; DR
  falls when the payload has been read out; a packet that finds DR high replaces
  the unread one or not. No DR edge comes before the first packet. It receives a
  packet when channel, band, checksum, address and lengths agree.

## 3. The runs

| Run | Instance | States | Shows |
|---|---|---|---|
| `ImuTask` | queue 2, `SettlingFrames` 3, starts in the wild regime | 24 thousand | `Stabilises`: after the regime became calm at most three bad frames are queued, and 3 is tight (with 2 TLC finds a counterexample), unless a bus error came before; `JamFreezesFrames`: after one, no new frame is ever queued again; `KeepsQueueing` in either regime, jammed or not; `FreshFrames` in the calm one, if not jammed |
| `ImuTaskForward` | the same | | finding: a frame can be forwarded while its DMA transfer still runs |
| `SpiBus` | complete, no bound | 646 | a result is honest, and no clocking transfer or notification outlives its call, unless a callback ran that no call waited for; a channel that a DMA error left busy stays so and no call succeeds again; every call returns |
| `RadioTx` | 2 frames, queue 2, 2 polls, all faults | 3248 | `DrTellsOfThisFrame`; `QueuedIsAired` up to the first failed send |
| `Stm32Node` | queue 2, 2 polls, calm start, radio faults | 10 thousand | `CleanStays`: a clean pipeline stays clean; `FreshOnAir`: new samples get on the air again and again; one failed SPI write silences the whole node |
| `RfGateway` | queue 2, 5 packets | 36 thousand | the network is a relay of the packets; a frame that is queued behind a working read is newer than all before it; a received packet is read, unless its read fails or the DR interrupt was never installed |
| `WifiStation` | 3 retries, 3 addresses, 3 pending events | 198 | gives up for good; the tasks start, unless the station stays associated without an address; a lost link is retried |
| `UdpServer` | 2 connections, socket 2, 1 message owed, 4 datagrams | 62 thousand | every attached viewer is owed exactly what was counted since it joined, gets it while the others read or leave; lost ones are forgotten; each connection is a relay of the datagrams |
| `Viewer` | 2 calibration samples, limits 2 and 3, clocks to 4, 2 sockets | 255 thousand | one socket at a time; offsets of the own connection; steps no longer than the time that passed; no moment integrated more than twice; a connection ends in an orientation |
| `Mpu6050Driver` | 2 axes, 2 ranges, all functions, 1 more call after a failed one | 2.5 million | the handle describes the sensor until a call fails; a mode change repairs; sample length and channels agree through all failures; data reads keep off the bus, with the exception of section 4 |
| `Mpu6050Burst` | FIFO of 7 samples, bursts of 3 | 4410 | from the write that empties the FIFO a reset has the bus to itself; a chain of bursts is ended by nothing but a failed transfer; an overflow ends in a reset or in one that is given up |
| `RadioLink` | bytes of 4 bits, 2 words | 162 thousand | two radios that report success agree, a failed start leaves nothing behind, handle and chip hold what was asked, the server reads what was measured |

**Bounds.** `QueueLen`, `SocketLen`: what matters of a queue here is empty, in
between, full; 2 has all three. `PollLimit`: the two ways out of the loop and a
turn that stays in it need two polls, not 5000. `MaxSent` in `RfGateway`: a full
queue of 2, a frame with the client, one in the buffer and one in the chip.
`MaximumRetry`, `MaxGain`: a reset of the counter between two partly used series.
`MaxPending`: an address, another one after a lost lease and a disconnection may
all be pending at once. `MaxDatagrams` 4: a full socket, one being broadcast and
one dropped. `MillisLimit` 2, `MicrosLimit` 3 and clocks up to 4 put a difference
below, between and above the limits of 10 000 and 10 000 000. `MaxSockets` 2: a
late event of the first while the second is there. `MaxAfterFailure` 1: a call
upon what a failed one left, before the next `MPU_6050_init`; the axes of the
accelerometer are two, the least that tells the last one from another, and those
of the gyroscope, which only repeat the temperature's case, none. `Capacity` 7: two bursts
and a remainder. `RadioLink` runs with bytes of four bits, as TLC's integers have
32, and with words and times at their boundaries; `RadioLinkProofs` is about
bytes of eight bits too, and about all values. In `RadioLink` the two boards start one
after the other, in either order, as they share nothing while they start, and
the driver is called by hand on one end only and before the first sample. None
of the constants of a module with proofs is bounded there.

**Deadlock** is checked except where the system really stops: the IMU side when
the ignored initialisation left the chip asleep, the radio side and the node after
a failed send, the station after it gave up, and where a bound of the model ends
the inputs.

**Fairness.** A FreeRTOS task that is ready is run: weak fairness of the task's
steps. On the shared core the kernel is only work-conserving, so `Stm32Node` has
weak fairness of *one of the tasks runs*, and what follows for the IMU task
follows from the radio task's blocking. A started I2C transfer and a packet in
the air end: weak fairness; an SPI transfer need not end, since the call bounds
its wait. The chip keeps sampling: strong fairness of the data-ready edge, as its
guard comes and goes. In `RfGateway` the receiver's task and the client's sending
run. asyncio's ready queue is first in, first out: weak fairness of each stretch
of the loop; that a viewer that stays connected reads is an assumption, which
only the liveness of `UdpServer` makes. In `Viewer` an open connection keeps
getting samples or heartbeats, which the gateway sends every second. In
`Mpu6050Burst` handlers and transfers end and the main program polls its flag.
In `WifiStation` the tasks run and an attempt to connect succeeds or fails; that
an access point gives an address, or that an association without one ends, is
not assumed. Faults, carriers, packets, lost links and the change of regime are never forced.

## 4. Findings

`ImuTaskForward` (`imu_data_input.c:68`): the library's workflow
(`Lib/mpu6050_lib/README.md:176-178`) waits for completion, then processes. The
handler's wait ends on any notification, and after it was held up, for instance
by the full queue, a data-ready edge is what ends it: it parses while the DMA
writes. `Stabilises` shows that the effect is bounded.

Behaviour that contradicts no document, or none precisely enough, but that a
reader should know of; the property named holds and marks the boundary:

- One bus or arbitration error on the I2C bus ends the data for good: the task
  goes on queueing, the radio goes on sending, and every frame is the last sample
  again (`JamFreezesFrames`). Nothing but a reset frees the DMA channel.
- One DMA error on the SPI bus may end the radio: no call succeeds again
  (`StuckForGood`), so the next send fails, which is final (below).
- After an SPI transfer that completed between its time-out and its abort, the
  next call is woken by its notification and a read returns 0 without data
  (`driver_nrf905_interface.c:115`, `SuccessMeansDoneUnlessLate`).
- One failed send silences the node: no DR edge comes, the task waits for ever,
  the queue fills and the IMU task stops (`FailureSilencesNode`,
  `FailedSendIsFinal`).
- One failed read can make the gateway deaf for good, as DR stays high
  (`DeafIsFinal`, `PacketsAreRead`), and a DR interrupt that could not be installed
  makes it deaf from the first packet. Either is only logged.
- Behind a failed read the gateway queues the last frame once more
  (`rf_link.c:74-79`). `SamplesAreNew` says that this happens nowhere else;
  `RelaysPackets` cannot see it, since a repeated item is a stutter of `Relay`.
- A station that associates and gets no address posts no event and sets no bit:
  `app_main` waits for ever and neither task is started (`AppStarts`).
- Eleven drops in a row end the Wi-Fi connection until a reset
  (`GivesUpForGood`), and the bits of the event group are never cleared, so that
  it records what has happened, not the present state (`wifi_connect.c:47`).
- One viewer that does not read holds the samples of all (`NobodyRunsAhead`:
  nobody gets further ahead than a connection may owe).
- Heartbeats of zeroes count for the viewer's calibration; a link without samples
  ends in an orientation all the same (`GetsOriented`). A gap between the two
  limits is read in microseconds, so that its step is too short; `StepNotTooLong`
  does not exclude that.
- After a restart of the node the time step falls back to the browser's clock,
  which may have been read long before and reaches back over time that was
  integrated already. `CountsTimeTwiceAtMost` bounds it.
- A new connection resets `hasOrientation`, but the drawing keeps the previous
  orientation until the calibration is over: `ShownIsCalibrated` is about the
  former.
- `MPU_6050_set_mode` calls `MPU_6050_fifo_reset`, which releases the lock it
  holds: the rest of the mode change runs unlocked (`AccessesUndisturbed`).
- `MPU_6050_set_fifo_content` changes the FIFO and not `payload_bytes`
  (`HandleMatchesSensor` is about calls before it). A self test cut off by an
  error leaves the ranges of the test, which no mode change repairs
  (`SetModeRepairs` is not about ranges). The retry of a
  `MPU_6050_set_source` whose second write failed returns OK without effect; the
  single mode leaves `FIFO_EN` of `USER_CTRL` on, with nothing written to the FIFO.
- In burst mode every completion recomputes the count from old bytes, so the end
  of a burst starts the next one, which may find too few samples, and so on: all
  other reads are refused meanwhile, an overflow goes unnoticed, and only a failed
  transfer or a reset that was asked for before ends it (`BurstsRunAway`). The
  code takes the field `burst_count` for the length and the macro `BURST_COUNT`
  for the threshold: the run has them equal, the theorems do not.
- A FIFO reset that finds a burst running after its 10 ms, or that meets any
  error, clears `fifo_oflow_flag` all the same and is not repeated
  (`OverflowIsHandled`): the FIFO stays full, or, when only the second write
  fails, off.
- `nrf905_channel_config` changes the chip and not `conf[]`: the next
  `nrf905_write_conf` undoes it (`ConfigurationsKept` holds the two apart).
- A failed `nrf905_deinit` leaves `inited` set (`FailuresRelease`).
- `fifo_parser` divides by `payload_bytes`, which legal calls bring to zero.

## 5. The proofs

All of the following hold for every value of the constants that satisfies the
named assumptions of the modules (`ImuTaskAssumption` and so on). These ask for no
more than the code gives: non-empty queues and natural bounds; a byte of 2, 4, 16
or 256 values in `FrameCodec`; for `Mpu6050Driver` one to three axes of the
accelerometer and up to three of the gyroscope, other names for the channels than
for the temperature, and a range that the self test sets; for `Mpu6050Burst`
bursts that fit into the FIFO; for `Viewer` a limit of the milliseconds below that
of the microseconds. `SettlesWithinThree` asks that the history can count to three.
Two theorems of `Nrf905ConfProofs` have a hypothesis on the callers,
`CallersAssumption`: values that are passed fit their fields or are refused.
`RadioLinkProofs` proves it of both headers and of the calls of `RadioLink`, where
nothing is left of it.

| Theorem | Statement | Inductive invariant |
|---|---|---|
| `ImuTaskProofs!TypeCorrect`, `KeepsStep` | types; in the calm regime the handler stays in step, and so (a lemma) queues whole new samples only | `InStep`, which lists, for every position of the handler, the notification, the transfer, the status bit and the buffer that belong to it |
| `ImuTaskProofs!SettlesWithinThree` | `Stabilises`: from whatever the wild regime left behind, at most three bad frames are queued once it is calm, unless the bus is jammed | `Settling`, a ranking: `Coupled`, which both regimes keep, and three sets of states, each in the one before it: `WithinTwo`, `WithinOne`, `InStep`. Between frames the calm regime leaves none of them (`WithinTwoStep`, `WithinOneStep`, `InStepStep`), and each frame leads into the next one (`FrameStep`) |
| `RadioLinkProofs!SpiTypeCorrect`, `SuccessIsHonest`, `CallLeavesNothing`, `SelectStaysLow`, `DmaErrorIsFinal` | the safety properties of `SpiBus`, also after a DMA error | `CallInStep`: without a late callback record, transfer, chip select and history agree at each position of a call; needed since the properties only speak of its ends. A channel that is stuck lets no call past its start, so the states behind it are the same |
| `RadioTxProofs!TypeCorrect`, `PacketsAreSerial`, `DrIsTheFramesOwn`, `FailureIsFinal`, `SuccessIsTransmission` | the safety properties of `RadioTx`, under all faults | `InStep` ties the chip, the flag and the notification to the position of the task; `AiredInStep` ties what is on the air to the payload register and the address |
| `Stm32NodeProofs!NodeImplementsRadio`, `NodeImplementsImu` | every behaviour of the node is one of the radio side and one of the IMU side | `QueueTyped`: the two sides agree on what the queue holds |
| `Stm32NodeProofs!NodeStaysClean`, `OnlyNewOnAir` | a clean pipeline stays clean; from a calm start only new samples get on the air | `Sides`, the invariants of the two sides carried over by the two theorems above, and `NInv` |
| `GatewayProofs!TypeCorrect`, `TimeNeverRunsBack`, `GatewayRelays`, `NewUnlessReadFails`, `HeardUnlessReadsFail`, `DeafForGood` | the safety properties of `RfGateway`; it implements `Relay` | `Ordered`: from the network to the antenna (datagram, client, queue, buffer, chip, node) timestamps do not decrease; `Fresh`: a packet in the chip is newer than the buffer, and a frame that was just read than everything behind it, whatever failed before; `EdgeKept` ties the chip's line to the notification |
| `GatewayProofs!WifiTypeCorrect`, `LateSurrender`, `FinalSurrender` | the station gives up only after more than `MaximumRetry` drops in a row, then for good | `Owed`: an idle station that has not given up has exactly one event pending that will make it connect, and it is the last one |
| `ServerViewerProofs!TypeCorrect`, `NothingIsMissed`, `HeldTogether`, `ServerRelays` | what an attached viewer is owed; how far one can be ahead; the server implements `Relay` for every connection | `Counted`, `Gathering`, `Living`, `Owed`, `Bounded`, `Served`: at each point of a broadcast every client is in just one of the sets that say where its send stands, and its connection owes the samples since it joined; `Arriving` and `InOrder` order the datagrams |
| `ServerViewerProofs!ViewerTypeCorrect`, `NeverTwoSockets`, `CalibratedBeforeShown`, `TimeCountsTwice`, `StepsAreNotTooLong` | the safety properties of `Viewer` | `Calibrated`: offsets and calibration belong to the connection that is open; `NoGain`: from a sample to a later one, along the way and up to the present, the node's clock gains no more than the browser's; `Referenced` keeps the reference of the time step behind the orientation's start, `Integrated` bounds what was integrated by the sum of what the two clocks have covered |
| `RadioLinkProofs!LinkImplementsCodec`, `TypeCorrect`, `CodecFaithful` | the link implements `FrameCodec`, and the server reads what the sensor measured, or the heartbeat's zeroes | `Encoded`: at each place the bytes are the encoding of `meant` |
| `Nrf905ConfProofs!TypesCorrect`, `ConfigurationIsKept`, `FailureAlwaysReleases` | handle and chip hold what was asked; a failed start leaves nothing behind; for every header | `Progress(k)`: what the steps of the initialisation before the `k`-th have achieved, field by field. It rests on the arithmetic of the driver's masks and shifts (`Insertion`, `InsertedByte`, `Sets`, `TakesChannelSets`): a field that is inserted reads back and no other field of its byte changes |
| `RadioLinkProofs!EndsAlwaysAgree`, `ConfigurationsAreKept`, `FailuresAlwaysRelease` | two radios that report success hear each other; the same two properties for both headers | `Ends`: the invariant of `Nrf905Conf` at either end, and `Done`, the whole of `Progress`, for as long as nobody calls the driver by hand |
| `Mpu6050Proofs!DriverTypeCorrect`, `HandleDescribesSensor`, `ModeChangeRepairs`, `PayloadIsTheLength`, `NothingDisturbs` | the safety properties of `Mpu6050Driver`, after any number of calls | `InProgram` ties the call under way to its list of accesses; `Underway`, with `DuringReset`, `DuringSource` and `DuringTest`, says for every position of every call which registers are already those of its end; `HasTheBus` does the same for the lock, `ModeSoFar` and `InitSoFar` for a call upon the remains of a failed one |
| `Mpu6050Proofs!BurstTypeCorrect`, `ResetIsAlone`, `BurstsNeverStop` | the safety properties of `Mpu6050Burst`; every burst that ends starts the next | `Resetting`: the bus is locked from the call of a FIFO reset to its return; `Counted`: a burst was started for a count that still is in the handle |

The theorems about the two sides carry over to the node: the composition shares
the queue, each side's steps are steps or stutters of the other side's
specification (the IMU task's `xQueueSendToBack` is the radio's `Put`, the
radio's `xQueueReceive` is the IMU's `Drain`), and scheduling only removes
behaviours.

Every safety property of the runs is stated by a theorem, except
`ForwardAfterCompletion`, which fails. TLC's runs keep those that say most:
`StaysInStep`, `SelectHeld`, `OneOnAir`, `SentMeansAired`, `FailedSendIsFinal`,
`AiredIsNew`, `TimestampsNeverDecrease`, `HearsUnlessReadFails`, `DeafIsFinal`,
`GivesUpLate`, `NobodyRunsAhead` and the type invariants other than the viewer's
rest on their theorems alone.

Only model-checked: everything under fairness (`KeepsQueueing`, `FreshFrames`,
`CallReturns`, `QueuedIsAired`, `FreshOnAir`, `FailureSilencesNode`,
`JamFreezesFrames`, `PacketsAreRead`, `AppStarts`, `Reconnects`, `GetsEverySample`,
`ForgetsTheLost`, `GetsOriented`, `OverflowIsHandled`), which is beyond the proof system's
reach along with ENABLED.

## 6. The order of the work, and what is left

The sampling node came first (`RtosNotify`, `ImuTask`, `SpiBus`, `RadioTx`,
`Stm32Node`), since everything behind it can only forward what it puts on the
air; then the gateway (`RfGateway`, `WifiStation`), the server, the viewer and
the encodings, and the configuration of the chips. Left for later work:

1. One composition of node, gateway, server and viewer, in which `Relay` is
   implemented from the sensor to the screen. `RadioLink` joins the chips and the
   encodings; `RfGateway` and `UdpServer` each implement `Relay`, but that two
   relays in a row are one is not stated.
2. A node that restarts while gateway and server go on. `Viewer` has restarts;
   upstream of it `RfGateway` speaks of one run of the node.

## 7. Not modelled

- Most of the files of `src/` are vendored: HAL, CMSIS, FreeRTOS. Of these the
  modules above model what the firmware relies on (notifications, bounded
  blocking queues, the states of a DMA transfer) and nothing else.
- Board bring-up, interrupt vectors and system calls: straight-line generated
  code; failures of it end the program (`Error_Handler`, `ESP_ERROR_CHECK`).
- The LED task, which shares nothing.
- Rendering and the arithmetic of the angles in the viewer; the scaling of
  samples to floats in the server and in the MPU library; the arithmetic of the
  self test. No interleaving touches them, and TLC has no reals.
- Functions that no part of the program calls and nothing depends on:
  `MPU_6050_set_lp_wakeup_freq`, `nrf905_update_conf`, `nrf905_set_reg`, the
  getters of the chip's payload registers.
- An I2C error in the few microseconds between the last byte of a read and its
  STOP interrupt, and the values of the bytes that an SPI error leaves in the
  FIFOs. `HAL_SPI_DeInit` on a failing `nrf905_init` would free a stuck channel,
  but runs only before the first call.
- A refused `esp_wifi_connect`, and failed allocations at start-up.
- The wrap of the 32-bit millisecond clock after 49 days, and a restart of the
  node as the gateway sees it: `RelaysPackets` speaks of one run of the node.
