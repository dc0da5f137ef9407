--------------------------- MODULE Mpu6050Driver ----------------------------
(***************************************************************************)
(* The configuration functions of the MPU-6050 library: which registers    *)
(* they write in which order, what they note in the handle and when, what  *)
(* an error leaves behind, and the library's bus lock, which keeps the     *)
(* interrupt handlers from reading data meanwhile.                         *)
(*                                                                         *)
(* A register is the set of its bits; a function is the sequence of its    *)
(* register writes.  The read before a write is part of the write.         *)
(***************************************************************************)
EXTENDS Integers, Sequences, FiniteSets

CONSTANTS
  AccelAxis, GyroAxis,  \* the axes that can be switched off
  FullScale,            \* full-scale ranges of both sensors
  Narrow,               \* DPS_250, G_2: the default
  TestRange,            \* the accelerometer's range during the self test
  Functions,            \* the functions the user calls (a bound of the model)
  MaxAfterFailure       \* calls after a failed one, before a new init (a bound of the model)

ASSUME Mpu6050DriverAssumption ==
  /\ AccelAxis \cap GyroAxis = {}
  /\ "TEMP" \notin AccelAxis \union GyroAxis /\ "ACCEL" \notin GyroAxis
  /\ IsFiniteSet(AccelAxis) /\ Cardinality(AccelAxis) \in 1..3
  /\ IsFiniteSet(GyroAxis) /\ Cardinality(GyroAxis) \in 0..3
  /\ "init" \in Functions
  /\ {Narrow, TestRange} \subseteq FullScale
  /\ MaxAfterFailure \in Nat

Axis == AccelAxis \union GyroAxis
Channel == Axis \union {"TEMP"}
Content == GyroAxis \union {"TEMP", "ACCEL"}
Mode == {"SINGLE", "BURST", "LOWPOWER"}
Register == {"INT_ENABLE", "USER_CTRL", "FIFO_EN", "PWR_MGMT_1", "PWR_MGMT_2",
             "GYRO_CONFIG", "ACCEL_CONFIG"}

Bits == [r \in Register |->
  CASE r = "INT_ENABLE" -> {"DATA_READY", "FIFO_OFLOW"}
    [] r = "USER_CTRL" -> {"FIFO_ENABLE"}
    [] r = "FIFO_EN" -> Content
    [] r = "PWR_MGMT_1" -> {"SLEEP", "CYCLE", "TEMP_DIS"}
    [] r = "PWR_MGMT_2" -> Axis
    [] r \in {"GYRO_CONFIG", "ACCEL_CONFIG"} -> FullScale \union {"SELF_TEST"}]

VARIABLES
  chip,    \* the registers of the sensor
  handle,  \* the fields of the MPU_6050_t that describe its configuration
  locked,  \* bus_status
  dma,     \* a data operation has the I2C peripheral
  call,    \* the function under way, or the one that returned last
  at,      \* its next access; 0 while lock_bus waits, -1 once it returned
  result,  \* its status
  saved,   \* what the self test read to restore it
  inited,  \* the last MPU_6050_init succeeded (a history)
  damage,  \* 0, or the calls since the first that failed after the last init (a history)
  manual   \* set_fifo_content was called since the last set_mode (a history)

vars == <<chip, handle, locked, dma, call, at, result, saved, inited, damage,
          manual>>
history == <<inited, damage, manual>>

Calls ==
  {c \in [fn : {"init", "fifo_reset", "self_test"}]
         \union [fn : {"set_mode"}, mode : Mode]
         \union [fn : {"set_sleep"}, on : BOOLEAN]
         \union [fn : {"set_source"}, ch : Channel, on : BOOLEAN]
         \union [fn : {"set_fifo_content"}, content : Content, on : BOOLEAN]
         \union [fn : {"set_range"}, reg : {"GYRO_CONFIG", "ACCEL_CONFIG"}, range : FullScale]
     : c.fn \in Functions}

TypeOK ==
  /\ \A r \in Register : chip[r] \subseteq Bits[r] /\ saved[r] \subseteq Bits[r]
  /\ handle.meas_mode \in Mode
  /\ handle.active_sources \subseteq Channel
  /\ handle.payload_bytes \in 0..(8 + 2 * Cardinality(GyroAxis))
  /\ handle.gyro_scale \in FullScale /\ handle.accel_scale \in FullScale
  /\ {locked, dma, inited, manual} \subseteq BOOLEAN
  /\ damage \in 0..(MaxAfterFailure + 1)
  /\ call \in Calls /\ at \in Int
  /\ result \in {"ok", "error", "refused"}

AfterReset == [r \in Register |->
  CASE r = "PWR_MGMT_1" -> {"SLEEP"}
    [] r \in {"GYRO_CONFIG", "ACCEL_CONFIG"} -> {Narrow}
    [] r \in {"INT_ENABLE", "USER_CTRL", "FIFO_EN", "PWR_MGMT_2"} -> {}]

Init ==
  /\ chip = AfterReset /\ saved = AfterReset
  /\ handle = [meas_mode |-> "SINGLE", active_sources |-> {}, payload_bytes |-> 0,
               gyro_scale |-> Narrow, accel_scale |-> Narrow]
  /\ locked = FALSE /\ dma = FALSE
  /\ call = [fn |-> "init"] /\ at = -1 /\ result = "ok"
  /\ inited = FALSE /\ damage = 0 /\ manual = FALSE

-----------------------------------------------------------------------------
(* The functions as sequences of register writes.                          *)

Put(reg, value) == [reg |-> reg, clear |-> Bits[reg], set |-> value, unlocks |-> FALSE]
BitsOn(reg, bits) == [Put(reg, bits) EXCEPT !.clear = {}]
BitsOff(reg, bits) == [Put(reg, {}) EXCEPT !.clear = bits]
Switch(reg, bits, on) == IF on THEN BitsOn(reg, bits) ELSE BitsOff(reg, bits)

\* The end of MPU_6050_fifo_reset switches the FIFO on and the lock off.
FifoReset == <<BitsOff("USER_CTRL", {"FIFO_ENABLE"}),
               [BitsOn("USER_CTRL", {"FIFO_ENABLE"}) EXCEPT !.unlocks = TRUE]>>

FifoOff == <<Put("INT_ENABLE", {"DATA_READY"}), BitsOff("USER_CTRL", {"FIFO_ENABLE"}),
             Put("FIFO_EN", {})>> \o FifoReset
FifoOn == <<Put("INT_ENABLE", {"FIFO_OFLOW"}), BitsOn("USER_CTRL", {"FIFO_ENABLE"}),
            Put("FIFO_EN", Content)>>
NormalPowerNoWake ==
  <<BitsOff("PWR_MGMT_1", {"TEMP_DIS"}), BitsOff("PWR_MGMT_2", GyroAxis),
    BitsOff("PWR_MGMT_2", AccelAxis), BitsOff("PWR_MGMT_1", {"SLEEP"})>>
NormalPower == <<BitsOff("PWR_MGMT_1", {"TEMP_DIS"}), BitsOff("PWR_MGMT_2", GyroAxis),
                 BitsOff("PWR_MGMT_2", AccelAxis), BitsOff("PWR_MGMT_1", {"CYCLE"}),
                 BitsOff("PWR_MGMT_1", {"SLEEP"})>>
CyclePower == <<BitsOn("PWR_MGMT_1", {"TEMP_DIS"}), BitsOn("PWR_MGMT_2", GyroAxis),
                BitsOff("PWR_MGMT_2", AccelAxis), BitsOff("PWR_MGMT_1", {"SLEEP"}),
                BitsOn("PWR_MGMT_1", {"CYCLE"})>>

SetMode == [m \in Mode |->
  CASE m = "SINGLE" -> FifoOff \o NormalPower
    [] m = "BURST" -> FifoOn \o NormalPower
    [] OTHER -> FifoOff \o CyclePower]

\* All axes on, fixed ranges, the measurements (one of ten), everything back.
\* The two ranges are written at once; a failure may leave one of them.
RestoreRanges == <<Put("GYRO_CONFIG", saved["GYRO_CONFIG"]),
                   Put("ACCEL_CONFIG", saved["ACCEL_CONFIG"])>>
Restore == <<Put("GYRO_CONFIG", saved["GYRO_CONFIG"]), Put("ACCEL_CONFIG", saved["ACCEL_CONFIG"]),
             Put("PWR_MGMT_1", saved["PWR_MGMT_1"]), Put("PWR_MGMT_2", saved["PWR_MGMT_2"])>>
SelfTest ==
  <<BitsOff("PWR_MGMT_1", {"SLEEP", "CYCLE"}), BitsOff("PWR_MGMT_2", Axis),
    Put("GYRO_CONFIG", {Narrow}), Put("ACCEL_CONFIG", {TestRange}),
    BitsOn("GYRO_CONFIG", {"SELF_TEST"}), BitsOn("ACCEL_CONFIG", {"SELF_TEST"}),
    BitsOff("GYRO_CONFIG", {"SELF_TEST"}), BitsOff("ACCEL_CONFIG", {"SELF_TEST"})>>
  \o Restore

\* In burst mode a channel is part of the FIFO's content, and the axes of the
\* accelerometer only together: the last to go, or the first to come, decides.
OthersOn(ch) == (handle.active_sources \ {ch}) \cap AccelAxis # {}
ContentChanges(ch) == handle.meas_mode = "BURST" /\ ~(ch \in AccelAxis /\ OthersOn(ch))
ContentOf(ch) == IF ch \in AccelAxis THEN "ACCEL" ELSE ch
SetSource(ch, on) ==
  <<IF ch = "TEMP" THEN Switch("PWR_MGMT_1", {"TEMP_DIS"}, ~on)
                   ELSE Switch("PWR_MGMT_2", {ch}, ~on)>>
  \o (IF ContentChanges(ch) THEN <<Switch("FIFO_EN", {ContentOf(ch)}, on)>> ELSE <<>>)

\* The range, then the reset of the signal path, which is no configuration.
SetRange(reg, range) ==
  <<[Put(reg, {range}) EXCEPT !.clear = FullScale], BitsOn(reg, {})>>

\* DEVICE_RESET, then the table init_registers.
DeviceReset == BitsOn("PWR_MGMT_1", {"DEVICE_RESET"})
InitTable == <<Put("PWR_MGMT_1", {}), Put("FIFO_EN", {}), Put("INT_ENABLE", {"DATA_READY"})>>

Program ==
  CASE call.fn = "init" -> <<DeviceReset>> \o InitTable
    [] call.fn = "fifo_reset" -> FifoReset
    [] call.fn = "self_test" -> SelfTest
    [] call.fn = "set_mode" -> SetMode[call.mode]
    [] call.fn = "set_sleep" -> <<Switch("PWR_MGMT_1", {"SLEEP"}, call.on)>>
    [] call.fn = "set_source" -> SetSource(call.ch, call.on)
    [] call.fn = "set_fifo_content" -> <<Switch("FIFO_EN", {call.content}, call.on)>>
    [] call.fn = "set_range" -> SetRange(call.reg, call.range)

-----------------------------------------------------------------------------
(* Calls and what they note in the handle.                                 *)

\* The user calls nothing else before an MPU_6050_init that succeeds.
Callable(c) == at = -1 /\ (c.fn = "init" \/ (inited /\ damage <= MaxAfterFailure))

\* MPU_6050_set_source returns before it takes the lock: it refuses in the
\* low-power mode, and a channel already in that state is left alone.
Unchanged(c) == c.fn = "set_source" /\ (c.ch \in handle.active_sources) = c.on
Refused(c) == c.fn = "set_source" /\ handle.meas_mode = "LOWPOWER"
ReturnsEarly(c) ==
  /\ Callable(c)
  /\ Refused(c) \/ Unchanged(c)
  /\ call' = c
  /\ result' = IF Refused(c) THEN "refused" ELSE "ok"
  /\ UNCHANGED <<chip, handle, locked, dma, at, saved, history>>

\* lock_bus: the lock is taken at once, then a running transfer is waited for.
Begin(c) ==
  /\ Callable(c) /\ ~Refused(c) /\ ~Unchanged(c)
  /\ call' = c /\ at' = 0
  /\ locked' = TRUE
  /\ saved' = IF c.fn = "self_test" THEN chip ELSE AfterReset
  /\ inited' = (inited /\ c.fn # "init")
  /\ manual' = (manual \/ c.fn = "set_fifo_content")
  /\ damage' = IF damage > 0 /\ c.fn # "init" THEN damage + 1 ELSE damage
  /\ result' = "ok"
  /\ UNCHANGED <<chip, handle, dma>>

\* The wait ends when the peripheral is ready, or after 10 ms all the same.
LockTaken ==
  /\ at = 0
  /\ at' = 1
  /\ UNCHANGED <<chip, handle, locked, dma, call, result, saved, history>>

Written ==
  LET a == Program[at] IN
  IF a = DeviceReset THEN AfterReset
  ELSE [chip EXCEPT ![a.reg] = (@ \ a.clear) \union a.set]

\* payload_bytes is a uint8_t.
ShareOfAxis(ch) == 2
Share(ch) == IF ch \in AccelAxis THEN 6 ELSE 2
PayloadBytes(ch, on) ==
  (handle.payload_bytes + (IF on THEN Share(ch) ELSE 0 - Share(ch))) % 256
AllActive == [handle EXCEPT !.active_sources = Channel,
                            !.payload_bytes = 8 + 2 * Cardinality(GyroAxis)]

\* The handle after the access: scales and sources are noted in the middle of
\* a call, the mode when all its writes have succeeded.
SourceNoted(ch, on) ==
  [handle EXCEPT
    !.active_sources = IF on THEN @ \union {ch} ELSE @ \ {ch},
    !.payload_bytes = IF ContentChanges(ch) THEN PayloadBytes(ch, on) ELSE @]
ScaleNoted(reg, range) ==
  IF reg = "GYRO_CONFIG" THEN [handle EXCEPT !.gyro_scale = range]
                         ELSE [handle EXCEPT !.accel_scale = range]
ModeNoted(m) ==
  IF m = "LOWPOWER"
  THEN [handle EXCEPT !.meas_mode = m, !.active_sources = AccelAxis, !.payload_bytes = 6]
  ELSE [AllActive EXCEPT !.meas_mode = m]
InitNoted == [AllActive EXCEPT !.meas_mode = "SINGLE", !.gyro_scale = Narrow,
                               !.accel_scale = Narrow]

IsLast == at = Len(Program)
Noted ==
  CASE call.fn = "set_source" /\ at = 1 -> SourceNoted(call.ch, call.on)
    [] call.fn = "set_range" /\ at = 1 -> ScaleNoted(call.reg, call.range)
    [] call.fn = "set_mode" /\ IsLast -> ModeNoted(call.mode)
    [] call.fn = "init" /\ IsLast -> InitNoted
    [] OTHER -> handle

Returns == at' = -1 /\ locked' = FALSE

\* An access succeeds, and the call goes on or returns HAL_OK.
Access ==
  /\ at > 0 /\ ~dma
  /\ chip' = Written
  /\ handle' = Noted
  /\ IF IsLast
     THEN /\ Returns /\ result' = "ok"
          /\ inited' = (inited \/ call.fn = "init")
          /\ damage' = IF call.fn = "init" THEN 0 ELSE damage
          /\ manual' = (manual /\ call.fn \notin {"init", "set_mode"})
     ELSE /\ at' = at + 1
          /\ locked' = (locked /\ ~Program[at].unlocks)
          /\ UNCHANGED <<result, history>>
  /\ UNCHANGED <<dma, call, saved>>

\* An access fails, after or before the sensor took the value, or because a
\* data operation has the peripheral: the call releases the lock and returns.
AccessFails ==
  /\ at > 0
  /\ chip' \in {chip} \union (IF dma THEN {} ELSE {Written})
  /\ Returns
  /\ result' = "error" /\ damage' = IF damage = 0 THEN 1 ELSE damage
  /\ UNCHANGED <<handle, dma, call, saved, inited, manual>>

-----------------------------------------------------------------------------
(* Data operations, which interrupt handlers start.                        *)

RefusalNone == ~dma
Admitted == ~locked /\ ~dma
DataRead ==
  /\ inited
  /\ Admitted
  /\ dma' = TRUE
  /\ UNCHANGED <<chip, handle, locked, call, at, result, saved, history>>

DataDone ==
  /\ dma /\ dma' = FALSE
  /\ UNCHANGED <<chip, handle, locked, call, at, result, saved, history>>

User == \E c \in Calls : Begin(c) \/ ReturnsEarly(c)
Driver == LockTaken \/ Access \/ AccessFails
Next == User \/ Driver \/ DataRead \/ DataDone

Spec == Init /\ [][Next]_vars

-----------------------------------------------------------------------------
(* Properties.                                                             *)

Idle == at = -1
Succeeded(fn) == Idle /\ call.fn = fn /\ result = "ok"

\* What a mode and a set of active channels mean for the registers; SLEEP is
\* left to the user.
ContentMatches ==
  chip["FIFO_EN"] = IF handle.meas_mode = "BURST"
                    THEN {ContentOf(ch) : ch \in handle.active_sources} ELSE {}
SourcesMatch ==
  /\ chip["PWR_MGMT_2"] = Axis \ handle.active_sources
  /\ ("TEMP_DIS" \in chip["PWR_MGMT_1"]) = ("TEMP" \notin handle.active_sources)
ModeMatches ==
  /\ chip["INT_ENABLE"] = IF handle.meas_mode = "BURST" THEN {"FIFO_OFLOW"} ELSE {"DATA_READY"}
  /\ ("CYCLE" \in chip["PWR_MGMT_1"]) = (handle.meas_mode = "LOWPOWER")
  /\ handle.meas_mode = "BURST" => "FIFO_ENABLE" \in chip["USER_CTRL"]
ScalesMatch ==
  chip["GYRO_CONFIG"] = {handle.gyro_scale} /\ chip["ACCEL_CONFIG"] = {handle.accel_scale}

\* Between calls the handle describes the sensor, unless a call has failed
\* since the initialisation: after every sequence of mode changes, sources
\* switched on and off, ranges and self tests.
HandleMatchesSensor ==
  Idle /\ inited /\ damage = 0
    => SourcesMatch /\ ModeMatches /\ ScalesMatch /\ (manual \/ ContentMatches)

\* A mode change that succeeds repairs what failed calls left behind, whatever
\* they had written, save for the ranges.
SetModeRepairs == Succeeded("set_mode") => SourcesMatch /\ ModeMatches /\ ContentMatches

\* However calls fail, the length of a FIFO sample stays that of the channels
\* that are noted as active, and never runs below zero.
PayloadFollowsSources ==
  handle.meas_mode = "BURST" =>
    handle.payload_bytes = 2 * Cardinality(handle.active_sources \ AccelAxis)
                           + (IF handle.active_sources \cap AccelAxis # {} THEN 6 ELSE 0)

\* Data operations keep off the bus during a call. The exceptions: a transfer that
\* has outlasted the wait for it disturbs the first access, and in a mode change the
\* FIFO reset it contains releases the lock which the mode change has taken.
AccessesUndisturbed ==
  at > 1 /\ dma => call.fn = "set_mode" /\ call.mode # "BURST" /\ at > Len(FifoOff)
=============================================================================
