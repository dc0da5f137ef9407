--------------------------- MODULE Mpu6050Proofs ----------------------------
(***************************************************************************)
(* Proofs about the MPU-6050 library: its configuration functions, for all *)
(* axes and ranges and after any number of calls, and its interrupt        *)
(* handlers in burst mode, for every size of the FIFO.                     *)
(***************************************************************************)
EXTENDS Mpu6050Driver, Mpu6050Burst, FiniteSetTheorems, TLAPS

(***************************************************************************)
(* The functions as lists: what the k-th access of each one is.            *)
(***************************************************************************)

\* What an access does to a register.
Entry(reg, clear, set) ==
  [reg |-> reg, clear |-> clear, set |-> set, unlocks |-> FALSE]

LEMMA Entries ==
  ASSUME NEW reg, NEW bits
  PROVE  /\ Put(reg, bits) = Entry(reg, Bits[reg], bits)
         /\ BitsOn(reg, bits) = Entry(reg, {}, bits)
         /\ BitsOff(reg, bits) = Entry(reg, bits, {})
<1>1. Put(reg, bits) = Entry(reg, Bits[reg], bits)
  BY DEF Put, Entry
<1>2. ASSUME NEW a, a = BitsOn(reg, bits) PROVE a = Entry(reg, {}, bits)
  BY <1>2 DEF BitsOn, Put, Entry
<1>3. ASSUME NEW a, a = BitsOff(reg, bits) PROVE a = Entry(reg, bits, {})
  BY <1>3 DEF BitsOff, Put, Entry
<1>4. QED
  BY <1>1, <1>2, <1>3

LEMMA Joined ==
  ASSUME NEW a1, NEW a2, NEW a3, NEW b1, NEW b2, NEW c1, NEW c2, NEW c3, NEW c4, NEW c5,
         NEW s, s = (<<a1, a2, a3>> \o <<b1, b2>>) \o <<c1, c2, c3, c4, c5>>
  PROVE  /\ Len(s) = 10
         /\ s[1] = a1 /\ s[2] = a2 /\ s[3] = a3 /\ s[4] = b1 /\ s[5] = b2
         /\ s[6] = c1 /\ s[7] = c2 /\ s[8] = c3 /\ s[9] = c4 /\ s[10] = c5
OBVIOUS

LEMMA JoinedOn ==
  ASSUME NEW a1, NEW a2, NEW a3, NEW c1, NEW c2, NEW c3, NEW c4, NEW c5,
         NEW s, s = <<a1, a2, a3>> \o <<c1, c2, c3, c4, c5>>
  PROVE  /\ Len(s) = 8
         /\ s[1] = a1 /\ s[2] = a2 /\ s[3] = a3
         /\ s[4] = c1 /\ s[5] = c2 /\ s[6] = c3 /\ s[7] = c4 /\ s[8] = c5
OBVIOUS

LEMMA JoinedTest ==
  ASSUME NEW a1, NEW a2, NEW a3, NEW a4, NEW a5, NEW a6, NEW a7, NEW a8,
         NEW b1, NEW b2, NEW b3, NEW b4,
         NEW s, s = <<a1, a2, a3, a4, a5, a6, a7, a8>> \o <<b1, b2, b3, b4>>
  PROVE  /\ Len(s) = 12
         /\ s[1] = a1 /\ s[2] = a2 /\ s[3] = a3 /\ s[4] = a4 /\ s[5] = a5 /\ s[6] = a6
         /\ s[7] = a7 /\ s[8] = a8 /\ s[9] = b1 /\ s[10] = b2 /\ s[11] = b3 /\ s[12] = b4
OBVIOUS

\* The two writes of MPU_6050_fifo_reset.
LEMMA FifoResetProgram ==
  /\ Len(FifoReset) = 2
  /\ FifoReset[1] = Entry("USER_CTRL", {"FIFO_ENABLE"}, {})
  /\ FifoReset[2] = [Entry("USER_CTRL", {}, {"FIFO_ENABLE"}) EXCEPT !.unlocks = TRUE]
BY Entries DEF FifoReset

\* A mode change whose mode does not use the FIFO; its fifth access unlocks.
LEMMA FifoOffProgram ==
  ASSUME NEW m \in {"SINGLE", "LOWPOWER"}
  PROVE  LET s == SetMode[m] IN
         /\ Len(s) = 10
         /\ s[1] = Entry("INT_ENABLE", Bits["INT_ENABLE"], {"DATA_READY"})
         /\ s[2] = Entry("USER_CTRL", {"FIFO_ENABLE"}, {})
         /\ s[3] = Entry("FIFO_EN", Bits["FIFO_EN"], {})
         /\ s[4] = FifoReset[1] /\ s[5] = FifoReset[2]
         /\ m = "SINGLE" =>
              /\ s[6] = Entry("PWR_MGMT_1", {"TEMP_DIS"}, {})
              /\ s[7] = Entry("PWR_MGMT_2", GyroAxis, {})
              /\ s[8] = Entry("PWR_MGMT_2", AccelAxis, {})
              /\ s[9] = Entry("PWR_MGMT_1", {"CYCLE"}, {})
              /\ s[10] = Entry("PWR_MGMT_1", {"SLEEP"}, {})
         /\ m = "LOWPOWER" =>
              /\ s[6] = Entry("PWR_MGMT_1", {}, {"TEMP_DIS"})
              /\ s[7] = Entry("PWR_MGMT_2", {}, GyroAxis)
              /\ s[8] = Entry("PWR_MGMT_2", AccelAxis, {})
              /\ s[9] = Entry("PWR_MGMT_1", {"SLEEP"}, {})
              /\ s[10] = Entry("PWR_MGMT_1", {}, {"CYCLE"})
<1> DEFINE s == SetMode[m]
<1>1. s = IF m = "SINGLE" THEN FifoOff \o NormalPower ELSE FifoOff \o CyclePower
  BY DEF SetMode, Mode
<1> HIDE DEF s
<1>a. PICK b1, b2 : FifoReset = <<b1, b2>>
  BY DEF FifoReset
<1>2. CASE m = "SINGLE"
  <2>1. s = (<<Put("INT_ENABLE", {"DATA_READY"}), BitsOff("USER_CTRL", {"FIFO_ENABLE"}),
               Put("FIFO_EN", {})>> \o <<b1, b2>>) \o NormalPower
    BY <1>1, <1>a, <1>2 DEF FifoOff
  <2>2. /\ Len(s) = 10
        /\ s[1] = Put("INT_ENABLE", {"DATA_READY"}) /\ s[2] = BitsOff("USER_CTRL", {"FIFO_ENABLE"})
        /\ s[3] = Put("FIFO_EN", {}) /\ s[4] = b1 /\ s[5] = b2
        /\ s[6] = NormalPower[1] /\ s[7] = NormalPower[2] /\ s[8] = NormalPower[3] /\ s[9] = NormalPower[4] /\ s[10] = NormalPower[5]
    BY <2>1 DEF NormalPower
  <2>3. b1 = FifoReset[1] /\ b2 = FifoReset[2]
    BY <1>a
  <2>4. QED
    BY <1>2, <2>2, <2>3, Entries DEF NormalPower, s
<1>3. CASE m = "LOWPOWER"
  <2>1. s = (<<Put("INT_ENABLE", {"DATA_READY"}), BitsOff("USER_CTRL", {"FIFO_ENABLE"}),
               Put("FIFO_EN", {})>> \o <<b1, b2>>) \o CyclePower
    BY <1>1, <1>a, <1>3 DEF FifoOff
  <2>2. /\ Len(s) = 10
        /\ s[1] = Put("INT_ENABLE", {"DATA_READY"}) /\ s[2] = BitsOff("USER_CTRL", {"FIFO_ENABLE"})
        /\ s[3] = Put("FIFO_EN", {}) /\ s[4] = b1 /\ s[5] = b2
        /\ s[6] = CyclePower[1] /\ s[7] = CyclePower[2] /\ s[8] = CyclePower[3] /\ s[9] = CyclePower[4] /\ s[10] = CyclePower[5]
    BY <2>1 DEF CyclePower
  <2>3. b1 = FifoReset[1] /\ b2 = FifoReset[2]
    BY <1>a
  <2>4. QED
    BY <1>3, <2>2, <2>3, Entries DEF CyclePower, s
<1>4. QED
  BY <1>2, <1>3 DEF s

LEMMA BurstProgram ==
  LET s == SetMode["BURST"] IN
  /\ Len(s) = 8
  /\ s[1] = Entry("INT_ENABLE", Bits["INT_ENABLE"], {"FIFO_OFLOW"})
  /\ s[2] = Entry("USER_CTRL", {}, {"FIFO_ENABLE"})
  /\ s[3] = Entry("FIFO_EN", Bits["FIFO_EN"], Content)
  /\ s[4] = Entry("PWR_MGMT_1", {"TEMP_DIS"}, {})
  /\ s[5] = Entry("PWR_MGMT_2", GyroAxis, {})
  /\ s[6] = Entry("PWR_MGMT_2", AccelAxis, {})
  /\ s[7] = Entry("PWR_MGMT_1", {"CYCLE"}, {})
  /\ s[8] = Entry("PWR_MGMT_1", {"SLEEP"}, {})
<1> DEFINE s == SetMode["BURST"]
<1>1. s = FifoOn \o NormalPower
  BY DEF SetMode, Mode
<1> HIDE DEF s
<1>2. QED
  BY <1>1, JoinedOn, Entries DEF FifoOn, NormalPower, s

\* The self test: what it measures with, then what it had read.
LEMMA SelfTestProgram ==
  /\ Len(SelfTest) = 12
  /\ SelfTest[1] = Entry("PWR_MGMT_1", {"SLEEP", "CYCLE"}, {})
  /\ SelfTest[2] = Entry("PWR_MGMT_2", Axis, {})
  /\ SelfTest[3] = Entry("GYRO_CONFIG", Bits["GYRO_CONFIG"], {Narrow})
  /\ SelfTest[4] = Entry("ACCEL_CONFIG", Bits["ACCEL_CONFIG"], {TestRange})
  /\ SelfTest[5] = Entry("GYRO_CONFIG", {}, {"SELF_TEST"})
  /\ SelfTest[6] = Entry("ACCEL_CONFIG", {}, {"SELF_TEST"})
  /\ SelfTest[7] = Entry("GYRO_CONFIG", {"SELF_TEST"}, {})
  /\ SelfTest[8] = Entry("ACCEL_CONFIG", {"SELF_TEST"}, {})
  /\ SelfTest[9] = Entry("GYRO_CONFIG", Bits["GYRO_CONFIG"], saved["GYRO_CONFIG"])
  /\ SelfTest[10] = Entry("ACCEL_CONFIG", Bits["ACCEL_CONFIG"], saved["ACCEL_CONFIG"])
  /\ SelfTest[11] = Entry("PWR_MGMT_1", Bits["PWR_MGMT_1"], saved["PWR_MGMT_1"])
  /\ SelfTest[12] = Entry("PWR_MGMT_2", Bits["PWR_MGMT_2"], saved["PWR_MGMT_2"])
BY JoinedTest, Entries DEF SelfTest, Restore

LEMMA InitProgram ==
  LET s == <<DeviceReset>> \o InitTable IN
  /\ Len(s) = 4
  /\ s[1] = DeviceReset
  /\ s[2] = Entry("PWR_MGMT_1", Bits["PWR_MGMT_1"], {})
  /\ s[3] = Entry("FIFO_EN", Bits["FIFO_EN"], {})
  /\ s[4] = Entry("INT_ENABLE", Bits["INT_ENABLE"], {"DATA_READY"})
BY Entries DEF InitTable

-----------------------------------------------------------------------------
(* The inductive invariant of the configuration functions.                 *)

\* A register image holds bits that exist.
IsImage(c) ==
  /\ c = [r \in Register |-> c[r]]
  /\ \A r \in Register : c[r] \subseteq Bits[r]

Handles ==
  [meas_mode : Mode, active_sources : SUBSET Channel,
   payload_bytes : 0..(8 + 2 * Cardinality(GyroAxis)),
   gyro_scale : FullScale, accel_scale : FullScale]
Typed == TypeOK /\ IsImage(chip) /\ IsImage(saved) /\ handle \in Handles

\* A call is somewhere in its list, and set_source has something to change
\* until it has noted the change.
Length ==
  CASE call.fn = "init" -> 4
    [] call.fn = "fifo_reset" -> 2
    [] call.fn = "self_test" -> 12
    [] call.fn = "set_mode" -> IF call.mode = "BURST" THEN 8 ELSE 10
    [] call.fn = "set_sleep" -> 1
    [] call.fn = "set_source" -> IF ContentChanges(call.ch) THEN 2 ELSE 1
    [] call.fn = "set_fifo_content" -> 1
    [] call.fn = "set_range" -> 2
InProgram ==
  /\ at \in -1..Length
  /\ call.fn = "set_source" /\ at >= 0 =>
       /\ handle.meas_mode # "LOWPOWER"
       /\ (call.ch \in handle.active_sources) = (IF at <= 1 THEN ~call.on ELSE call.on)
  /\ call.fn = "set_fifo_content" /\ at >= 0 => manual

\* The lock is held from the first access to the last, and what is written
\* under it is written alone; save in the mode change behind its FIFO reset.
Unlocked == call.fn = "set_mode" /\ call.mode # "BURST" /\ at > 5
HasTheBus == at >= 0 /\ ~Unlocked => locked /\ (at > 1 => ~dma)

\* What a mode change has written so far, whatever it found. The switches of
\* power follow the FIFO's, which are three or five accesses.
FifoSet(c, m, k) ==
  /\ k > 1 => c["INT_ENABLE"] = IF m = "BURST" THEN {"FIFO_OFLOW"} ELSE {"DATA_READY"}
  /\ k > 3 => c["FIFO_EN"] = IF m = "BURST" THEN Content ELSE {}
  /\ m = "BURST" /\ k > 2 => "FIFO_ENABLE" \in c["USER_CTRL"]
PowerSet(c, m, p) ==
  /\ p > 1 => ("TEMP_DIS" \in c["PWR_MGMT_1"]) = (m = "LOWPOWER")
  /\ p > 2 => c["PWR_MGMT_2"] \cap GyroAxis = IF m = "LOWPOWER" THEN GyroAxis ELSE {}
  /\ p > 3 => c["PWR_MGMT_2"] \cap AccelAxis = {}
  /\ p > 4 /\ m # "LOWPOWER" => "CYCLE" \notin c["PWR_MGMT_1"]
  /\ p > 5 => ("CYCLE" \in c["PWR_MGMT_1"]) = (m = "LOWPOWER")
PowerFrom(m) == IF m = "BURST" THEN 3 ELSE 5
ModeSoFar ==
  call.fn = "set_mode" =>
    FifoSet(chip, call.mode, at) /\ PowerSet(chip, call.mode, at - PowerFrom(call.mode))

\* What the initialisation has written so far.
Cleared(c) ==
  /\ c["GYRO_CONFIG"] = {Narrow} /\ c["ACCEL_CONFIG"] = {Narrow}
  /\ c["PWR_MGMT_2"] = {} /\ c["FIFO_EN"] = {}
  /\ c["PWR_MGMT_1"] \subseteq {"SLEEP"}
InitSoFar == call.fn = "init" /\ at > 1 => Cleared(chip)

\* A register image agrees with the fields of the handle, part by part.
SourcesIn(c, h) ==
  /\ c["PWR_MGMT_2"] = Axis \ h.active_sources
  /\ ("TEMP_DIS" \in c["PWR_MGMT_1"]) = ("TEMP" \notin h.active_sources)
ModeIn(c, h) ==
  /\ c["INT_ENABLE"] = IF h.meas_mode = "BURST" THEN {"FIFO_OFLOW"} ELSE {"DATA_READY"}
  /\ ("CYCLE" \in c["PWR_MGMT_1"]) = (h.meas_mode = "LOWPOWER")
FifoIn(c, h) == h.meas_mode = "BURST" => "FIFO_ENABLE" \in c["USER_CTRL"]
ScalesIn(c, h) == c["GYRO_CONFIG"] = {h.gyro_scale} /\ c["ACCEL_CONFIG"] = {h.accel_scale}
ContentNoted(h) ==
  IF h.meas_mode = "BURST" THEN {ContentOf(ch) : ch \in h.active_sources} ELSE {}
ContentIn(c, h, m) == m \/ c["FIFO_EN"] = ContentNoted(h)
Agrees(c, h, m) ==
  SourcesIn(c, h) /\ ModeIn(c, h) /\ FifoIn(c, h) /\ ScalesIn(c, h) /\ ContentIn(c, h, m)

\* What a call that has not failed still has to write before the sensor agrees
\* with the handle again.
DuringReset(c, h, m) == SourcesIn(c, h) /\ ModeIn(c, h) /\ ScalesIn(c, h) /\ ContentIn(c, h, m)
DuringSource(c, h, m) ==
  /\ SourcesIn(c, h) /\ ModeIn(c, h) /\ FifoIn(c, h) /\ ScalesIn(c, h)
  /\ m \/ ContentNoted(h) = IF call.on THEN c["FIFO_EN"] \union {ContentOf(call.ch)}
                                     ELSE c["FIFO_EN"] \ {ContentOf(call.ch)}
DuringTest(c, k) ==
  /\ \A r \in {"INT_ENABLE", "USER_CTRL", "FIFO_EN"} : c[r] = saved[r]
  /\ k > 9 => c["GYRO_CONFIG"] = saved["GYRO_CONFIG"]
  /\ k > 10 => c["ACCEL_CONFIG"] = saved["ACCEL_CONFIG"]
  /\ k > 11 => c["PWR_MGMT_1"] = saved["PWR_MGMT_1"]

Underway ==
  damage = 0 /\ inited =>
    /\ at >= 0 => call.fn # "init"
    /\ at <= 1 => Agrees(chip, handle, manual)
    /\ at > 1 /\ call.fn = "fifo_reset" => DuringReset(chip, handle, manual)
    /\ at > 1 /\ call.fn = "set_source" => DuringSource(chip, handle, manual)
    /\ at > 1 /\ call.fn = "set_range" => Agrees(chip, handle, manual)
    /\ at > 1 /\ call.fn = "set_mode" => ScalesIn(chip, handle)
    /\ at >= 0 /\ call.fn = "self_test" => Agrees(saved, handle, manual) /\ DuringTest(chip, at)

\* The length of a FIFO sample is that of the active channels.
Follows(h) ==
  h.meas_mode = "BURST" =>
    h.payload_bytes = 2 * Cardinality(h.active_sources \ AccelAxis)
                      + (IF h.active_sources \cap AccelAxis # {} THEN 6 ELSE 0)

IInv ==
  /\ Typed /\ InProgram /\ HasTheBus /\ ModeSoFar /\ InitSoFar
  /\ Follows(handle) /\ SetModeRepairs /\ Underway

-----------------------------------------------------------------------------
(* What the accesses write.                                                *)

LEMMA BitsAre ==
  /\ Bits["INT_ENABLE"] = {"DATA_READY", "FIFO_OFLOW"} /\ Bits["USER_CTRL"] = {"FIFO_ENABLE"}
  /\ Bits["FIFO_EN"] = Content /\ Bits["PWR_MGMT_1"] = {"SLEEP", "CYCLE", "TEMP_DIS"}
  /\ Bits["PWR_MGMT_2"] = Axis
  /\ Bits["GYRO_CONFIG"] = FullScale \union {"SELF_TEST"}
  /\ Bits["ACCEL_CONFIG"] = FullScale \union {"SELF_TEST"}
<1> DEFINE B(r) == CASE r = "INT_ENABLE" -> {"DATA_READY", "FIFO_OFLOW"}
                     [] r = "USER_CTRL" -> {"FIFO_ENABLE"}
                     [] r = "FIFO_EN" -> Content
                     [] r = "PWR_MGMT_1" -> {"SLEEP", "CYCLE", "TEMP_DIS"}
                     [] r = "PWR_MGMT_2" -> Axis
                     [] r \in {"GYRO_CONFIG", "ACCEL_CONFIG"} -> FullScale \union {"SELF_TEST"}
<1>1. Bits = [r \in Register |-> B(r)]
  BY DEF Bits
<1>2. \A r \in Register : Bits[r] = B(r)
  <2> HIDE DEF B
  <2> QED
    BY <1>1
<1>3. QED
  BY <1>2 DEF Register

LEMMA CallTypes ==
  ASSUME NEW c \in Calls
  PROVE  /\ c.fn \in {"init", "fifo_reset", "self_test", "set_mode", "set_sleep", "set_source",
                      "set_fifo_content", "set_range"}
         /\ c.fn = "set_mode" => c.mode \in Mode
         /\ c.fn = "set_sleep" => c.on \in BOOLEAN
         /\ c.fn = "set_source" => c.ch \in Channel /\ c.on \in BOOLEAN
         /\ c.fn = "set_fifo_content" => c.content \in Content /\ c.on \in BOOLEAN
         /\ c.fn = "set_range" => c.reg \in {"GYRO_CONFIG", "ACCEL_CONFIG"} /\ c.range \in FullScale
<1>1. CASE c \in [fn : {"init", "fifo_reset", "self_test"}]
  BY <1>1
<1>2. CASE c \in [fn : {"set_mode"}, mode : Mode]
  BY <1>2
<1>3. CASE c \in [fn : {"set_sleep"}, on : BOOLEAN]
  BY <1>3
<1>4. CASE c \in [fn : {"set_source"}, ch : Channel, on : BOOLEAN]
  BY <1>4
<1>5. CASE c \in [fn : {"set_fifo_content"}, content : Content, on : BOOLEAN]
  BY <1>5
<1>6. CASE c \in [fn : {"set_range"}, reg : {"GYRO_CONFIG", "ACCEL_CONFIG"}, range : FullScale]
  BY <1>6
<1>7. QED
  <2> DEFINE S == [fn : {"init", "fifo_reset", "self_test"}]
                  \union [fn : {"set_mode"}, mode : Mode]
                  \union [fn : {"set_sleep"}, on : BOOLEAN]
                  \union [fn : {"set_source"}, ch : Channel, on : BOOLEAN]
                  \union [fn : {"set_fifo_content"}, content : Content, on : BOOLEAN]
                  \union [fn : {"set_range"}, reg : {"GYRO_CONFIG", "ACCEL_CONFIG"}, range : FullScale]
  <2>1. Calls = {d \in S : d.fn \in Functions}
    BY DEF Calls
  <2>2. c \in S
    <3> HIDE DEF S
    <3> QED
      BY <2>1
  <2>3. \/ c \in [fn : {"init", "fifo_reset", "self_test"}]
        \/ c \in [fn : {"set_mode"}, mode : Mode]
        \/ c \in [fn : {"set_sleep"}, on : BOOLEAN]
        \/ c \in [fn : {"set_source"}, ch : Channel, on : BOOLEAN]
        \/ c \in [fn : {"set_fifo_content"}, content : Content, on : BOOLEAN]
        \/ c \in [fn : {"set_range"}, reg : {"GYRO_CONFIG", "ACCEL_CONFIG"}, range : FullScale]
    BY ONLY <2>2, Zenon
  <2>4. QED
    BY <1>1, <1>2, <1>3, <1>4, <1>5, <1>6, <2>3

LEMMA ResetIsImage == IsImage(AfterReset) /\ Cleared(AfterReset)
<1> DEFINE R(r) == CASE r = "PWR_MGMT_1" -> {"SLEEP"}
                     [] r \in {"GYRO_CONFIG", "ACCEL_CONFIG"} -> {Narrow}
                     [] r \in {"INT_ENABLE", "USER_CTRL", "FIFO_EN", "PWR_MGMT_2"} -> {}
<1>0. AfterReset = [r \in Register |-> R(r)]
  BY DEF AfterReset
<1>1. AfterReset = [r \in Register |-> AfterReset[r]] /\ \A r \in Register : AfterReset[r] = R(r)
  <2> HIDE DEF R
  <2> QED
    BY <1>0
<1>2. /\ AfterReset["INT_ENABLE"] = {} /\ AfterReset["USER_CTRL"] = {}
      /\ AfterReset["FIFO_EN"] = {} /\ AfterReset["PWR_MGMT_1"] = {"SLEEP"}
      /\ AfterReset["PWR_MGMT_2"] = {} /\ AfterReset["GYRO_CONFIG"] = {Narrow}
      /\ AfterReset["ACCEL_CONFIG"] = {Narrow}
  BY <1>1 DEF Register
<1>3. \A r \in Register : AfterReset[r] \subseteq Bits[r]
  <2> SUFFICES ASSUME NEW r \in Register PROVE AfterReset[r] \subseteq Bits[r]
    OBVIOUS
  <2>1. CASE r \in {"GYRO_CONFIG", "ACCEL_CONFIG"}
    <3>1. Narrow \in FullScale
      BY Mpu6050DriverAssumption
    <3>2. AfterReset[r] = {Narrow} /\ Bits[r] = FullScale \union {"SELF_TEST"}
      BY <1>2, <2>1, BitsAre
    <3>3. QED
      BY <3>1, <3>2
  <2>2. CASE r = "PWR_MGMT_1"
    BY <1>2, <2>2, BitsAre
  <2>3. CASE r \in {"INT_ENABLE", "USER_CTRL", "FIFO_EN", "PWR_MGMT_2"}
    BY <1>2, <2>3
  <2>4. QED
    BY <2>1, <2>2, <2>3 DEF Register
<1>4. QED
  BY <1>1, <1>2, <1>3 DEF IsImage, Cleared

\* A write of bits that exist changes one register of an image to another image.
Writes(reg, value) ==
  /\ IsImage(Written)
  /\ Written[reg] = value
  /\ \A r \in Register \ {reg} : Written[r] = chip[r]

LEMMA WrittenIs ==
  ASSUME IsImage(chip), NEW reg \in Register, NEW clear, NEW set \in SUBSET Bits[reg],
         Program[at].reg = reg, Program[at].clear = clear, Program[at].set = set
  PROVE  Writes(reg, (chip[reg] \ clear) \union set)
<1> DEFINE value == (chip[reg] \ clear) \union set
<1>1. DeviceReset.reg = "PWR_MGMT_1" /\ DeviceReset.set = {"DEVICE_RESET"}
  BY Entries DEF DeviceReset, Entry
<1>2. Program[at] # DeviceReset
  BY <1>1, BitsAre
<1>3. Written = [chip EXCEPT ![reg] = value]
  BY <1>2 DEF Written
<1>4. value \subseteq Bits[reg]
  BY DEF IsImage
<1> HIDE DEF value
<1>5. Written[reg] = value /\ \A r \in Register \ {reg} : Written[r] = chip[r]
  BY <1>3 DEF IsImage
<1>6. Written = [r \in Register |-> Written[r]]
  BY <1>3 DEF IsImage
<1>7. QED
  BY <1>4, <1>5, <1>6 DEF IsImage, Writes, value

LEMMA WrittenEntry ==
  ASSUME IsImage(chip), NEW reg \in Register, NEW clear, NEW set \in SUBSET Bits[reg],
         Program[at] = Entry(reg, clear, set)
  PROVE  /\ Writes(reg, (chip[reg] \ clear) \union set)
         /\ ~Program[at].unlocks
BY WrittenIs DEF Entry

\* What a function is, and how long.
LEMMA ProgramIs ==
  ASSUME call \in Calls
  PROVE  /\ call.fn = "init" => Program = <<DeviceReset>> \o InitTable
         /\ call.fn = "fifo_reset" => Program = FifoReset
         /\ call.fn = "self_test" => Program = SelfTest
         /\ call.fn = "set_mode" => Program = SetMode[call.mode]
         /\ call.fn = "set_sleep" => Program = <<Switch("PWR_MGMT_1", {"SLEEP"}, call.on)>>
         /\ call.fn = "set_source" => Program = SetSource(call.ch, call.on)
         /\ call.fn = "set_fifo_content" => Program = <<Switch("FIFO_EN", {call.content}, call.on)>>
         /\ call.fn = "set_range" => Program = SetRange(call.reg, call.range)
BY DEF Program

LEMMA Switches ==
  ASSUME NEW reg, NEW bits, NEW on \in BOOLEAN
  PROVE  Switch(reg, bits, on) = Entry(reg, IF on THEN {} ELSE bits, IF on THEN bits ELSE {})
BY Entries DEF Switch

LEMMA SourceProgram ==
  ASSUME NEW ch \in Channel, NEW on \in BOOLEAN
  PROVE  LET s == SetSource(ch, on) IN
         /\ Len(s) = IF ContentChanges(ch) THEN 2 ELSE 1
         /\ s[1] = IF ch = "TEMP" THEN Switch("PWR_MGMT_1", {"TEMP_DIS"}, ~on)
                                  ELSE Switch("PWR_MGMT_2", {ch}, ~on)
         /\ ContentChanges(ch) => s[2] = Switch("FIFO_EN", {ContentOf(ch)}, on)
<1> DEFINE a == IF ch = "TEMP" THEN Switch("PWR_MGMT_1", {"TEMP_DIS"}, ~on)
                               ELSE Switch("PWR_MGMT_2", {ch}, ~on)
           b == Switch("FIFO_EN", {ContentOf(ch)}, on)
<1>1. SetSource(ch, on) = <<a>> \o (IF ContentChanges(ch) THEN <<b>> ELSE <<>>)
  BY DEF SetSource
<1> HIDE DEF a, b
<1>2. CASE ContentChanges(ch)
  BY <1>1, <1>2 DEF a, b
<1>3. CASE ~ContentChanges(ch)
  BY <1>1, <1>3 DEF a, b
<1>4. QED
  BY <1>2, <1>3

LEMMA RangeProgram ==
  ASSUME NEW reg, NEW range
  PROVE  LET s == SetRange(reg, range) IN
         Len(s) = 2 /\ s[1] = Entry(reg, FullScale, {range}) /\ s[2] = Entry(reg, {}, {})
<1>1. ASSUME NEW a, a = [Put(reg, {range}) EXCEPT !.clear = FullScale]
      PROVE  a = Entry(reg, FullScale, {range})
  BY <1>1 DEF Put, Entry
<1> DEFINE first == [Put(reg, {range}) EXCEPT !.clear = FullScale]
<1>2. first = Entry(reg, FullScale, {range})
  BY <1>1
<1>3. SetRange(reg, range) = <<first, BitsOn(reg, {})>>
  BY DEF SetRange
<1> HIDE DEF first
<1>4. QED
  BY <1>2, <1>3, Entries

LEMMA Lengths == ASSUME call \in Calls PROVE Len(Program) = Length
<1>1. CASE call.fn = "init"
  BY <1>1, ProgramIs, InitProgram DEF Length
<1>2. CASE call.fn = "fifo_reset"
  BY <1>2, ProgramIs, FifoResetProgram DEF Length
<1>3. CASE call.fn = "self_test"
  BY <1>3, ProgramIs, SelfTestProgram DEF Length
<1>4. CASE call.fn = "set_mode"
  BY <1>4, ProgramIs, CallTypes, FifoOffProgram, BurstProgram DEF Length, Mode
<1>5. CASE call.fn = "set_sleep"
  BY <1>5, ProgramIs DEF Length
<1>6. CASE call.fn = "set_source"
  BY <1>6, ProgramIs, CallTypes, SourceProgram DEF Length
<1>7. CASE call.fn = "set_fifo_content"
  BY <1>7, ProgramIs DEF Length
<1>8. CASE call.fn = "set_range"
  <2>1. Len(SetRange(call.reg, call.range)) = 2
    BY RangeProgram
  <2>2. QED
    BY <1>8, <2>1, ProgramIs DEF Length
<1>9. QED
  BY <1>1, <1>2, <1>3, <1>4, <1>5, <1>6, <1>7, <1>8, CallTypes

-----------------------------------------------------------------------------
(* What each function writes, access by access.                            *)

LEMMA WrotePut ==
  ASSUME IsImage(chip), NEW reg \in Register, NEW bits \in SUBSET Bits[reg],
         Program[at] = Entry(reg, Bits[reg], bits)
  PROVE  Writes(reg, bits) /\ ~Program[at].unlocks
<1>1. (chip[reg] \ Bits[reg]) \union bits = bits
  BY DEF IsImage
<1>2. QED
  BY <1>1, WrittenEntry

LEMMA WroteOn ==
  ASSUME IsImage(chip), NEW reg \in Register, NEW bits \in SUBSET Bits[reg],
         Program[at] = Entry(reg, {}, bits)
  PROVE  Writes(reg, chip[reg] \union bits) /\ ~Program[at].unlocks
<1>1. (chip[reg] \ {}) \union bits = chip[reg] \union bits
  OBVIOUS
<1>2. QED
  BY <1>1, WrittenEntry

LEMMA WroteOff ==
  ASSUME IsImage(chip), NEW reg \in Register, NEW bits, Program[at] = Entry(reg, bits, {})
  PROVE  Writes(reg, chip[reg] \ bits) /\ ~Program[at].unlocks
<1>1. (chip[reg] \ bits) \union {} = chip[reg] \ bits
  OBVIOUS
<1>2. {} \in SUBSET Bits[reg]
  OBVIOUS
<1>3. QED
  BY <1>1, <1>2, WrittenEntry

\* The FIFO reset, as a function and inside a mode change.
LEMMA WroteReset ==
  ASSUME IsImage(chip)
  PROVE  /\ Program[at] = FifoReset[1] =>
              /\ Writes("USER_CTRL", chip["USER_CTRL"] \ {"FIFO_ENABLE"})
              /\ ~Program[at].unlocks
         /\ Program[at] = FifoReset[2] =>
              /\ Writes("USER_CTRL", chip["USER_CTRL"] \union {"FIFO_ENABLE"})
              /\ Program[at].unlocks
<1>1. "USER_CTRL" \in Register
  BY DEF Register
<1>2. ASSUME Program[at] = FifoReset[1]
      PROVE  /\ Writes("USER_CTRL", chip["USER_CTRL"] \ {"FIFO_ENABLE"})
             /\ ~Program[at].unlocks
  BY <1>1, <1>2, WroteOff, FifoResetProgram
<1>3. ASSUME Program[at] = FifoReset[2]
      PROVE  /\ Writes("USER_CTRL", chip["USER_CTRL"] \union {"FIFO_ENABLE"})
             /\ Program[at].unlocks
  <2>1. /\ Program[at].reg = "USER_CTRL" /\ Program[at].clear = {}
        /\ Program[at].set = {"FIFO_ENABLE"} /\ Program[at].unlocks
    BY <1>3, FifoResetProgram DEF Entry
  <2>2. (chip["USER_CTRL"] \ {}) \union {"FIFO_ENABLE"} = chip["USER_CTRL"] \union {"FIFO_ENABLE"}
    OBVIOUS
  <2>3. {"FIFO_ENABLE"} \in SUBSET Bits["USER_CTRL"]
    BY BitsAre
  <2>4. QED
    BY <1>1, <2>1, <2>2, <2>3, WrittenIs
<1>4. QED
  BY <1>2, <1>3

LEMMA FifoResetWrites ==
  ASSUME Typed, call.fn = "fifo_reset", at \in 1..Length
  PROVE  /\ at = 1 => Writes("USER_CTRL", chip["USER_CTRL"] \ {"FIFO_ENABLE"})
         /\ at = 2 => Writes("USER_CTRL", chip["USER_CTRL"] \union {"FIFO_ENABLE"})
         /\ at # 2 => ~Program[at].unlocks
<1>1. Program = FifoReset /\ at \in 1..2
  BY ProgramIs DEF Typed, TypeOK, Length
<1>2. QED
  BY <1>1, WroteReset DEF Typed

LEMMA SwitchWrites ==
  ASSUME Typed, NEW reg \in Register, NEW bits \in SUBSET Bits[reg], NEW on \in BOOLEAN,
         Program[at] = Switch(reg, bits, on)
  PROVE  /\ Writes(reg, IF on THEN chip[reg] \union bits ELSE chip[reg] \ bits)
         /\ ~Program[at].unlocks
<1>1. CASE on
  <2>1. Program[at] = Entry(reg, {}, bits)
    BY <1>1, Switches
  <2>2. QED
    BY <1>1, <2>1, WroteOn DEF Typed
<1>2. CASE ~on
  <2>1. Program[at] = Entry(reg, bits, {})
    BY <1>2, Switches
  <2>2. QED
    BY <1>2, <2>1, WroteOff DEF Typed
<1>3. QED
  BY <1>1, <1>2

LEMMA SleepWrites ==
  ASSUME Typed, call.fn = "set_sleep", at \in 1..Length
  PROVE  /\ Writes("PWR_MGMT_1", IF call.on THEN chip["PWR_MGMT_1"] \union {"SLEEP"}
                                            ELSE chip["PWR_MGMT_1"] \ {"SLEEP"})
         /\ ~Program[at].unlocks
<1>1. call \in Calls /\ at = 1 /\ Program = <<Switch("PWR_MGMT_1", {"SLEEP"}, call.on)>>
  BY ProgramIs DEF Typed, TypeOK, Length
<1>2. "PWR_MGMT_1" \in Register /\ {"SLEEP"} \in SUBSET Bits["PWR_MGMT_1"]
  BY BitsAre DEF Register
<1>3. call.on \in BOOLEAN /\ Program[at] = Switch("PWR_MGMT_1", {"SLEEP"}, call.on)
  BY <1>1, CallTypes
<1>4. QED
  BY <1>2, <1>3, SwitchWrites

LEMMA ContentWrites ==
  ASSUME Typed, call.fn = "set_fifo_content", at \in 1..Length
  PROVE  /\ Writes("FIFO_EN", IF call.on THEN chip["FIFO_EN"] \union {call.content}
                                         ELSE chip["FIFO_EN"] \ {call.content})
         /\ ~Program[at].unlocks
<1>1. call \in Calls /\ at = 1 /\ Program = <<Switch("FIFO_EN", {call.content}, call.on)>>
  BY ProgramIs DEF Typed, TypeOK, Length
<1>2. call.on \in BOOLEAN /\ Program[at] = Switch("FIFO_EN", {call.content}, call.on)
  BY <1>1, CallTypes
<1>3. "FIFO_EN" \in Register /\ {call.content} \in SUBSET Bits["FIFO_EN"]
  BY <1>1, BitsAre, CallTypes DEF Register
<1>4. QED
  BY <1>2, <1>3, SwitchWrites

LEMMA SourceWrites ==
  ASSUME Typed, call.fn = "set_source", at \in 1..Length
  PROVE  LET ch == call.ch  on == call.on IN
         /\ at = 1 /\ ch = "TEMP" =>
              Writes("PWR_MGMT_1", IF on THEN chip["PWR_MGMT_1"] \ {"TEMP_DIS"}
                                         ELSE chip["PWR_MGMT_1"] \union {"TEMP_DIS"})
         /\ at = 1 /\ ch # "TEMP" =>
              Writes("PWR_MGMT_2", IF on THEN chip["PWR_MGMT_2"] \ {ch}
                                         ELSE chip["PWR_MGMT_2"] \union {ch})
         /\ at = 2 => Writes("FIFO_EN", IF on THEN chip["FIFO_EN"] \union {ContentOf(ch)}
                                              ELSE chip["FIFO_EN"] \ {ContentOf(ch)})
         /\ at = 2 => ContentChanges(ch)
         /\ ~Program[at].unlocks
<1> DEFINE ch == call.ch
           on == call.on
<1>1. call \in Calls /\ Program = SetSource(ch, on) /\ ch \in Channel /\ on \in BOOLEAN
  BY ProgramIs, CallTypes DEF Typed, TypeOK
<1>2. at \in 1..2 /\ (at = 2 => ContentChanges(ch))
  BY DEF Length
<1>r. {"PWR_MGMT_1", "PWR_MGMT_2", "FIFO_EN"} \subseteq Register
  BY DEF Register
<1> HIDE DEF ch, on
<1>3. CASE at = 1 /\ ch = "TEMP"
  <2>1. Program[at] = Switch("PWR_MGMT_1", {"TEMP_DIS"}, ~on)
    BY <1>1, <1>3, SourceProgram
  <2>2. {"TEMP_DIS"} \in SUBSET Bits["PWR_MGMT_1"] /\ (~on) \in BOOLEAN
    BY BitsAre
  <2>3. /\ Writes("PWR_MGMT_1", IF ~on THEN chip["PWR_MGMT_1"] \union {"TEMP_DIS"}
                                      ELSE chip["PWR_MGMT_1"] \ {"TEMP_DIS"})
        /\ ~Program[at].unlocks
    BY <1>r, <2>1, <2>2, SwitchWrites
  <2>4. QED
    BY <1>1, <1>3, <2>3 DEF ch, on
<1>4. CASE at = 1 /\ ch # "TEMP"
  <2>1. Program[at] = Switch("PWR_MGMT_2", {ch}, ~on)
    BY <1>1, <1>4, SourceProgram
  <2>2. {ch} \in SUBSET Bits["PWR_MGMT_2"] /\ (~on) \in BOOLEAN
    BY <1>1, <1>4, BitsAre DEF Channel
  <2>3. /\ Writes("PWR_MGMT_2", IF ~on THEN chip["PWR_MGMT_2"] \union {ch}
                                      ELSE chip["PWR_MGMT_2"] \ {ch})
        /\ ~Program[at].unlocks
    BY <1>r, <2>1, <2>2, SwitchWrites
  <2>4. QED
    BY <1>1, <1>4, <2>3 DEF ch, on
<1>5. CASE at = 2
  <2>1. Program[at] = Switch("FIFO_EN", {ContentOf(ch)}, on)
    BY <1>1, <1>2, <1>5, SourceProgram
  <2>2. {ContentOf(ch)} \in SUBSET Bits["FIFO_EN"]
    BY <1>1, BitsAre DEF Channel, ContentOf, Content, Axis
  <2>3. /\ Writes("FIFO_EN", IF on THEN chip["FIFO_EN"] \union {ContentOf(ch)}
                                   ELSE chip["FIFO_EN"] \ {ContentOf(ch)})
        /\ ~Program[at].unlocks
    BY <1>1, <1>r, <2>1, <2>2, SwitchWrites
  <2>4. QED
    BY <1>1, <1>2, <1>5, <2>3 DEF ch, on
<1>6. QED
  BY <1>2, <1>3, <1>4, <1>5

LEMMA RangeWrites ==
  ASSUME Typed, call.fn = "set_range", at \in 1..Length
  PROVE  /\ at = 1 => Writes(call.reg, (chip[call.reg] \ FullScale) \union {call.range})
         /\ at = 2 => Writes(call.reg, chip[call.reg])
         /\ ~Program[at].unlocks
<1>1. /\ call \in Calls /\ at \in 1..2 /\ Program = SetRange(call.reg, call.range)
      /\ call.reg \in {"GYRO_CONFIG", "ACCEL_CONFIG"} /\ call.range \in FullScale
  BY ProgramIs, CallTypes DEF Typed, TypeOK, Length
<1>2. call.reg \in Register /\ {call.range} \in SUBSET Bits[call.reg]
  BY <1>1, BitsAre DEF Register
<1>3. /\ SetRange(call.reg, call.range)[1] = Entry(call.reg, FullScale, {call.range})
      /\ SetRange(call.reg, call.range)[2] = Entry(call.reg, {}, {})
  BY RangeProgram
<1>4. CASE at = 1
  BY <1>1, <1>2, <1>3, <1>4, WrittenEntry DEF Typed
<1>5. CASE at = 2
  <2>1. chip[call.reg] \ {} = chip[call.reg]
    OBVIOUS
  <2>2. Program[at] = Entry(call.reg, {}, {})
    BY <1>1, <1>3, <1>5
  <2>3. QED
    BY <1>1, <1>2, <1>5, <2>1, <2>2, WroteOff DEF Typed
<1>6. QED
  BY <1>1, <1>4, <1>5

\* A mode change, whose FIFO part and whose power part follow one another.
LEMMA ModeWrites ==
  ASSUME Typed, call.fn = "set_mode", at \in 1..Length,
         NEW m, m = call.mode, NEW p, p = at - PowerFrom(m)
  PROVE  /\ at = 1 => Writes("INT_ENABLE", IF m = "BURST" THEN {"FIFO_OFLOW"} ELSE {"DATA_READY"})
         /\ at = 2 => Writes("USER_CTRL", IF m = "BURST" THEN chip["USER_CTRL"] \union {"FIFO_ENABLE"}
                                                         ELSE chip["USER_CTRL"] \ {"FIFO_ENABLE"})
         /\ at = 3 => Writes("FIFO_EN", IF m = "BURST" THEN Content ELSE {})
         /\ m # "BURST" /\ at = 4 => Writes("USER_CTRL", chip["USER_CTRL"] \ {"FIFO_ENABLE"})
         /\ m # "BURST" /\ at = 5 => Writes("USER_CTRL", chip["USER_CTRL"] \union {"FIFO_ENABLE"})
         /\ p = 1 => Writes("PWR_MGMT_1", IF m = "LOWPOWER" THEN chip["PWR_MGMT_1"] \union {"TEMP_DIS"}
                                                            ELSE chip["PWR_MGMT_1"] \ {"TEMP_DIS"})
         /\ p = 2 => Writes("PWR_MGMT_2", IF m = "LOWPOWER" THEN chip["PWR_MGMT_2"] \union GyroAxis
                                                            ELSE chip["PWR_MGMT_2"] \ GyroAxis)
         /\ p = 3 => Writes("PWR_MGMT_2", chip["PWR_MGMT_2"] \ AccelAxis)
         /\ p = 4 => Writes("PWR_MGMT_1", IF m = "LOWPOWER" THEN chip["PWR_MGMT_1"] \ {"SLEEP"}
                                                            ELSE chip["PWR_MGMT_1"] \ {"CYCLE"})
         /\ p = 5 => Writes("PWR_MGMT_1", IF m = "LOWPOWER" THEN chip["PWR_MGMT_1"] \union {"CYCLE"}
                                                            ELSE chip["PWR_MGMT_1"] \ {"SLEEP"})
         /\ (m # "BURST" /\ at = 5) \/ ~Program[at].unlocks
<1>1. call \in Calls /\ m \in Mode /\ Program = SetMode[m] /\ IsImage(chip)
  BY ProgramIs, CallTypes DEF Typed, TypeOK
<1>2. at \in 1..(IF m = "BURST" THEN 8 ELSE 10) /\ p = at - (IF m = "BURST" THEN 3 ELSE 5)
  BY DEF Length, PowerFrom
<1>3. /\ {"INT_ENABLE", "USER_CTRL", "FIFO_EN", "PWR_MGMT_1", "PWR_MGMT_2"} \subseteq Register
      /\ {"FIFO_OFLOW"} \subseteq Bits["INT_ENABLE"] /\ {"DATA_READY"} \subseteq Bits["INT_ENABLE"]
      /\ {"FIFO_ENABLE"} \subseteq Bits["USER_CTRL"]
      /\ {} \subseteq Bits["FIFO_EN"] /\ Content \subseteq Bits["FIFO_EN"]
      /\ {"TEMP_DIS"} \subseteq Bits["PWR_MGMT_1"] /\ {"CYCLE"} \subseteq Bits["PWR_MGMT_1"]
      /\ GyroAxis \subseteq Bits["PWR_MGMT_2"]
  BY BitsAre DEF Register, Axis
<1>4. CASE m = "BURST"
  <2>1. at \in 1..8 /\ p = at - 3
    BY <1>2, <1>4
  <2>2. CASE at = 1
    <3>1. Program[at] = Entry("INT_ENABLE", Bits["INT_ENABLE"], {"FIFO_OFLOW"})
      BY <1>1, <1>4, <2>2, BurstProgram
    <3>2. Writes("INT_ENABLE", {"FIFO_OFLOW"}) /\ ~Program[at].unlocks
      BY <1>1, <1>3, <3>1, WrotePut
    <3>3. QED
      BY <1>4, <2>1, <2>2, <3>2
  <2>3. CASE at = 2
    <3>1. Program[at] = Entry("USER_CTRL", {}, {"FIFO_ENABLE"})
      BY <1>1, <1>4, <2>3, BurstProgram
    <3>2. Writes("USER_CTRL", chip["USER_CTRL"] \union {"FIFO_ENABLE"}) /\ ~Program[at].unlocks
      BY <1>1, <1>3, <3>1, WroteOn
    <3>3. QED
      BY <1>4, <2>1, <2>3, <3>2
  <2>4. CASE at = 3
    <3>1. Program[at] = Entry("FIFO_EN", Bits["FIFO_EN"], Content)
      BY <1>1, <1>4, <2>4, BurstProgram
    <3>2. Writes("FIFO_EN", Content) /\ ~Program[at].unlocks
      BY <1>1, <1>3, <3>1, WrotePut
    <3>3. QED
      BY <1>4, <2>1, <2>4, <3>2
  <2>5. CASE at = 4
    <3>1. Program[at] = Entry("PWR_MGMT_1", {"TEMP_DIS"}, {})
      BY <1>1, <1>4, <2>5, BurstProgram
    <3>2. Writes("PWR_MGMT_1", chip["PWR_MGMT_1"] \ {"TEMP_DIS"}) /\ ~Program[at].unlocks
      BY <1>1, <1>3, <3>1, WroteOff
    <3>3. QED
      BY <1>4, <2>1, <2>5, <3>2
  <2>6. CASE at = 5
    <3>1. Program[at] = Entry("PWR_MGMT_2", GyroAxis, {})
      BY <1>1, <1>4, <2>6, BurstProgram
    <3>2. Writes("PWR_MGMT_2", chip["PWR_MGMT_2"] \ GyroAxis) /\ ~Program[at].unlocks
      BY <1>1, <1>3, <3>1, WroteOff
    <3>3. QED
      BY <1>4, <2>1, <2>6, <3>2
  <2>7. CASE at = 6
    <3>1. Program[at] = Entry("PWR_MGMT_2", AccelAxis, {})
      BY <1>1, <1>4, <2>7, BurstProgram
    <3>2. Writes("PWR_MGMT_2", chip["PWR_MGMT_2"] \ AccelAxis) /\ ~Program[at].unlocks
      BY <1>1, <1>3, <3>1, WroteOff
    <3>3. QED
      BY <1>4, <2>1, <2>7, <3>2
  <2>8. CASE at = 7
    <3>1. Program[at] = Entry("PWR_MGMT_1", {"CYCLE"}, {})
      BY <1>1, <1>4, <2>8, BurstProgram
    <3>2. Writes("PWR_MGMT_1", chip["PWR_MGMT_1"] \ {"CYCLE"}) /\ ~Program[at].unlocks
      BY <1>1, <1>3, <3>1, WroteOff
    <3>3. QED
      BY <1>4, <2>1, <2>8, <3>2
  <2>9. CASE at = 8
    <3>1. Program[at] = Entry("PWR_MGMT_1", {"SLEEP"}, {})
      BY <1>1, <1>4, <2>9, BurstProgram
    <3>2. Writes("PWR_MGMT_1", chip["PWR_MGMT_1"] \ {"SLEEP"}) /\ ~Program[at].unlocks
      BY <1>1, <1>3, <3>1, WroteOff
    <3>3. QED
      BY <1>4, <2>1, <2>9, <3>2
  <2>10. QED
    BY <2>1, <2>2, <2>3, <2>4, <2>5, <2>6, <2>7, <2>8, <2>9
<1>5. CASE m \in {"SINGLE", "LOWPOWER"} /\ at <= 5
  <2>1. at \in 1..5 /\ p = at - 5
    BY <1>2, <1>5
  <2>2. CASE at = 1
    <3>1. Program[at] = Entry("INT_ENABLE", Bits["INT_ENABLE"], {"DATA_READY"})
      BY <1>1, <1>5, <2>2, FifoOffProgram
    <3>2. Writes("INT_ENABLE", {"DATA_READY"}) /\ ~Program[at].unlocks
      BY <1>1, <1>3, <3>1, WrotePut
    <3>3. QED
      BY <1>5, <2>1, <2>2, <3>2
  <2>3. CASE at = 2
    <3>1. Program[at] = Entry("USER_CTRL", {"FIFO_ENABLE"}, {})
      BY <1>1, <1>5, <2>3, FifoOffProgram
    <3>2. Writes("USER_CTRL", chip["USER_CTRL"] \ {"FIFO_ENABLE"}) /\ ~Program[at].unlocks
      BY <1>1, <1>3, <3>1, WroteOff
    <3>3. QED
      BY <1>5, <2>1, <2>3, <3>2
  <2>4. CASE at = 3
    <3>1. Program[at] = Entry("FIFO_EN", Bits["FIFO_EN"], {})
      BY <1>1, <1>5, <2>4, FifoOffProgram
    <3>2. Writes("FIFO_EN", {}) /\ ~Program[at].unlocks
      BY <1>1, <1>3, <3>1, WrotePut
    <3>3. QED
      BY <1>5, <2>1, <2>4, <3>2
  <2>5. CASE at = 4
    <3>1. Program[at] = FifoReset[1]
      BY <1>1, <1>5, <2>5, FifoOffProgram
    <3>2. Writes("USER_CTRL", chip["USER_CTRL"] \ {"FIFO_ENABLE"}) /\ ~Program[at].unlocks
      BY <1>1, <3>1, WroteReset
    <3>3. QED
      BY <1>5, <2>1, <2>5, <3>2
  <2>6. CASE at = 5
    <3>1. Program[at] = FifoReset[2]
      BY <1>1, <1>5, <2>6, FifoOffProgram
    <3>2. Writes("USER_CTRL", chip["USER_CTRL"] \union {"FIFO_ENABLE"}) /\ Program[at].unlocks
      BY <1>1, <3>1, WroteReset
    <3>3. QED
      BY <1>5, <2>1, <2>6, <3>2
  <2>7. QED
    BY <2>1, <2>2, <2>3, <2>4, <2>5, <2>6
<1>6. CASE m = "SINGLE" /\ at > 5
  <2>1. at \in 6..10 /\ p = at - 5
    BY <1>2, <1>6
  <2>2. CASE at = 6
    <3>1. Program[at] = Entry("PWR_MGMT_1", {"TEMP_DIS"}, {})
      BY <1>1, <1>6, <2>2, FifoOffProgram
    <3>2. Writes("PWR_MGMT_1", chip["PWR_MGMT_1"] \ {"TEMP_DIS"}) /\ ~Program[at].unlocks
      BY <1>1, <1>3, <3>1, WroteOff
    <3>3. QED
      BY <1>6, <2>1, <2>2, <3>2
  <2>3. CASE at = 7
    <3>1. Program[at] = Entry("PWR_MGMT_2", GyroAxis, {})
      BY <1>1, <1>6, <2>3, FifoOffProgram
    <3>2. Writes("PWR_MGMT_2", chip["PWR_MGMT_2"] \ GyroAxis) /\ ~Program[at].unlocks
      BY <1>1, <1>3, <3>1, WroteOff
    <3>3. QED
      BY <1>6, <2>1, <2>3, <3>2
  <2>4. CASE at = 8
    <3>1. Program[at] = Entry("PWR_MGMT_2", AccelAxis, {})
      BY <1>1, <1>6, <2>4, FifoOffProgram
    <3>2. Writes("PWR_MGMT_2", chip["PWR_MGMT_2"] \ AccelAxis) /\ ~Program[at].unlocks
      BY <1>1, <1>3, <3>1, WroteOff
    <3>3. QED
      BY <1>6, <2>1, <2>4, <3>2
  <2>5. CASE at = 9
    <3>1. Program[at] = Entry("PWR_MGMT_1", {"CYCLE"}, {})
      BY <1>1, <1>6, <2>5, FifoOffProgram
    <3>2. Writes("PWR_MGMT_1", chip["PWR_MGMT_1"] \ {"CYCLE"}) /\ ~Program[at].unlocks
      BY <1>1, <1>3, <3>1, WroteOff
    <3>3. QED
      BY <1>6, <2>1, <2>5, <3>2
  <2>6. CASE at = 10
    <3>1. Program[at] = Entry("PWR_MGMT_1", {"SLEEP"}, {})
      BY <1>1, <1>6, <2>6, FifoOffProgram
    <3>2. Writes("PWR_MGMT_1", chip["PWR_MGMT_1"] \ {"SLEEP"}) /\ ~Program[at].unlocks
      BY <1>1, <1>3, <3>1, WroteOff
    <3>3. QED
      BY <1>6, <2>1, <2>6, <3>2
  <2>7. QED
    BY <2>1, <2>2, <2>3, <2>4, <2>5, <2>6
<1>7. CASE m = "LOWPOWER" /\ at > 5
  <2>1. at \in 6..10 /\ p = at - 5
    BY <1>2, <1>7
  <2>2. CASE at = 6
    <3>1. Program[at] = Entry("PWR_MGMT_1", {}, {"TEMP_DIS"})
      BY <1>1, <1>7, <2>2, FifoOffProgram
    <3>2. Writes("PWR_MGMT_1", chip["PWR_MGMT_1"] \union {"TEMP_DIS"}) /\ ~Program[at].unlocks
      BY <1>1, <1>3, <3>1, WroteOn
    <3>3. QED
      BY <1>7, <2>1, <2>2, <3>2
  <2>3. CASE at = 7
    <3>1. Program[at] = Entry("PWR_MGMT_2", {}, GyroAxis)
      BY <1>1, <1>7, <2>3, FifoOffProgram
    <3>2. Writes("PWR_MGMT_2", chip["PWR_MGMT_2"] \union GyroAxis) /\ ~Program[at].unlocks
      BY <1>1, <1>3, <3>1, WroteOn
    <3>3. QED
      BY <1>7, <2>1, <2>3, <3>2
  <2>4. CASE at = 8
    <3>1. Program[at] = Entry("PWR_MGMT_2", AccelAxis, {})
      BY <1>1, <1>7, <2>4, FifoOffProgram
    <3>2. Writes("PWR_MGMT_2", chip["PWR_MGMT_2"] \ AccelAxis) /\ ~Program[at].unlocks
      BY <1>1, <1>3, <3>1, WroteOff
    <3>3. QED
      BY <1>7, <2>1, <2>4, <3>2
  <2>5. CASE at = 9
    <3>1. Program[at] = Entry("PWR_MGMT_1", {"SLEEP"}, {})
      BY <1>1, <1>7, <2>5, FifoOffProgram
    <3>2. Writes("PWR_MGMT_1", chip["PWR_MGMT_1"] \ {"SLEEP"}) /\ ~Program[at].unlocks
      BY <1>1, <1>3, <3>1, WroteOff
    <3>3. QED
      BY <1>7, <2>1, <2>5, <3>2
  <2>6. CASE at = 10
    <3>1. Program[at] = Entry("PWR_MGMT_1", {}, {"CYCLE"})
      BY <1>1, <1>7, <2>6, FifoOffProgram
    <3>2. Writes("PWR_MGMT_1", chip["PWR_MGMT_1"] \union {"CYCLE"}) /\ ~Program[at].unlocks
      BY <1>1, <1>3, <3>1, WroteOn
    <3>3. QED
      BY <1>7, <2>1, <2>6, <3>2
  <2>7. QED
    BY <2>1, <2>2, <2>3, <2>4, <2>5, <2>6
<1>8. QED
  BY <1>1, <1>2, <1>4, <1>5, <1>6, <1>7 DEF Mode

LEMMA TestWrites ==
  ASSUME Typed, call.fn = "self_test", at \in 1..Length
  PROVE  /\ at = 1 => Writes("PWR_MGMT_1", chip["PWR_MGMT_1"] \ {"SLEEP", "CYCLE"})
         /\ at = 2 => Writes("PWR_MGMT_2", chip["PWR_MGMT_2"] \ Axis)
         /\ at \in {3, 5, 7, 9} => \E v : Writes("GYRO_CONFIG", v)
         /\ at \in {4, 6, 8, 10} => \E v : Writes("ACCEL_CONFIG", v)
         /\ at = 9 => Writes("GYRO_CONFIG", saved["GYRO_CONFIG"])
         /\ at = 10 => Writes("ACCEL_CONFIG", saved["ACCEL_CONFIG"])
         /\ at = 11 => Writes("PWR_MGMT_1", saved["PWR_MGMT_1"])
         /\ at = 12 => Writes("PWR_MGMT_2", saved["PWR_MGMT_2"])
         /\ ~Program[at].unlocks
<1>1. at \in 1..12 /\ Program = SelfTest /\ IsImage(chip) /\ IsImage(saved)
  BY ProgramIs DEF Typed, TypeOK, Length
<1>2. {"GYRO_CONFIG", "ACCEL_CONFIG", "PWR_MGMT_1", "PWR_MGMT_2"} \subseteq Register
  BY DEF Register
<1>3. /\ {Narrow} \subseteq Bits["GYRO_CONFIG"] /\ {TestRange} \subseteq Bits["ACCEL_CONFIG"]
      /\ {"SELF_TEST"} \subseteq Bits["GYRO_CONFIG"] /\ {"SELF_TEST"} \subseteq Bits["ACCEL_CONFIG"]
  BY BitsAre, Mpu6050DriverAssumption
<1>4. /\ saved["GYRO_CONFIG"] \subseteq Bits["GYRO_CONFIG"]
      /\ saved["ACCEL_CONFIG"] \subseteq Bits["ACCEL_CONFIG"]
      /\ saved["PWR_MGMT_1"] \subseteq Bits["PWR_MGMT_1"]
      /\ saved["PWR_MGMT_2"] \subseteq Bits["PWR_MGMT_2"]
  BY <1>1, <1>2 DEF IsImage
<1>5. CASE at = 1
  <2>1. Program[at] = Entry("PWR_MGMT_1", {"SLEEP", "CYCLE"}, {})
    BY <1>1, <1>5, SelfTestProgram
  <2>2. Writes("PWR_MGMT_1", chip["PWR_MGMT_1"] \ {"SLEEP", "CYCLE"}) /\ ~Program[at].unlocks
    BY <1>1, <1>2, <1>3, <1>4, <2>1, WroteOff
  <2>3. QED
    BY <1>1, <1>5, <2>2
<1>6. CASE at = 2
  <2>1. Program[at] = Entry("PWR_MGMT_2", Axis, {})
    BY <1>1, <1>6, SelfTestProgram
  <2>2. Writes("PWR_MGMT_2", chip["PWR_MGMT_2"] \ Axis) /\ ~Program[at].unlocks
    BY <1>1, <1>2, <1>3, <1>4, <2>1, WroteOff
  <2>3. QED
    BY <1>1, <1>6, <2>2
<1>7. CASE at = 3
  <2>1. Program[at] = Entry("GYRO_CONFIG", Bits["GYRO_CONFIG"], {Narrow})
    BY <1>1, <1>7, SelfTestProgram
  <2>2. Writes("GYRO_CONFIG", {Narrow}) /\ ~Program[at].unlocks
    BY <1>1, <1>2, <1>3, <1>4, <2>1, WrotePut
  <2>3. QED
    BY <1>1, <1>7, <2>2
<1>8. CASE at = 4
  <2>1. Program[at] = Entry("ACCEL_CONFIG", Bits["ACCEL_CONFIG"], {TestRange})
    BY <1>1, <1>8, SelfTestProgram
  <2>2. Writes("ACCEL_CONFIG", {TestRange}) /\ ~Program[at].unlocks
    BY <1>1, <1>2, <1>3, <1>4, <2>1, WrotePut
  <2>3. QED
    BY <1>1, <1>8, <2>2
<1>9. CASE at = 5
  <2>1. Program[at] = Entry("GYRO_CONFIG", {}, {"SELF_TEST"})
    BY <1>1, <1>9, SelfTestProgram
  <2>2. Writes("GYRO_CONFIG", chip["GYRO_CONFIG"] \union {"SELF_TEST"}) /\ ~Program[at].unlocks
    BY <1>1, <1>2, <1>3, <1>4, <2>1, WroteOn
  <2>3. QED
    BY <1>1, <1>9, <2>2
<1>10. CASE at = 6
  <2>1. Program[at] = Entry("ACCEL_CONFIG", {}, {"SELF_TEST"})
    BY <1>1, <1>10, SelfTestProgram
  <2>2. Writes("ACCEL_CONFIG", chip["ACCEL_CONFIG"] \union {"SELF_TEST"}) /\ ~Program[at].unlocks
    BY <1>1, <1>2, <1>3, <1>4, <2>1, WroteOn
  <2>3. QED
    BY <1>1, <1>10, <2>2
<1>11. CASE at = 7
  <2>1. Program[at] = Entry("GYRO_CONFIG", {"SELF_TEST"}, {})
    BY <1>1, <1>11, SelfTestProgram
  <2>2. Writes("GYRO_CONFIG", chip["GYRO_CONFIG"] \ {"SELF_TEST"}) /\ ~Program[at].unlocks
    BY <1>1, <1>2, <1>3, <1>4, <2>1, WroteOff
  <2>3. QED
    BY <1>1, <1>11, <2>2
<1>12. CASE at = 8
  <2>1. Program[at] = Entry("ACCEL_CONFIG", {"SELF_TEST"}, {})
    BY <1>1, <1>12, SelfTestProgram
  <2>2. Writes("ACCEL_CONFIG", chip["ACCEL_CONFIG"] \ {"SELF_TEST"}) /\ ~Program[at].unlocks
    BY <1>1, <1>2, <1>3, <1>4, <2>1, WroteOff
  <2>3. QED
    BY <1>1, <1>12, <2>2
<1>13. CASE at = 9
  <2>1. Program[at] = Entry("GYRO_CONFIG", Bits["GYRO_CONFIG"], saved["GYRO_CONFIG"])
    BY <1>1, <1>13, SelfTestProgram
  <2>2. Writes("GYRO_CONFIG", saved["GYRO_CONFIG"]) /\ ~Program[at].unlocks
    BY <1>1, <1>2, <1>3, <1>4, <2>1, WrotePut
  <2>3. QED
    BY <1>1, <1>13, <2>2
<1>14. CASE at = 10
  <2>1. Program[at] = Entry("ACCEL_CONFIG", Bits["ACCEL_CONFIG"], saved["ACCEL_CONFIG"])
    BY <1>1, <1>14, SelfTestProgram
  <2>2. Writes("ACCEL_CONFIG", saved["ACCEL_CONFIG"]) /\ ~Program[at].unlocks
    BY <1>1, <1>2, <1>3, <1>4, <2>1, WrotePut
  <2>3. QED
    BY <1>1, <1>14, <2>2
<1>15. CASE at = 11
  <2>1. Program[at] = Entry("PWR_MGMT_1", Bits["PWR_MGMT_1"], saved["PWR_MGMT_1"])
    BY <1>1, <1>15, SelfTestProgram
  <2>2. Writes("PWR_MGMT_1", saved["PWR_MGMT_1"]) /\ ~Program[at].unlocks
    BY <1>1, <1>2, <1>3, <1>4, <2>1, WrotePut
  <2>3. QED
    BY <1>1, <1>15, <2>2
<1>16. CASE at = 12
  <2>1. Program[at] = Entry("PWR_MGMT_2", Bits["PWR_MGMT_2"], saved["PWR_MGMT_2"])
    BY <1>1, <1>16, SelfTestProgram
  <2>2. Writes("PWR_MGMT_2", saved["PWR_MGMT_2"]) /\ ~Program[at].unlocks
    BY <1>1, <1>2, <1>3, <1>4, <2>1, WrotePut
  <2>3. QED
    BY <1>1, <1>16, <2>2
<1>17. QED
  BY <1>1, <1>5, <1>6, <1>7, <1>8, <1>9, <1>10, <1>11, <1>12, <1>13, <1>14, <1>15, <1>16

LEMMA InitWrites ==
  ASSUME Typed, call.fn = "init", at \in 1..Length
  PROVE  /\ at = 1 => Written = AfterReset
         /\ at = 2 => Writes("PWR_MGMT_1", {})
         /\ at = 3 => Writes("FIFO_EN", {})
         /\ at = 4 => Writes("INT_ENABLE", {"DATA_READY"})
         /\ ~Program[at].unlocks
<1>0. Program = <<DeviceReset>> \o InitTable
  BY ProgramIs DEF Typed, TypeOK
<1>1. at \in 1..4 /\ IsImage(chip)
  BY DEF Typed, Length
<1>2. {"INT_ENABLE", "FIFO_EN", "PWR_MGMT_1"} \subseteq Register
  BY DEF Register
<1>3. {} \subseteq Bits["PWR_MGMT_1"] /\ {} \subseteq Bits["FIFO_EN"] /\ {"DATA_READY"} \subseteq Bits["INT_ENABLE"]
  BY BitsAre
<1>4. CASE at = 1
  <2>1. Program[at] = DeviceReset
    BY <1>0, <1>4, InitProgram
  <2>2. ~DeviceReset.unlocks
    BY Entries DEF DeviceReset, Entry
  <2>3. QED
    BY <1>4, <2>1, <2>2 DEF Written
<1>5. CASE at = 2
  <2>1. Program[at] = Entry("PWR_MGMT_1", Bits["PWR_MGMT_1"], {})
    BY <1>0, <1>5, InitProgram
  <2>2. Writes("PWR_MGMT_1", {}) /\ ~Program[at].unlocks
    BY <1>1, <1>2, <1>3, <2>1, WrotePut
  <2>3. QED
    BY <1>1, <1>5, <2>2
<1>6. CASE at = 3
  <2>1. Program[at] = Entry("FIFO_EN", Bits["FIFO_EN"], {})
    BY <1>0, <1>6, InitProgram
  <2>2. Writes("FIFO_EN", {}) /\ ~Program[at].unlocks
    BY <1>1, <1>2, <1>3, <2>1, WrotePut
  <2>3. QED
    BY <1>1, <1>6, <2>2
<1>7. CASE at = 4
  <2>1. Program[at] = Entry("INT_ENABLE", Bits["INT_ENABLE"], {"DATA_READY"})
    BY <1>0, <1>7, InitProgram
  <2>2. Writes("INT_ENABLE", {"DATA_READY"}) /\ ~Program[at].unlocks
    BY <1>1, <1>2, <1>3, <2>1, WrotePut
  <2>3. QED
    BY <1>1, <1>7, <2>2
<1>8. QED
  BY <1>1, <1>4, <1>5, <1>6, <1>7

-----------------------------------------------------------------------------
(* What the accesses of a function amount to.                              *)

\* Whatever is written are registers, and only the end of a FIFO reset unlocks.
LEMMA WrittenImage ==
  ASSUME Typed, InProgram, at > 0
  PROVE  /\ IsImage(Written)
         /\ \/ ~Program[at].unlocks
            \/ call.fn = "fifo_reset" /\ at = 2
            \/ call.fn = "set_mode" /\ call.mode # "BURST" /\ at = 5
<1>1. at \in 1..Length /\ call \in Calls
  BY DEF Typed, TypeOK, InProgram
<1>2. CASE call.fn = "fifo_reset"
  <2>1. at \in 1..2
    BY <1>1, <1>2 DEF Length
  <2>2. QED
    BY <1>1, <1>2, <2>1, FifoResetWrites DEF Writes
<1>3. CASE call.fn = "set_sleep"
  BY <1>1, <1>3, SleepWrites DEF Writes
<1>4. CASE call.fn = "set_fifo_content"
  BY <1>1, <1>4, ContentWrites DEF Writes
<1>5. CASE call.fn = "set_source"
  <2>1. at \in 1..2
    BY <1>1, <1>5 DEF Length
  <2>2. QED
    BY <1>1, <1>5, <2>1, SourceWrites DEF Writes
<1>6. CASE call.fn = "set_range"
  <2>1. at \in 1..2
    BY <1>1, <1>6 DEF Length
  <2>2. QED
    BY <1>1, <1>6, <2>1, RangeWrites DEF Writes
<1>7. CASE call.fn = "set_mode"
  <2> DEFINE m == call.mode
             p == at - PowerFrom(m)
  <2>1. m \in Mode /\ at \in 1..(IF m = "BURST" THEN 8 ELSE 10)
    BY <1>1, <1>7, CallTypes DEF Length
  <2>2. p = at - (IF m = "BURST" THEN 3 ELSE 5)
    BY DEF PowerFrom
  <2> HIDE DEF p
  <2>3. at \in 1..3 \/ (m # "BURST" /\ at \in {4, 5}) \/ p \in 1..5
    BY <2>1, <2>2
  <2>4. QED
    BY <1>1, <1>7, <2>3, ModeWrites DEF Writes, p
<1>8. CASE call.fn = "self_test"
  <2>1. at \in 1..12
    BY <1>1, <1>8 DEF Length
  <2>2. QED
    BY <1>1, <1>8, <2>1, TestWrites DEF Writes
<1>9. CASE call.fn = "init"
  <2>1. at \in 1..4
    BY <1>1, <1>9 DEF Length
  <2>2. QED
    BY <1>1, <1>9, <2>1, InitWrites, ResetIsImage DEF Writes
<1>10. QED
  BY <1>1, <1>2, <1>3, <1>4, <1>5, <1>6, <1>7, <1>8, <1>9, CallTypes

\* A mode change makes progress with every access, and leaves the ranges alone.
LEMMA ModeProgress ==
  ASSUME Typed, InProgram, ModeSoFar, call.fn = "set_mode", at > 0,
         NEW m, m = call.mode
  PROVE  /\ FifoSet(Written, m, at + 1) /\ PowerSet(Written, m, at + 1 - PowerFrom(m))
         /\ Written["GYRO_CONFIG"] = chip["GYRO_CONFIG"]
         /\ Written["ACCEL_CONFIG"] = chip["ACCEL_CONFIG"]
<1> DEFINE p == at - PowerFrom(m)
<1>1. at \in 1..Length /\ call \in Calls /\ m \in Mode
  BY CallTypes DEF Typed, TypeOK, InProgram
<1>2. at \in 1..(IF m = "BURST" THEN 8 ELSE 10) /\ p = at - (IF m = "BURST" THEN 3 ELSE 5)
  BY <1>1 DEF Length, PowerFrom
<1>3. FifoSet(chip, m, at) /\ PowerSet(chip, m, p)
  BY DEF ModeSoFar
<1>4. {"INT_ENABLE", "USER_CTRL", "FIFO_EN", "PWR_MGMT_1", "PWR_MGMT_2", "GYRO_CONFIG", "ACCEL_CONFIG"}
        = Register
  BY DEF Register
<1>5. at + 1 - PowerFrom(m) = p + 1
  BY <1>1 DEF PowerFrom, Mode
<1>6. "TEMP_DIS" # "CYCLE" /\ "TEMP_DIS" # "SLEEP" /\ AccelAxis \cap GyroAxis = {}
  BY Mpu6050DriverAssumption
<1>w. /\ at = 1 => Writes("INT_ENABLE", IF m = "BURST" THEN {"FIFO_OFLOW"} ELSE {"DATA_READY"})
      /\ at = 2 => Writes("USER_CTRL", IF m = "BURST" THEN chip["USER_CTRL"] \union {"FIFO_ENABLE"}
                                                      ELSE chip["USER_CTRL"] \ {"FIFO_ENABLE"})
      /\ at = 3 => Writes("FIFO_EN", IF m = "BURST" THEN Content ELSE {})
      /\ m # "BURST" /\ at = 4 => Writes("USER_CTRL", chip["USER_CTRL"] \ {"FIFO_ENABLE"})
      /\ m # "BURST" /\ at = 5 => Writes("USER_CTRL", chip["USER_CTRL"] \union {"FIFO_ENABLE"})
      /\ p = 1 => Writes("PWR_MGMT_1", IF m = "LOWPOWER" THEN chip["PWR_MGMT_1"] \union {"TEMP_DIS"}
                                                         ELSE chip["PWR_MGMT_1"] \ {"TEMP_DIS"})
      /\ p = 2 => Writes("PWR_MGMT_2", IF m = "LOWPOWER" THEN chip["PWR_MGMT_2"] \union GyroAxis
                                                         ELSE chip["PWR_MGMT_2"] \ GyroAxis)
      /\ p = 3 => Writes("PWR_MGMT_2", chip["PWR_MGMT_2"] \ AccelAxis)
      /\ p = 4 => Writes("PWR_MGMT_1", IF m = "LOWPOWER" THEN chip["PWR_MGMT_1"] \ {"SLEEP"}
                                                         ELSE chip["PWR_MGMT_1"] \ {"CYCLE"})
      /\ p = 5 => Writes("PWR_MGMT_1", IF m = "LOWPOWER" THEN chip["PWR_MGMT_1"] \union {"CYCLE"}
                                                         ELSE chip["PWR_MGMT_1"] \ {"SLEEP"})
  BY <1>1, ModeWrites
<1> HIDE DEF p
<1>7. CASE p <= 0
  <2>1. /\ \A r \in {"PWR_MGMT_1", "PWR_MGMT_2", "GYRO_CONFIG", "ACCEL_CONFIG"} : Written[r] = chip[r]
        /\ FifoSet(Written, m, at + 1)
    <3>1. at \in 1..5 /\ (at > 3 => m # "BURST")
      BY <1>2, <1>7
    <3>2. CASE at = 1
      BY <1>w, <1>4, <3>2 DEF Writes, FifoSet
    <3>3. CASE at = 2
      BY <1>w, <1>3, <1>4, <3>3 DEF Writes, FifoSet
    <3>4. CASE at = 3
      BY <1>w, <1>3, <1>4, <3>4 DEF Writes, FifoSet
    <3>5. CASE at = 4
      BY <1>w, <1>3, <1>4, <3>1, <3>5 DEF Writes, FifoSet
    <3>6. CASE at = 5
      BY <1>w, <1>3, <1>4, <3>1, <3>6 DEF Writes, FifoSet
    <3>7. QED
      BY <3>1, <3>2, <3>3, <3>4, <3>5, <3>6
  <2>2. p \in Int /\ p + 1 <= 1
    BY <1>1, <1>2, <1>7
  <2>3. PowerSet(Written, m, p + 1)
    BY <2>2 DEF PowerSet
  <2>4. QED
    BY <1>5, <2>1, <2>3
<1>8. CASE p >= 1
  <2>1. p \in 1..5 /\ at > 3
    BY <1>1, <1>2, <1>8
  <2>2. \A r \in Register : r \notin {"PWR_MGMT_1", "PWR_MGMT_2"} => Written[r] = chip[r]
    <3>1. CASE p \in {1, 4, 5}
      BY <1>w, <3>1 DEF Writes
    <3>2. CASE p \in {2, 3}
      BY <1>w, <3>2 DEF Writes
    <3>3. QED
      BY <2>1, <3>1, <3>2
  <2>3. FifoSet(Written, m, at + 1)
    BY <1>1, <1>3, <1>4, <2>1, <2>2 DEF FifoSet
  <2>4. PowerSet(Written, m, p + 1)
    <3>1. CASE p = 1
      BY <1>w, <3>1, <1>4 DEF Writes, PowerSet
    <3>2. CASE p = 2
      BY <1>w, <1>3, <3>2, <1>4 DEF Writes, PowerSet
    <3>3. CASE p = 3
      BY <1>w, <1>3, <1>6, <3>3, <1>4 DEF Writes, PowerSet
    <3>4. CASE p = 4
      BY <1>w, <1>3, <1>6, <3>4, <1>4 DEF Writes, PowerSet
    <3>5. CASE p = 5
      BY <1>w, <1>3, <1>6, <3>5, <1>4 DEF Writes, PowerSet
    <3>6. QED
      BY <2>1, <3>1, <3>2, <3>3, <3>4, <3>5
  <2>5. QED
    BY <1>4, <1>5, <2>2, <2>3, <2>4
<1>9. QED
  BY <1>1, <1>2, <1>7, <1>8

-----------------------------------------------------------------------------
(* What is noted in the handle.                                            *)

\* The channels apart from the accelerometer's are few, so no length wraps.
LEMMA FewChannels ==
  ASSUME NEW S \in SUBSET Channel
  PROVE  /\ IsFiniteSet(S \ AccelAxis)
         /\ Cardinality(S \ AccelAxis) \in 0..(Cardinality(GyroAxis) + 1)
         /\ Cardinality(GyroAxis) \in 0..3
<1>1. IsFiniteSet(GyroAxis) /\ Cardinality(GyroAxis) \in 0..3 /\ "TEMP" \notin GyroAxis
  BY Mpu6050DriverAssumption
<1>2. /\ IsFiniteSet(GyroAxis \union {"TEMP"})
      /\ Cardinality(GyroAxis \union {"TEMP"}) = Cardinality(GyroAxis) + 1
  BY <1>1, FS_AddElement
<1>3. S \ AccelAxis \subseteq GyroAxis \union {"TEMP"}
  BY DEF Channel, Axis
<1>4. /\ IsFiniteSet(S \ AccelAxis)
      /\ Cardinality(S \ AccelAxis) <= Cardinality(GyroAxis \union {"TEMP"})
  BY <1>2, <1>3, FS_Subset
<1>5. Cardinality(S \ AccelAxis) \in Nat
  BY <1>4, FS_CardinalityType
<1>6. QED
  BY <1>1, <1>2, <1>4, <1>5

LEMMA ByteHolds == ASSUME NEW n \in 0..255 PROVE n % 256 = n
OBVIOUS

\* The channel that is switched is counted once: alone, or with the first or
\* last axis of the accelerometer.
LEMMA PayloadNoted ==
  ASSUME handle \in Handles, Follows(handle), handle.meas_mode = "BURST",
         NEW ch \in Channel, NEW on \in BOOLEAN, (ch \in handle.active_sources) = ~on
  PROVE  /\ Follows(SourceNoted(ch, on))
         /\ SourceNoted(ch, on).payload_bytes \in 0..(8 + 2 * Cardinality(GyroAxis))
<1> DEFINE S == handle.active_sources
           T == IF on THEN S \union {ch} ELSE S \ {ch}
           b == handle.payload_bytes
           c == IF ContentChanges(ch) THEN PayloadBytes(ch, on) ELSE b
           Bytes(X) == 2 * Cardinality(X \ AccelAxis) + (IF X \cap AccelAxis # {} THEN 6 ELSE 0)
<1>1. S \in SUBSET Channel /\ T \in SUBSET Channel /\ b = Bytes(S)
  BY DEF Handles, Follows
<1>2. /\ SourceNoted(ch, on).meas_mode = "BURST" /\ SourceNoted(ch, on).active_sources = T
      /\ SourceNoted(ch, on).payload_bytes = c
  BY DEF SourceNoted, Handles
<1>3. ContentChanges(ch) = ~(ch \in AccelAxis /\ (S \ {ch}) \cap AccelAxis # {})
  BY DEF ContentChanges, OthersOn
<1>4. (ch \in S) = ~on
  OBVIOUS
<1>5. /\ IsFiniteSet(S \ AccelAxis) /\ IsFiniteSet(T \ AccelAxis)
      /\ Cardinality(S \ AccelAxis) \in 0..(Cardinality(GyroAxis) + 1)
      /\ Cardinality(T \ AccelAxis) \in 0..(Cardinality(GyroAxis) + 1)
      /\ Cardinality(GyroAxis) \in 0..3
  BY <1>1, FewChannels
<1>6. Bytes(S) \in 0..14 /\ Bytes(T) \in 0..(8 + 2 * Cardinality(GyroAxis)) /\ Bytes(T) \in 0..14
  BY <1>5
<1>7. c = Bytes(T)
  <2>1. ASSUME ContentChanges(ch), Bytes(T) = Bytes(S) + (IF on THEN Share(ch) ELSE 0 - Share(ch))
        PROVE  c = Bytes(T)
    <3>1. c = (Bytes(S) + (IF on THEN Share(ch) ELSE 0 - Share(ch))) % 256
      BY <1>1, <2>1 DEF PayloadBytes
    <3>2. c = Bytes(T) % 256
      BY <2>1, <3>1
    <3> HIDE DEF c, Bytes
    <3>3. QED
      BY <1>6, <3>2, ByteHolds
  <2>2. CASE ch \in AccelAxis
    <3>1. T \ AccelAxis = S \ AccelAxis
      BY <2>2
    <3>2. Share(ch) = 6
      BY <2>2 DEF Share
    <3>3. CASE (S \ {ch}) \cap AccelAxis = {}
      <4>1. (S \cap AccelAxis # {}) = ~on /\ (T \cap AccelAxis # {}) = on
        BY <1>4, <2>2, <3>3
      <4>2. Bytes(T) = Bytes(S) + (IF on THEN 6 ELSE 0 - 6)
        <5> DEFINE n == Cardinality(S \ AccelAxis)
        <5>1. Bytes(T) = 2 * n + (IF on THEN 6 ELSE 0) /\ Bytes(S) = 2 * n + (IF on THEN 0 ELSE 6)
          BY <3>1, <4>1
        <5>2. n \in Int
          BY <1>5
        <5> HIDE DEF Bytes, n
        <5>3. QED
          BY <5>1, <5>2
      <4>3. QED
        BY <1>3, <2>1, <3>2, <3>3, <4>2
    <3>4. CASE (S \ {ch}) \cap AccelAxis # {}
      <4>1. S \cap AccelAxis # {} /\ T \cap AccelAxis # {}
        BY <3>4
      <4>2. QED
        BY <1>1, <1>3, <2>2, <3>1, <3>4, <4>1
    <3>5. QED
      BY <3>3, <3>4
  <2>3. CASE ch \notin AccelAxis
    <3>1. T \cap AccelAxis = S \cap AccelAxis
      BY <2>3
    <3>2. Share(ch) = 2 /\ ContentChanges(ch)
      BY <1>3, <2>3 DEF Share
    <3>3. Cardinality(T \ AccelAxis) = Cardinality(S \ AccelAxis) + (IF on THEN 1 ELSE 0 - 1)
      <4>1. CASE on
        <5>1. T \ AccelAxis = (S \ AccelAxis) \union {ch} /\ ch \notin S \ AccelAxis
          BY <1>4, <2>3, <4>1
        <5>2. QED
          BY <1>5, <4>1, <5>1, FS_AddElement
      <4>2. CASE ~on
        <5>1. T \ AccelAxis = (S \ AccelAxis) \ {ch} /\ ch \in S \ AccelAxis
          BY <1>4, <2>3, <4>2
        <5>2. Cardinality(T \ AccelAxis) = Cardinality(S \ AccelAxis) - 1
          BY <1>5, <5>1, FS_RemoveElement
        <5>3. QED
          BY <1>5, <4>2, <5>2
      <4>3. QED
        BY <4>1, <4>2
    <3>4. Bytes(T) = Bytes(S) + (IF on THEN 2 ELSE 0 - 2)
      <4> DEFINE n == Cardinality(S \ AccelAxis)
                 k == IF S \cap AccelAxis # {} THEN 6 ELSE 0
      <4>1. Bytes(S) = 2 * n + k /\ Bytes(T) = 2 * (n + (IF on THEN 1 ELSE 0 - 1)) + k
        BY <3>1, <3>3
      <4>2. n \in Int /\ k \in Int
        BY <1>5
      <4> HIDE DEF Bytes, n, k
      <4>3. QED
        BY <4>1, <4>2
    <3>5. QED
      BY <2>1, <3>2, <3>4
  <2>4. QED
    BY <2>2, <2>3
<1> HIDE DEF c
<1>8. QED
  BY <1>2, <1>6, <1>7 DEF Follows

LEMMA AllChannels ==
  /\ Channel \cap AccelAxis # {}
  /\ 2 * Cardinality(Channel \ AccelAxis) + 6 = 8 + 2 * Cardinality(GyroAxis)
  /\ Cardinality(GyroAxis) \in 0..3
<1>1. AccelAxis # {}
  BY Mpu6050DriverAssumption, FS_EmptySet
<1>2. /\ IsFiniteSet(GyroAxis) /\ Cardinality(GyroAxis) \in 0..3 /\ "TEMP" \notin GyroAxis
      /\ AccelAxis \cap GyroAxis = {} /\ "TEMP" \notin AccelAxis
  BY Mpu6050DriverAssumption
<1>3. Channel \ AccelAxis = GyroAxis \union {"TEMP"}
  BY <1>2 DEF Channel, Axis
<1>4. Cardinality(GyroAxis \union {"TEMP"}) = Cardinality(GyroAxis) + 1
  BY <1>2, FS_AddElement
<1>5. Channel \cap AccelAxis # {}
  BY <1>1 DEF Channel, Axis
<1>6. QED
  BY <1>2, <1>3, <1>4, <1>5

LEMMA ModeNotedIs ==
  ASSUME handle \in Handles, NEW m \in Mode
  PROVE  /\ ModeNoted(m) \in Handles /\ ModeNoted(m).meas_mode = m
         /\ ModeNoted(m).active_sources = IF m = "LOWPOWER" THEN AccelAxis ELSE Channel
         /\ m # "LOWPOWER" => ModeNoted(m).payload_bytes = 8 + 2 * Cardinality(GyroAxis)
         /\ ModeNoted(m).gyro_scale = handle.gyro_scale
         /\ ModeNoted(m).accel_scale = handle.accel_scale
<1>1. Cardinality(GyroAxis) \in 0..3
  BY AllChannels
<1>2. 6 \in 0..(8 + 2 * Cardinality(GyroAxis))
      /\ 8 + 2 * Cardinality(GyroAxis) \in 0..(8 + 2 * Cardinality(GyroAxis))
  BY <1>1
<1>3. AccelAxis \subseteq Channel /\ Channel \subseteq Channel
  BY DEF Channel, Axis
<1>4. CASE m = "LOWPOWER"
  BY <1>2, <1>3, <1>4 DEF ModeNoted, Handles, Mode
<1>5. CASE m # "LOWPOWER"
  BY <1>2, <1>3, <1>5 DEF ModeNoted, AllActive, Handles, Mode
<1>6. QED
  BY <1>4, <1>5

LEMMA InitNotedIs ==
  ASSUME handle \in Handles
  PROVE  /\ InitNoted \in Handles /\ InitNoted.meas_mode = "SINGLE"
         /\ InitNoted.active_sources = Channel
         /\ InitNoted.gyro_scale = Narrow /\ InitNoted.accel_scale = Narrow
<1>1. Cardinality(GyroAxis) \in 0..3 /\ Narrow \in FullScale
  BY AllChannels, Mpu6050DriverAssumption
<1>2. 8 + 2 * Cardinality(GyroAxis) \in 0..(8 + 2 * Cardinality(GyroAxis))
  BY <1>1
<1>3. QED
  BY <1>1, <1>2 DEF InitNoted, AllActive, Handles, Mode

LEMMA ScaleNotedIs ==
  ASSUME handle \in Handles, NEW reg \in {"GYRO_CONFIG", "ACCEL_CONFIG"}, NEW range \in FullScale
  PROVE  LET h == ScaleNoted(reg, range) IN
         /\ h \in Handles /\ h.meas_mode = handle.meas_mode
         /\ h.active_sources = handle.active_sources /\ h.payload_bytes = handle.payload_bytes
         /\ h.gyro_scale = IF reg = "GYRO_CONFIG" THEN range ELSE handle.gyro_scale
         /\ h.accel_scale = IF reg = "GYRO_CONFIG" THEN handle.accel_scale ELSE range
BY DEF ScaleNoted, Handles

LEMMA SourceNotedIs ==
  ASSUME handle \in Handles, NEW ch \in Channel, NEW on \in BOOLEAN
  PROVE  LET h == SourceNoted(ch, on) IN
         /\ h.meas_mode = handle.meas_mode
         /\ h.active_sources = IF on THEN handle.active_sources \union {ch}
                                     ELSE handle.active_sources \ {ch}
         /\ h.gyro_scale = handle.gyro_scale /\ h.accel_scale = handle.accel_scale
         /\ h.payload_bytes \in 0..(8 + 2 * Cardinality(GyroAxis)) => h \in Handles
         /\ ~ContentChanges(ch) => h.payload_bytes = handle.payload_bytes
<1> DEFINE S == IF on THEN handle.active_sources \union {ch} ELSE handle.active_sources \ {ch}
           b == IF ContentChanges(ch) THEN PayloadBytes(ch, on) ELSE handle.payload_bytes
<1>1. SourceNoted(ch, on) = [handle EXCEPT !.active_sources = S, !.payload_bytes = b]
  BY DEF SourceNoted, Handles
<1>2. S \subseteq Channel
  BY DEF Handles
<1>3. ~ContentChanges(ch) => b = handle.payload_bytes
  OBVIOUS
<1> HIDE DEF S, b
<1>4. QED
  BY <1>1, <1>2, <1>3 DEF Handles, S

\* What is noted, function by function.
LEMMA NotedIs ==
  /\ call.fn = "set_source" => Noted = IF at = 1 THEN SourceNoted(call.ch, call.on) ELSE handle
  /\ call.fn = "set_range" => Noted = IF at = 1 THEN ScaleNoted(call.reg, call.range) ELSE handle
  /\ call.fn = "set_mode" => Noted = IF IsLast THEN ModeNoted(call.mode) ELSE handle
  /\ call.fn = "init" => Noted = IF IsLast THEN InitNoted ELSE handle
  /\ call.fn \notin {"set_source", "set_range", "set_mode", "init"} => Noted = handle
BY DEF Noted

LEMMA NotedFits ==
  ASSUME Typed, InProgram, Follows(handle), at > 0
  PROVE  Noted \in Handles /\ Follows(Noted)
<1>1. /\ handle \in Handles /\ call \in Calls /\ at \in 1..Length
      /\ Follows(handle)
  BY DEF Typed, TypeOK, InProgram
<1>2. CASE call.fn = "set_source" /\ at = 1
  <2> DEFINE h == SourceNoted(call.ch, call.on)
  <2>1. /\ call.ch \in Channel /\ call.on \in BOOLEAN /\ Noted = h
        /\ (call.ch \in handle.active_sources) = ~call.on
    BY <1>1, <1>2, CallTypes, NotedIs DEF InProgram
  <2>2. CASE handle.meas_mode = "BURST"
    BY <1>1, <2>1, <2>2, PayloadNoted, SourceNotedIs
  <2>3. CASE handle.meas_mode # "BURST"
    <3>1. ~ContentChanges(call.ch)
      BY <2>3 DEF ContentChanges
    <3>2. h.payload_bytes = handle.payload_bytes /\ h.meas_mode # "BURST"
      BY <1>1, <2>1, <2>3, <3>1, SourceNotedIs
    <3>3. h.payload_bytes \in 0..(8 + 2 * Cardinality(GyroAxis))
      BY <1>1, <3>2 DEF Handles
    <3>4. QED
      BY <1>1, <2>1, <3>2, <3>3, SourceNotedIs DEF Follows
  <2>4. QED
    BY <2>2, <2>3
<1>3. CASE call.fn = "set_range" /\ at = 1
  <2> DEFINE h == ScaleNoted(call.reg, call.range)
  <2>1. /\ h \in Handles /\ h.meas_mode = handle.meas_mode
        /\ h.active_sources = handle.active_sources /\ h.payload_bytes = handle.payload_bytes
    BY <1>1, <1>3, CallTypes, ScaleNotedIs
  <2>2. Noted = h
    BY <1>3, NotedIs
  <2> HIDE DEF h
  <2>3. QED
    BY <1>1, <2>1, <2>2 DEF Follows
<1>4. CASE call.fn = "set_mode" /\ IsLast
  <2> DEFINE h == ModeNoted(call.mode)
  <2>1. call.mode \in Mode /\ Noted = h
    BY <1>1, <1>4, CallTypes, NotedIs
  <2>2. h \in Handles
    BY <1>1, <2>1, ModeNotedIs
  <2>3. Follows(h)
    <3>1. SUFFICES ASSUME h.meas_mode = "BURST"
                   PROVE  h.payload_bytes = 2 * Cardinality(h.active_sources \ AccelAxis)
                            + (IF h.active_sources \cap AccelAxis # {} THEN 6 ELSE 0)
      BY DEF Follows
    <3>2. h.active_sources = Channel /\ h.payload_bytes = 8 + 2 * Cardinality(GyroAxis)
      BY <1>1, <2>1, <3>1, ModeNotedIs
    <3> HIDE DEF h
    <3>3. QED
      BY <3>2, AllChannels
  <2>4. QED
    BY <2>1, <2>2, <2>3
<1>5. CASE call.fn = "init" /\ IsLast
  BY <1>1, <1>5, NotedIs, InitNotedIs DEF Follows
<1>6. CASE Noted = handle
  BY <1>1, <1>6
<1>7. QED
  BY <1>2, <1>3, <1>4, <1>5, <1>6, NotedIs

-----------------------------------------------------------------------------
(* What an access leaves of the agreement between the handle and the sensor.  *)

LEMMA Registers ==
  Register = {"INT_ENABLE", "USER_CTRL", "FIFO_EN", "PWR_MGMT_1", "PWR_MGMT_2", "GYRO_CONFIG",
              "ACCEL_CONFIG"}
BY DEF Register

\* The other registers keep what they held.
LEMMA Others ==
  ASSUME NEW reg, NEW v, Writes(reg, v)
  PROVE  \A r \in Register : r # reg => Written[r] = chip[r]
BY DEF Writes

LEMMA ResetNext ==
  ASSUME IInv, damage = 0, inited, call.fn = "fifo_reset", at > 0
  PROVE  /\ at = 1 => DuringReset(Written, handle, manual)
         /\ at = 2 => Agrees(Written, handle, manual)
<1>1. Typed /\ at \in 1..Length
  BY DEF IInv, Typed, TypeOK, InProgram
<1>2. at = 1 => Agrees(chip, handle, manual)
  BY DEF IInv, Underway
<1>3. at = 2 => DuringReset(chip, handle, manual)
  BY DEF IInv, Underway
<1>4. \A r \in Register : at \in {1, 2} /\ r # "USER_CTRL" => Written[r] = chip[r]
  BY <1>1, FifoResetWrites, Others
<1>5. at = 2 => "FIFO_ENABLE" \in Written["USER_CTRL"]
  BY <1>1, FifoResetWrites DEF Writes
<1>6. QED
  BY <1>2, <1>3, <1>4, <1>5, Registers
     DEF Agrees, DuringReset, SourcesIn, ModeIn, ScalesIn, FifoIn, ContentIn

LEMMA SleepNext ==
  ASSUME IInv, damage = 0, inited, call.fn = "set_sleep", at > 0
  PROVE  Agrees(Written, handle, manual)
<1>1. Typed /\ at \in 1..Length /\ at = 1
  BY DEF IInv, Typed, TypeOK, InProgram, Length
<1>2. Agrees(chip, handle, manual)
  BY <1>1 DEF IInv, Underway
<1>3. \A r \in Register : r # "PWR_MGMT_1" => Written[r] = chip[r]
  BY <1>1, SleepWrites, Others
<1>4. Written["PWR_MGMT_1"] \ {"SLEEP"} = chip["PWR_MGMT_1"] \ {"SLEEP"}
  BY <1>1, SleepWrites DEF Writes
<1>5. /\ ("TEMP_DIS" \in Written["PWR_MGMT_1"]) = ("TEMP_DIS" \in chip["PWR_MGMT_1"])
      /\ ("CYCLE" \in Written["PWR_MGMT_1"]) = ("CYCLE" \in chip["PWR_MGMT_1"])
  BY <1>4
<1>6. QED
  BY <1>2, <1>3, <1>5, Registers DEF Agrees, SourcesIn, ModeIn, ScalesIn, FifoIn, ContentIn

LEMMA ContentNext ==
  ASSUME IInv, damage = 0, inited, call.fn = "set_fifo_content", at > 0
  PROVE  Agrees(Written, handle, manual)
<1>1. Typed /\ at \in 1..Length /\ at = 1 /\ manual
  BY DEF IInv, Typed, TypeOK, InProgram, Length
<1>2. Agrees(chip, handle, manual)
  <2>1. at <= 1
    BY <1>1
  <2>2. QED
    BY <2>1 DEF IInv, Underway
<1>3. \A r \in Register : r # "FIFO_EN" => Written[r] = chip[r]
  BY <1>1, ContentWrites, Others
<1>4. QED
  BY <1>1, <1>2, <1>3, Registers DEF Agrees, SourcesIn, ModeIn, ScalesIn, FifoIn, ContentIn

LEMMA RangeNext ==
  ASSUME IInv, damage = 0, inited, call.fn = "set_range", at > 0
  PROVE  Agrees(Written, Noted, manual)
<1>1. Typed /\ at \in 1..Length /\ at \in {1, 2} /\ call \in Calls /\ handle \in Handles
  BY DEF IInv, Typed, TypeOK, InProgram, Length
<1>2. Agrees(chip, handle, manual)
  BY <1>1 DEF IInv, Underway
<1>3. call.reg \in {"GYRO_CONFIG", "ACCEL_CONFIG"} /\ call.range \in FullScale
  BY <1>1, CallTypes
<1>4. CASE at = 2
  <2>1. \A r \in Register : Written[r] = chip[r]
    BY <1>1, <1>4, RangeWrites DEF Writes
  <2>2. Noted = handle
    BY <1>4, NotedIs
  <2>3. QED
    BY <1>2, <2>1, <2>2, Registers DEF Agrees, SourcesIn, ModeIn, ScalesIn, FifoIn, ContentIn
<1>5. CASE at = 1
  <2> DEFINE h == ScaleNoted(call.reg, call.range)
  <2>1. /\ h.meas_mode = handle.meas_mode /\ h.active_sources = handle.active_sources
        /\ h.gyro_scale = IF call.reg = "GYRO_CONFIG" THEN call.range ELSE handle.gyro_scale
        /\ h.accel_scale = IF call.reg = "GYRO_CONFIG" THEN handle.accel_scale ELSE call.range
    BY <1>1, <1>3, ScaleNotedIs
  <2>2. Noted = h
    BY <1>5, NotedIs
  <2> HIDE DEF h
  <2>3. \A r \in Register : r # call.reg => Written[r] = chip[r]
    BY <1>1, <1>5, RangeWrites, Others
  <2>4. handle.gyro_scale \in FullScale /\ handle.accel_scale \in FullScale
    BY <1>1 DEF Handles
  <2>5. chip[call.reg] \subseteq FullScale
    BY <1>2, <1>3, <2>4 DEF Agrees, ScalesIn
  <2>6. Written[call.reg] = {call.range}
    <3>1. Written[call.reg] = (chip[call.reg] \ FullScale) \union {call.range}
      BY <1>1, <1>5, RangeWrites DEF Writes
    <3>2. QED
      BY <2>5, <3>1
  <2>7. ScalesIn(Written, h)
    BY <1>2, <1>3, <2>1, <2>3, <2>6, Registers DEF Agrees, ScalesIn
  <2>8. \A r \in Register \ {"GYRO_CONFIG", "ACCEL_CONFIG"} : Written[r] = chip[r]
    BY <1>3, <2>3
  <2>9. SourcesIn(Written, h) /\ ModeIn(Written, h) /\ FifoIn(Written, h) /\ ContentIn(Written, h, manual)
    BY <1>2, <2>1, <2>8, Registers DEF Agrees, SourcesIn, ModeIn, FifoIn, ContentIn, ContentNoted
  <2>10. QED
    BY <2>2, <2>7, <2>9 DEF Agrees
<1>6. QED
  BY <1>1, <1>4, <1>5

\* A mode change that comes to its end has written all the mode means.
LEMMA ModeDone ==
  ASSUME handle \in Handles, NEW m \in Mode, NEW c, IsImage(c), NEW k, k \in Int, k > 3,
         FifoSet(c, m, k), PowerSet(c, m, 6), NEW h, h = ModeNoted(m)
  PROVE  SourcesIn(c, h) /\ ModeIn(c, h) /\ FifoIn(c, h) /\ ContentIn(c, h, FALSE)
<1>1. h.meas_mode = m /\ h.active_sources = IF m = "LOWPOWER" THEN AccelAxis ELSE Channel
  BY ModeNotedIs
<1>2. /\ c["PWR_MGMT_2"] \subseteq Axis
      /\ c["PWR_MGMT_2"] \cap GyroAxis = IF m = "LOWPOWER" THEN GyroAxis ELSE {}
      /\ c["PWR_MGMT_2"] \cap AccelAxis = {}
  BY BitsAre, Registers DEF IsImage, PowerSet
<1>3. /\ "TEMP" \notin AccelAxis /\ "TEMP" \notin GyroAxis /\ AccelAxis \cap GyroAxis = {}
      /\ AccelAxis # {}
  BY Mpu6050DriverAssumption, FS_EmptySet
<1>4. SourcesIn(c, h)
  <2>1. CASE m = "LOWPOWER"
    <3>1. h.active_sources = AccelAxis
      BY <1>1, <2>1
    <3>2. c["PWR_MGMT_2"] = GyroAxis
      BY <1>2, <2>1 DEF Axis
    <3>3. "TEMP_DIS" \in c["PWR_MGMT_1"]
      BY <2>1 DEF PowerSet
    <3>4. Axis \ AccelAxis = GyroAxis
      BY <1>3 DEF Axis
    <3>5. QED
      BY <1>3, <3>1, <3>2, <3>3, <3>4 DEF SourcesIn
  <2>2. CASE m # "LOWPOWER"
    <3>1. h.active_sources = Channel
      BY <1>1, <2>2
    <3>2. c["PWR_MGMT_2"] = {}
      BY <1>2, <2>2 DEF Axis
    <3>3. "TEMP_DIS" \notin c["PWR_MGMT_1"]
      BY <2>2 DEF PowerSet
    <3>4. Axis \ Channel = {} /\ "TEMP" \in Channel
      BY DEF Channel
    <3>5. QED
      BY <3>1, <3>2, <3>3, <3>4 DEF SourcesIn
  <2>3. QED
    BY <2>1, <2>2
<1>5. ModeIn(c, h)
  <2>1. ("CYCLE" \in c["PWR_MGMT_1"]) = (m = "LOWPOWER")
    BY DEF PowerSet
  <2>2. QED
    BY <1>1, <2>1 DEF ModeIn, FifoSet
<1>6. FifoIn(c, h)
  BY <1>1 DEF FifoIn, FifoSet
<1>7. ContentIn(c, h, FALSE)
  <2>1. {ContentOf(ch) : ch \in Channel} = Content
    BY <1>3 DEF Channel, Axis, Content, ContentOf
  <2>2. m = "BURST" => h.active_sources = Channel
    BY <1>1
  <2>3. QED
    BY <1>1, <2>1, <2>2 DEF ContentIn, ContentNoted, FifoSet
<1>8. QED
  BY <1>4, <1>5, <1>6, <1>7

LEMMA ModeNext ==
  ASSUME IInv, call.fn = "set_mode", at > 0
  PROVE  /\ damage = 0 /\ inited => ScalesIn(Written, handle)
         /\ IsLast => /\ SourcesIn(Written, Noted) /\ ModeIn(Written, Noted)
                      /\ FifoIn(Written, Noted) /\ ContentIn(Written, Noted, FALSE)
                      /\ damage = 0 /\ inited => ScalesIn(Written, Noted)
<1> DEFINE m == call.mode
<1>1. /\ Typed /\ InProgram /\ ModeSoFar /\ handle \in Handles /\ call \in Calls
      /\ at \in 1..Length
  BY DEF IInv, Typed, TypeOK, InProgram
<1>2. m \in Mode
  BY <1>1, CallTypes
<1>3. /\ FifoSet(Written, m, at + 1) /\ PowerSet(Written, m, at + 1 - PowerFrom(m))
      /\ Written["GYRO_CONFIG"] = chip["GYRO_CONFIG"]
      /\ Written["ACCEL_CONFIG"] = chip["ACCEL_CONFIG"]
  BY <1>1, ModeProgress
<1>4. damage = 0 /\ inited => ScalesIn(chip, handle)
  <2>1. at <= 1 \/ at > 1
    BY <1>1
  <2>2. QED
    BY <2>1 DEF IInv, Underway, Agrees
<1>5. damage = 0 /\ inited => ScalesIn(Written, handle)
  BY <1>3, <1>4 DEF ScalesIn
<1>6. ASSUME IsLast
      PROVE  /\ SourcesIn(Written, Noted) /\ ModeIn(Written, Noted)
             /\ FifoIn(Written, Noted) /\ ContentIn(Written, Noted, FALSE)
             /\ damage = 0 /\ inited => ScalesIn(Written, Noted)
  <2>1. Noted = ModeNoted(m)
    BY <1>6, NotedIs
  <2>2. at = IF m = "BURST" THEN 8 ELSE 10
    BY <1>1, <1>6, Lengths DEF IsLast, Length
  <2>3. at + 1 - PowerFrom(m) = 6 /\ at + 1 \in Int /\ at + 1 > 3
    BY <2>2 DEF PowerFrom
  <2>4. IsImage(Written)
    BY <1>1, WrittenImage
  <2> HIDE DEF m
  <2>5. PowerSet(Written, m, 6)
    BY <1>3, <2>3
  <2>6. /\ SourcesIn(Written, Noted) /\ ModeIn(Written, Noted)
        /\ FifoIn(Written, Noted) /\ ContentIn(Written, Noted, FALSE)
    BY <1>1, <1>2, <1>3, <2>1, <2>3, <2>4, <2>5, ModeDone
  <2>7. Noted.gyro_scale = handle.gyro_scale /\ Noted.accel_scale = handle.accel_scale
    BY <1>1, <1>2, <2>1, ModeNotedIs
  <2>8. QED
    BY <1>5, <2>6, <2>7 DEF ScalesIn
<1>7. QED
  BY <1>5, <1>6

LEMMA TestNext ==
  ASSUME IInv, damage = 0, inited, call.fn = "self_test", at > 0
  PROVE  /\ DuringTest(Written, at + 1) /\ Agrees(saved, handle, manual)
         /\ IsLast => Agrees(Written, handle, manual)
<1>1. Typed /\ at \in 1..12 /\ call \in Calls /\ at \in 1..Length
  BY DEF IInv, Typed, TypeOK, InProgram, Length
<1>2. Agrees(saved, handle, manual) /\ DuringTest(chip, at)
  <2>1. at >= 0
    BY <1>1
  <2>2. QED
    BY <2>1 DEF IInv, Underway
<1>3. \A r \in {"INT_ENABLE", "USER_CTRL", "FIFO_EN"} : Written[r] = chip[r]
  <2>1. \A r \in {"INT_ENABLE", "USER_CTRL", "FIFO_EN"} :
           r \in Register /\ r \notin {"GYRO_CONFIG", "ACCEL_CONFIG", "PWR_MGMT_1", "PWR_MGMT_2"}
    BY Registers
  <2>2. CASE at \in {1, 11}
    BY <1>1, <2>1, <2>2, TestWrites, Others
  <2>3. CASE at \in {2, 12}
    BY <1>1, <2>1, <2>3, TestWrites, Others
  <2>4. CASE at \in {3, 5, 7, 9}
    <3>1. PICK v : Writes("GYRO_CONFIG", v)
      BY <1>1, <2>4, TestWrites
    <3>2. QED
      BY <2>1, <3>1, Others
  <2>5. CASE at \in {4, 6, 8, 10}
    <3>1. PICK v : Writes("ACCEL_CONFIG", v)
      BY <1>1, <2>5, TestWrites
    <3>2. QED
      BY <2>1, <3>1, Others
  <2>6. QED
    BY <1>1, <2>2, <2>3, <2>4, <2>5
<1>4. \A r \in Register :
         /\ at = 9 => IF r = "GYRO_CONFIG" THEN Written[r] = saved[r] ELSE Written[r] = chip[r]
         /\ at = 10 => IF r = "ACCEL_CONFIG" THEN Written[r] = saved[r] ELSE Written[r] = chip[r]
         /\ at = 11 => IF r = "PWR_MGMT_1" THEN Written[r] = saved[r] ELSE Written[r] = chip[r]
         /\ at = 12 => IF r = "PWR_MGMT_2" THEN Written[r] = saved[r] ELSE Written[r] = chip[r]
  BY <1>1, TestWrites DEF Writes
<1>5. DuringTest(Written, at + 1)
  <2>1. /\ at = 9 => Written["GYRO_CONFIG"] = saved["GYRO_CONFIG"]
        /\ at \in 10..12 => Written["GYRO_CONFIG"] = chip["GYRO_CONFIG"]
        /\ at = 10 => Written["ACCEL_CONFIG"] = saved["ACCEL_CONFIG"]
        /\ at \in 11..12 => Written["ACCEL_CONFIG"] = chip["ACCEL_CONFIG"]
        /\ at = 11 => Written["PWR_MGMT_1"] = saved["PWR_MGMT_1"]
        /\ at = 12 => Written["PWR_MGMT_1"] = chip["PWR_MGMT_1"]
    BY <1>1, <1>4, Registers
  <2>2. QED
    BY <1>1, <1>2, <1>3, <2>1 DEF DuringTest
<1>6. ASSUME IsLast PROVE Agrees(Written, handle, manual)
  <2>1. at = 12
    BY <1>1, <1>6, Lengths DEF IsLast, Length
  <2>2. Written["PWR_MGMT_2"] = saved["PWR_MGMT_2"]
    BY <1>4, <2>1, Registers
  <2>3. \A r \in Register : Written[r] = saved[r]
    BY <1>5, <2>1, <2>2, Registers DEF DuringTest
  <2>4. QED
    BY <1>2, <2>3, Registers DEF Agrees, SourcesIn, ModeIn, ScalesIn, FifoIn, ContentIn
<1>7. QED
  BY <1>2, <1>5, <1>6

LEMMA InitNext ==
  ASSUME IInv, call.fn = "init", at > 0
  PROVE  Cleared(Written) /\ (IsLast => Agrees(Written, Noted, FALSE))
<1>1. Typed /\ at \in 1..4 /\ call \in Calls /\ at \in 1..Length /\ handle \in Handles
  BY DEF IInv, Typed, TypeOK, InProgram, Length
<1>2. at > 1 => Cleared(chip)
  BY DEF IInv, InitSoFar
<1>3. Cleared(Written) /\ (at = 4 => Written["INT_ENABLE"] = {"DATA_READY"} /\ Written["PWR_MGMT_1"] = chip["PWR_MGMT_1"])
  <2>1. CASE at = 1
    BY <1>1, <2>1, InitWrites, ResetIsImage
  <2>2. CASE at = 2
    BY <1>1, <1>2, <2>2, InitWrites, Registers DEF Writes, Cleared
  <2>3. CASE at = 3
    BY <1>1, <1>2, <2>3, InitWrites, Registers DEF Writes, Cleared
  <2>4. CASE at = 4
    BY <1>1, <1>2, <2>4, InitWrites, Registers DEF Writes, Cleared
  <2>5. QED
    BY <1>1, <2>1, <2>2, <2>3, <2>4
<1>4. ASSUME IsLast PROVE Agrees(Written, Noted, FALSE)
  <2>1. at = 4
    BY <1>1, <1>4, Lengths DEF IsLast, Length
  <2>2. /\ Noted.meas_mode = "SINGLE" /\ Noted.active_sources = Channel
        /\ Noted.gyro_scale = Narrow /\ Noted.accel_scale = Narrow
    BY <1>1, <1>4, NotedIs, InitNotedIs
  <2>3. Axis \ Channel = {} /\ "TEMP" \in Channel
    BY DEF Channel
  <2>4. "TEMP_DIS" \notin Written["PWR_MGMT_1"] /\ "CYCLE" \notin Written["PWR_MGMT_1"]
    BY <1>3 DEF Cleared
  <2>5. QED
    BY <1>3, <2>1, <2>2, <2>3, <2>4
       DEF Cleared, Agrees, SourcesIn, ModeIn, ScalesIn, FifoIn, ContentIn, ContentNoted
<1>5. QED
  BY <1>3, <1>4

\* The content of the FIFO, when a channel comes or goes.
LEMMA ContentFollows ==
  ASSUME NEW S \in SUBSET Channel, NEW ch \in Channel, NEW on \in BOOLEAN, (ch \in S) = ~on,
         NEW T, T = IF on THEN S \union {ch} ELSE S \ {ch}
  PROVE  LET Img(X) == {ContentOf(x) : x \in X} IN
         Img(T) = IF ch \in AccelAxis /\ (S \ {ch}) \cap AccelAxis # {} THEN Img(S)
                  ELSE IF on THEN Img(S) \union {ContentOf(ch)} ELSE Img(S) \ {ContentOf(ch)}
<1> DEFINE Img(X) == {ContentOf(x) : x \in X}
<1>1. \A x \in Channel : /\ x \in AccelAxis => ContentOf(x) = "ACCEL"
                         /\ x \notin AccelAxis => ContentOf(x) = x /\ x # "ACCEL"
  BY Mpu6050DriverAssumption DEF ContentOf, Channel, Axis
<1>2. CASE on
  <2>1. T = S \union {ch}
    BY <1>2
  <2>2. Img(T) = Img(S) \union {ContentOf(ch)}
    BY <2>1
  <2>3. ASSUME ch \in AccelAxis /\ (S \ {ch}) \cap AccelAxis # {} PROVE Img(T) = Img(S)
    <3>1. PICK x \in S : x \in AccelAxis
      BY <2>3
    <3>2. ContentOf(x) = ContentOf(ch)
      BY <1>1, <2>3, <3>1
    <3>3. ContentOf(ch) \in Img(S)
      BY <3>1, <3>2
    <3>4. QED
      BY <2>2, <3>3
  <2>4. QED
    BY <1>2, <2>2, <2>3
<1>3. CASE ~on
  <2>1. T = S \ {ch} /\ ch \in S
    BY <1>3
  <2>2. ASSUME ch \in AccelAxis /\ (S \ {ch}) \cap AccelAxis # {} PROVE Img(T) = Img(S)
    <3>1. PICK x \in S : x # ch /\ x \in AccelAxis
      BY <2>2
    <3>2. ContentOf(x) = ContentOf(ch) /\ x \in T
      BY <1>1, <2>1, <2>2, <3>1
    <3>3. QED
      BY <2>1, <3>2
  <2>3. ASSUME ~(ch \in AccelAxis /\ (S \ {ch}) \cap AccelAxis # {})
        PROVE  Img(T) = Img(S) \ {ContentOf(ch)}
    <3>1. \A x \in T : ContentOf(x) # ContentOf(ch)
      BY <1>1, <2>1, <2>3
    <3>2. QED
      BY <2>1, <3>1
  <2>4. QED
    BY <1>3, <2>2, <2>3
<1>4. QED
  BY <1>2, <1>3

LEMMA SourceNext ==
  ASSUME IInv, damage = 0, inited, call.fn = "set_source", at > 0
  PROVE  /\ ~IsLast => DuringSource(Written, Noted, manual)
         /\ IsLast => Agrees(Written, Noted, manual)
<1> DEFINE ch == call.ch
           on == call.on
           S == handle.active_sources
           T == IF on THEN S \union {ch} ELSE S \ {ch}
<1>1. /\ Typed /\ at \in 1..Length /\ call \in Calls /\ handle \in Handles
      /\ (IsLast <=> at = Length)
  BY Lengths DEF IInv, Typed, TypeOK, InProgram, IsLast
<1>2. ch \in Channel /\ on \in BOOLEAN /\ S \in SUBSET Channel
  BY <1>1, CallTypes DEF Handles
<1>3. Length = IF ContentChanges(ch) THEN 2 ELSE 1
  BY DEF Length
<1>4. CASE at = 2
  <2>1. DuringSource(chip, handle, manual)
    BY <1>4 DEF IInv, Underway
  <2>2. \A r \in Register : r # "FIFO_EN" => Written[r] = chip[r]
    BY <1>1, <1>4, SourceWrites, Others
  <2>3. Written["FIFO_EN"] = IF on THEN chip["FIFO_EN"] \union {ContentOf(ch)}
                                   ELSE chip["FIFO_EN"] \ {ContentOf(ch)}
    BY <1>1, <1>4, SourceWrites DEF Writes
  <2>4. Noted = handle /\ IsLast
    BY <1>1, <1>3, <1>4, NotedIs
  <2>5. SourcesIn(Written, handle) /\ ModeIn(Written, handle) /\ ScalesIn(Written, handle)
        /\ FifoIn(Written, handle)
    BY <2>1, <2>2, Registers DEF DuringSource, SourcesIn, ModeIn, ScalesIn, FifoIn
  <2>6. ContentIn(Written, handle, manual)
    BY <2>1, <2>3 DEF DuringSource, ContentIn
  <2>7. QED
    BY <2>4, <2>5, <2>6 DEF Agrees
<1>5. CASE at = 1
  <2>1. Agrees(chip, handle, manual) /\ (ch \in S) = ~on
    <3>1. at <= 1 /\ at >= 0
      BY <1>5
    <3>2. Agrees(chip, handle, manual)
      BY <3>1 DEF IInv, Underway
    <3>3. QED
      BY <3>1, <3>2 DEF IInv, InProgram
  <2>2. Noted = SourceNoted(ch, on)
    BY <1>5, NotedIs
  <2>3. /\ Noted.meas_mode = handle.meas_mode /\ Noted.active_sources = T
        /\ Noted.gyro_scale = handle.gyro_scale /\ Noted.accel_scale = handle.accel_scale
    BY <1>1, <1>2, <2>2, SourceNotedIs
  <2>4. "TEMP" \notin Axis
    BY Mpu6050DriverAssumption DEF Axis
  <2> HIDE DEF ch, on
  <2>5. SourcesIn(Written, Noted)
    <3>1. /\ chip["PWR_MGMT_2"] = Axis \ S
          /\ ("TEMP_DIS" \in chip["PWR_MGMT_1"]) = ("TEMP" \notin S)
      BY <2>1 DEF Agrees, SourcesIn
    <3>2. CASE ch = "TEMP"
      <4>1. Written["PWR_MGMT_1"] = IF on THEN chip["PWR_MGMT_1"] \ {"TEMP_DIS"}
                                          ELSE chip["PWR_MGMT_1"] \union {"TEMP_DIS"}
        BY <1>1, <1>5, <3>2, SourceWrites DEF Writes, ch, on
      <4>2. Written["PWR_MGMT_2"] = chip["PWR_MGMT_2"]
        BY <1>1, <1>5, <3>2, SourceWrites, Registers DEF Writes, ch, on
      <4>3. Axis \ T = Axis \ S
        BY <2>4, <3>2
      <4>4. ("TEMP_DIS" \in Written["PWR_MGMT_1"]) = ("TEMP" \notin T)
        BY <1>2, <3>2, <4>1
      <4> HIDE DEF S, T
      <4>5. QED
        BY <2>3, <3>1, <4>2, <4>3, <4>4 DEF SourcesIn
    <3>3. CASE ch # "TEMP"
      <4>1. Written["PWR_MGMT_2"] = IF on THEN chip["PWR_MGMT_2"] \ {ch}
                                          ELSE chip["PWR_MGMT_2"] \union {ch}
        BY <1>1, <1>5, <3>3, SourceWrites DEF Writes, ch, on
      <4>2. Written["PWR_MGMT_1"] = chip["PWR_MGMT_1"]
        BY <1>1, <1>5, <3>3, SourceWrites, Registers DEF Writes, ch, on
      <4>3. ch \in Axis
        BY <1>2, <3>3 DEF Channel
      <4>4. Written["PWR_MGMT_2"] = Axis \ T
        BY <1>2, <3>1, <4>1, <4>3
      <4>5. ("TEMP" \notin T) = ("TEMP" \notin S)
        BY <1>2, <3>3
      <4> HIDE DEF S, T
      <4>6. QED
        BY <2>3, <3>1, <4>2, <4>4, <4>5 DEF SourcesIn
    <3>4. QED
      BY <3>2, <3>3
  <2>6. \A r \in Register : r \notin {"PWR_MGMT_1", "PWR_MGMT_2"} => Written[r] = chip[r]
    BY <1>1, <1>5, SourceWrites DEF Writes
  <2>7. ModeIn(Written, Noted)
    <3>1. ("CYCLE" \in Written["PWR_MGMT_1"]) = ("CYCLE" \in chip["PWR_MGMT_1"])
      <4>1. CASE ch = "TEMP"
        <5>1. Written["PWR_MGMT_1"] = IF on THEN chip["PWR_MGMT_1"] \ {"TEMP_DIS"}
                                            ELSE chip["PWR_MGMT_1"] \union {"TEMP_DIS"}
          BY <1>1, <1>5, <4>1, SourceWrites DEF Writes, ch, on
        <5>2. QED
          BY <1>2, <5>1
      <4>2. CASE ch # "TEMP"
        BY <1>1, <1>5, <4>2, SourceWrites, Registers DEF Writes, ch, on
      <4>3. QED
        BY <4>1, <4>2
    <3>2. QED
      BY <2>1, <2>3, <2>6, <3>1, Registers DEF Agrees, ModeIn
  <2>8. FifoIn(Written, Noted) /\ ScalesIn(Written, Noted)
    BY <2>1, <2>3, <2>6, Registers DEF Agrees, FifoIn, ScalesIn
  <2>9. /\ chip["FIFO_EN"] = Written["FIFO_EN"]
        /\ manual \/ chip["FIFO_EN"] = ContentNoted(handle)
    BY <2>1, <2>6, Registers DEF Agrees, ContentIn
  <2>10. ContentNoted(Noted) =
           IF ContentChanges(ch)
           THEN IF on THEN ContentNoted(handle) \union {ContentOf(ch)}
                      ELSE ContentNoted(handle) \ {ContentOf(ch)}
           ELSE ContentNoted(handle)
    <3>1. CASE handle.meas_mode = "BURST"
      <4>1. ContentChanges(ch) = ~(ch \in AccelAxis /\ (S \ {ch}) \cap AccelAxis # {})
        BY <3>1 DEF ContentChanges, OthersOn
      <4>2. /\ ContentNoted(Noted) = {ContentOf(x) : x \in T}
            /\ ContentNoted(handle) = {ContentOf(x) : x \in S}
        BY <2>3, <3>1 DEF ContentNoted
      <4>3. {ContentOf(x) : x \in T} =
              IF ch \in AccelAxis /\ (S \ {ch}) \cap AccelAxis # {} THEN {ContentOf(x) : x \in S}
              ELSE IF on THEN {ContentOf(x) : x \in S} \union {ContentOf(ch)}
                         ELSE {ContentOf(x) : x \in S} \ {ContentOf(ch)}
        BY <1>2, <2>1, ContentFollows
      <4>4. QED
        BY <4>1, <4>2, <4>3
    <3>2. CASE handle.meas_mode # "BURST"
      BY <2>3, <3>2 DEF ContentNoted, ContentChanges
    <3>3. QED
      BY <3>1, <3>2
  <2>11. ASSUME ~IsLast PROVE DuringSource(Written, Noted, manual)
    <3>1. ContentChanges(ch)
      BY <1>1, <1>3, <1>5, <2>11
    <3>2. QED
      BY <2>5, <2>7, <2>8, <2>9, <2>10, <3>1 DEF DuringSource, ch, on
  <2>12. ASSUME IsLast PROVE Agrees(Written, Noted, manual)
    <3>1. ~ContentChanges(ch)
      BY <1>1, <1>3, <1>5, <2>12
    <3>2. QED
      BY <2>5, <2>7, <2>8, <2>9, <2>10, <3>1 DEF Agrees, ContentIn
  <2>13. QED
    BY <2>11, <2>12
<1>6. QED
  BY <1>1, <1>3, <1>4, <1>5

-----------------------------------------------------------------------------
(* The invariant is inductive: one lemma per action.                       *)

LEMMA LengthIs ==
  ASSUME NEW c \in Calls, call = c
  PROVE  Length \in 1..12
<1>1. c.fn \in {"init", "fifo_reset", "self_test", "set_mode", "set_sleep", "set_source",
                "set_fifo_content", "set_range"}
  BY CallTypes
<1>2. QED
  BY <1>1 DEF Length

LEMMA InitIInv == ASSUME Init PROVE IInv
<1>1. call \in Calls /\ call.fn = "init" /\ at = -1
  <2> DEFINE c == [fn |-> "init"]
             S == [fn : {"init", "fifo_reset", "self_test"}]
                  \union [fn : {"set_mode"}, mode : Mode]
                  \union [fn : {"set_sleep"}, on : BOOLEAN]
                  \union [fn : {"set_source"}, ch : Channel, on : BOOLEAN]
                  \union [fn : {"set_fifo_content"}, content : Content, on : BOOLEAN]
                  \union [fn : {"set_range"}, reg : {"GYRO_CONFIG", "ACCEL_CONFIG"}, range : FullScale]
  <2>1. Calls = {d \in S : d.fn \in Functions}
    BY DEF Calls
  <2>2. c \in [fn : {"init", "fifo_reset", "self_test"}]
    OBVIOUS
  <2>3. c \in S
    BY <2>2
  <2>4. "init" \in Functions
    BY Mpu6050DriverAssumption
  <2>5. c.fn = "init"
    OBVIOUS
  <2> HIDE DEF S, c
  <2>6. c \in Calls
    BY <2>1, <2>3, <2>4, <2>5
  <2>7. QED
    BY <2>5, <2>6 DEF Init, c
<1>2. /\ Narrow \in FullScale /\ MaxAfterFailure \in Nat /\ Cardinality(GyroAxis) \in 0..3
  BY Mpu6050DriverAssumption
<1>3. 0 \in 0..(8 + 2 * Cardinality(GyroAxis)) /\ 0 \in 0..(MaxAfterFailure + 1)
  BY <1>2
<1>4. /\ handle = [meas_mode |-> "SINGLE", active_sources |-> {}, payload_bytes |-> 0,
                   gyro_scale |-> Narrow, accel_scale |-> Narrow]
      /\ chip = AfterReset /\ saved = AfterReset /\ ~inited /\ result = "ok"
      /\ locked = FALSE /\ dma = FALSE /\ manual = FALSE /\ damage = 0 /\ inited = FALSE
  BY DEF Init
<1>5. Typed
  <2>1. handle \in Handles
    BY <1>2, <1>3, <1>4 DEF Handles, Mode
  <2>2. IsImage(chip) /\ IsImage(saved)
    BY <1>4, ResetIsImage
  <2>3. \A r \in Register : chip[r] \subseteq Bits[r] /\ saved[r] \subseteq Bits[r]
    BY <2>2 DEF IsImage
  <2>4. /\ handle.meas_mode \in Mode /\ handle.active_sources \subseteq Channel
        /\ handle.payload_bytes \in 0..(8 + 2 * Cardinality(GyroAxis))
        /\ handle.gyro_scale \in FullScale /\ handle.accel_scale \in FullScale
    BY <2>1 DEF Handles
  <2>5. {locked, dma, inited, manual} \subseteq BOOLEAN /\ damage \in 0..(MaxAfterFailure + 1)
    BY <1>3, <1>4
  <2>6. at \in Int /\ result \in {"ok", "error", "refused"}
    BY <1>1, <1>4
  <2>7. QED
    BY <1>1, <2>1, <2>2, <2>3, <2>4, <2>5, <2>6 DEF Typed, TypeOK
<1>6. InProgram
  BY <1>1 DEF InProgram, Length
<1>7. HasTheBus /\ ModeSoFar /\ InitSoFar
  BY <1>1 DEF HasTheBus, ModeSoFar, InitSoFar
<1>8. Follows(handle)
  BY <1>4 DEF Follows
<1>9. SetModeRepairs /\ Underway
  BY <1>1, <1>4 DEF SetModeRepairs, Succeeded, Underway
<1>10. QED
  BY <1>5, <1>6, <1>7, <1>8, <1>9 DEF IInv

LEMMA BeginIInv == ASSUME IInv, NEW c \in Calls, Begin(c) PROVE IInv'
<1>1. /\ at = -1 /\ at' = 0 /\ call' = c /\ c \in Calls /\ locked' = TRUE /\ result' = "ok"
      /\ chip' = chip /\ handle' = handle /\ dma' = dma /\ damage \in 0..(MaxAfterFailure + 1)
      /\ MaxAfterFailure \in Nat
  BY Mpu6050DriverAssumption DEF Begin, Callable, IInv, Typed, TypeOK
<1>2. /\ saved' = IF c.fn = "self_test" THEN chip ELSE AfterReset
      /\ inited' = (inited /\ c.fn # "init")
      /\ manual' = (manual \/ c.fn = "set_fifo_content")
  BY DEF Begin
<1>3. damage' \in 0..(MaxAfterFailure + 1) /\ (damage' = 0 /\ inited' => damage = 0)
  <2>1. damage > 0 /\ c.fn # "init" => damage <= MaxAfterFailure
    BY DEF Begin, Callable
  <2>2. damage' = IF damage > 0 /\ c.fn # "init" THEN damage + 1 ELSE damage
    BY DEF Begin
  <2>3. QED
    BY <1>1, <2>1, <2>2
<1>4. Typed'
  <2>1. IsImage(chip') /\ IsImage(saved') /\ handle' \in Handles
    BY <1>1, <1>2, ResetIsImage DEF IInv, Typed
  <2>2. {locked', dma', inited', manual'} \subseteq BOOLEAN
    BY <1>1, <1>2 DEF IInv, Typed, TypeOK
  <2>3. TypeOK'
    BY <1>1, <1>3, <2>1, <2>2 DEF TypeOK, IsImage, Handles
  <2>4. QED
    BY <2>1, <2>3 DEF Typed, IsImage
<1>5. InProgram'
  <2>1. Length' \in 1..12
    <3>1. c.fn \in {"init", "fifo_reset", "self_test", "set_mode", "set_sleep", "set_source",
                    "set_fifo_content", "set_range"}
      BY CallTypes
    <3>2. QED
      BY <1>1, <3>1 DEF Length
  <2>2. c.fn = "set_source" => /\ handle.meas_mode # "LOWPOWER" /\ c.on \in BOOLEAN
                               /\ (c.ch \in handle.active_sources) = ~c.on
    BY CallTypes DEF Begin, Refused, Unchanged
  <2>3. at' \in -1..Length'
    <3>1. at' = 0
      BY <1>1
    <3>2. QED
      BY <2>1, <3>1
  <2>m. c.fn = "set_fifo_content" => manual'
    BY <1>2
  <2>4. c.fn = "set_source" => /\ handle'.meas_mode # "LOWPOWER"
                               /\ (call'.ch \in handle'.active_sources)
                                    = (IF at' <= 1 THEN ~call'.on ELSE call'.on)
    BY <1>1, <2>2
  <2>5. QED
    BY <1>1, <2>3, <2>4, <2>m DEF InProgram
<1>6. HasTheBus' /\ ModeSoFar' /\ InitSoFar' /\ Follows(handle)' /\ SetModeRepairs'
  <2>1. HasTheBus' /\ InitSoFar' /\ SetModeRepairs'
    BY <1>1 DEF HasTheBus, InitSoFar, SetModeRepairs, Succeeded, Idle
  <2>2. ModeSoFar'
    BY <1>1 DEF ModeSoFar, FifoSet, PowerSet, PowerFrom
  <2>3. Follows(handle)'
    BY <1>1 DEF Follows, IInv
  <2>4. QED
    BY <2>1, <2>2, <2>3
<1>7. Underway'
  <2>1. SUFFICES ASSUME damage' = 0, inited' PROVE Underway'
    BY DEF Underway
  <2>2. damage = 0 /\ inited /\ c.fn # "init"
    BY <1>2, <1>3, <2>1
  <2>3. Agrees(chip, handle, manual)
    BY <1>1, <2>2 DEF IInv, Underway
  <2>4. Agrees(chip, handle, manual')
    BY <1>2, <2>3 DEF Agrees, ContentIn
  <2>5. c.fn = "self_test" => Agrees(saved', handle, manual') /\ \A r : chip[r] = saved'[r]
    BY <1>2, <2>4
  <2>6. QED
    BY <1>1, <2>2, <2>4, <2>5
       DEF Underway, Agrees, SourcesIn, ModeIn, FifoIn, ScalesIn, ContentIn, ContentNoted, DuringTest
<1>8. QED
  BY <1>4, <1>5, <1>6, <1>7 DEF IInv

LEMMA EarlyIInv == ASSUME IInv, NEW c \in Calls, ReturnsEarly(c) PROVE IInv'
<1>1. /\ at = -1 /\ at' = -1 /\ call' = c /\ c.fn = "set_source" /\ result' \in {"ok", "refused"}
      /\ UNCHANGED <<chip, handle, locked, dma, saved, inited, damage, manual>>
  BY DEF ReturnsEarly, Callable, Refused, Unchanged, history
<1>2. Typed'
  BY <1>1 DEF IInv, Typed, TypeOK, IsImage
<1>3. InProgram'
  <2>1. Length' \in 1..2
    BY <1>1 DEF Length
  <2>2. QED
    BY <1>1, <2>1 DEF InProgram
<1>4. HasTheBus' /\ InitSoFar' /\ SetModeRepairs' /\ ModeSoFar'
  BY <1>1 DEF HasTheBus, InitSoFar, SetModeRepairs, Succeeded, ModeSoFar
<1>5. Follows(handle)'
  BY <1>1 DEF Follows, IInv
<1>6. Underway'
  BY <1>1 DEF IInv, Underway, Agrees, SourcesIn, ModeIn, FifoIn, ScalesIn, ContentIn, ContentNoted
<1>7. QED
  BY <1>2, <1>3, <1>4, <1>5, <1>6 DEF IInv

LEMMA TakenIInv == ASSUME IInv, LockTaken PROVE IInv'
<1>1. /\ at = 0 /\ at' = 1
      /\ UNCHANGED <<chip, handle, locked, dma, call, result, saved, inited, damage, manual>>
  BY DEF LockTaken, history
<1>2. Typed' /\ call \in Calls
  BY <1>1 DEF IInv, Typed, TypeOK, IsImage
<1>3. InProgram'
  <2>1. Length \in 1..12 /\ Length' = Length
    BY <1>1, <1>2, LengthIs DEF Length, ContentChanges, OthersOn
  <2>2. QED
    BY <1>1, <2>1 DEF IInv, InProgram
<1>4. HasTheBus' /\ InitSoFar' /\ SetModeRepairs' /\ ModeSoFar'
  <2>1. HasTheBus'
    BY <1>1 DEF IInv, HasTheBus, Unlocked
  <2>2. InitSoFar' /\ SetModeRepairs'
    BY <1>1 DEF InitSoFar, SetModeRepairs, Succeeded, Idle
  <2>3. ModeSoFar'
    BY <1>1 DEF ModeSoFar, FifoSet, PowerSet, PowerFrom
  <2>4. QED
    BY <2>1, <2>2, <2>3
<1>5. Follows(handle)'
  BY <1>1 DEF Follows, IInv
<1>6. Underway'
  BY <1>1 DEF IInv, Underway, Agrees, SourcesIn, ModeIn, FifoIn, ScalesIn, ContentIn, ContentNoted,
              DuringTest
<1>7. QED
  BY <1>2, <1>3, <1>4, <1>5, <1>6 DEF IInv

\* Data operations: none starts while the bus is locked.
LEMMA DataIInv == ASSUME IInv, DataRead \/ DataDone PROVE IInv'
<1>1. /\ UNCHANGED <<chip, handle, locked, at, call, result, saved, inited, damage, manual>>
      /\ dma' \in BOOLEAN /\ (dma' => dma \/ ~locked)
  BY DEF DataRead, DataDone, Admitted, history
<1>2. Typed'
  BY <1>1 DEF IInv, Typed, TypeOK, IsImage
<1>3. InProgram'
  BY <1>1 DEF IInv, InProgram, Length, ContentChanges, OthersOn
<1>4. HasTheBus'
  <2>1. dma' = TRUE \/ dma' = FALSE
    BY <1>1
  <2>2. QED
    BY <1>1, <2>1 DEF IInv, HasTheBus, Unlocked
<1>5. InitSoFar' /\ ModeSoFar'
  BY <1>1 DEF IInv, InitSoFar, ModeSoFar, FifoSet, PowerSet, Cleared
<1>6. SetModeRepairs'
  BY <1>1 DEF IInv, SetModeRepairs, Succeeded, Idle, SourcesMatch, ModeMatches, ContentMatches
<1>7. Follows(handle)'
  BY <1>1 DEF Follows, IInv
<1>8. Underway'
  BY <1>1 DEF IInv, Underway, Agrees, SourcesIn, ModeIn, FifoIn, ScalesIn, ContentIn, ContentNoted,
              DuringTest, DuringReset, DuringSource
<1>9. QED
  BY <1>2, <1>3, <1>4, <1>5, <1>6, <1>7, <1>8 DEF IInv

\* Whatever fails, the registers and the handle stay what they can be.
LEMMA FailIInv == ASSUME IInv, AccessFails PROVE IInv'
<1>1. /\ at > 0 /\ at' = -1 /\ locked' = FALSE /\ result' = "error" /\ damage' # 0
      /\ chip' \in {chip, Written}
      /\ UNCHANGED <<handle, dma, call, saved, inited, manual>>
  <2>1. damage \in 0..(MaxAfterFailure + 1) /\ MaxAfterFailure \in Nat
    BY Mpu6050DriverAssumption DEF IInv, Typed, TypeOK
  <2>2. QED
    BY <2>1 DEF AccessFails, Returns
<1>2. damage' \in 0..(MaxAfterFailure + 1)
  <2>1. damage \in 0..(MaxAfterFailure + 1) /\ MaxAfterFailure \in Nat
    BY Mpu6050DriverAssumption DEF IInv, Typed, TypeOK
  <2>2. QED
    BY <2>1 DEF AccessFails
<1>3. Typed /\ InProgram /\ IsImage(Written) /\ IsImage(chip)
  BY <1>1, WrittenImage DEF IInv, Typed
<1>4. Typed'
  <2>1. IsImage(chip')
    BY <1>1, <1>3
  <2>2. IsImage(saved') /\ handle' \in Handles
    BY <1>1, <1>3 DEF Typed
  <2>3. \A r \in Register : chip'[r] \subseteq Bits[r] /\ saved'[r] \subseteq Bits[r]
    BY <2>1, <2>2 DEF IsImage
  <2>4. {locked', dma', inited', manual'} \subseteq BOOLEAN /\ at' \in Int
    <3>1. dma \in BOOLEAN /\ inited \in BOOLEAN /\ manual \in BOOLEAN
      BY <1>3 DEF Typed, TypeOK
    <3>2. at' \in Int
      BY <1>1
    <3>3. QED
      BY <1>1, <3>1, <3>2
  <2>5. /\ handle'.meas_mode \in Mode /\ handle'.active_sources \subseteq Channel
        /\ handle'.payload_bytes \in 0..(8 + 2 * Cardinality(GyroAxis))
        /\ handle'.gyro_scale \in FullScale /\ handle'.accel_scale \in FullScale
        /\ call' \in Calls /\ result' \in {"ok", "error", "refused"}
    BY <1>1, <1>3 DEF Typed, TypeOK
  <2>6. TypeOK'
    BY <1>2, <2>3, <2>4, <2>5 DEF TypeOK
  <2>7. QED
    BY <2>1, <2>2, <2>6 DEF Typed, IsImage
<1>5. InProgram'
  <2>1. Length \in 1..12 /\ Length' = Length
    BY <1>1, <1>3, LengthIs DEF Length, ContentChanges, OthersOn, Typed, TypeOK
  <2>2. QED
    BY <1>1, <2>1 DEF InProgram
<1>6. HasTheBus' /\ InitSoFar' /\ SetModeRepairs'
  BY <1>1 DEF HasTheBus, InitSoFar, SetModeRepairs, Succeeded
<1>7. ModeSoFar'
  BY <1>1 DEF ModeSoFar, FifoSet, PowerSet, PowerFrom
<1>8. Follows(handle)'
  BY <1>1 DEF Follows, IInv
<1>9. Underway'
  BY <1>1 DEF Underway
<1>10. QED
  BY <1>4, <1>5, <1>6, <1>7, <1>8, <1>9 DEF IInv

\* A successful access: the types, the place in the list and the bus.
LEMMA AccessTyped ==
  ASSUME IInv, Access
  PROVE  /\ Typed' /\ InProgram' /\ HasTheBus' /\ Follows(handle)'
         /\ at \in 1..Length /\ (IsLast <=> at = Length) /\ call' = call /\ saved' = saved
         /\ at' = (IF IsLast THEN -1 ELSE at + 1) /\ chip' = Written /\ handle' = Noted
<1>1. /\ at > 0 /\ dma = FALSE /\ chip' = Written /\ handle' = Noted
      /\ UNCHANGED <<dma, call, saved>> /\ Typed /\ InProgram
      /\ call \in Calls
  BY DEF Access, IInv, Typed, TypeOK
<1>2. /\ at \in 1..Length /\ Length \in 1..12 /\ at \in 1..12 /\ (IsLast <=> at = Length)
  <2>1. Length \in 1..12
    BY <1>1, LengthIs
  <2>2. QED
    BY <1>1, <2>1, Lengths DEF InProgram, IsLast
<1>3. IsImage(Written) /\ Noted \in Handles /\ Follows(Noted)
  BY <1>1, WrittenImage, NotedFits DEF IInv
<1>4. Length' = Length
  <2>1. call.fn # "set_source" => Length' = Length
    BY <1>1 DEF Length
  <2>2. ASSUME call.fn = "set_source" PROVE ContentChanges(call.ch)' = ContentChanges(call.ch)
    <3>1. call.ch \in Channel /\ call.on \in BOOLEAN /\ handle \in Handles
      BY <1>1, <2>2, CallTypes DEF Typed
    <3>2. CASE at = 1
      <4> DEFINE S == handle.active_sources
                 T == IF call.on THEN S \union {call.ch} ELSE S \ {call.ch}
      <4>0. handle' = SourceNoted(call.ch, call.on)
        BY <1>1, <2>2, <3>2, NotedIs
      <4>1. handle'.meas_mode = handle.meas_mode /\ handle'.active_sources = T
        BY <3>1, <4>0, SourceNotedIs
      <4>2. T \ {call.ch} = S \ {call.ch}
        OBVIOUS
      <4> HIDE DEF T
      <4>3. QED
        BY <1>1, <4>1, <4>2 DEF ContentChanges, OthersOn
    <3>3. CASE at # 1
      BY <1>1, <2>2, <3>3, NotedIs DEF ContentChanges, OthersOn
    <3>4. QED
      BY <3>2, <3>3
  <2>3. QED
    BY <1>1, <2>1, <2>2 DEF Length
<1>5. at' = (IF IsLast THEN -1 ELSE at + 1) /\ at' \in -1..12
  <2>1. CASE IsLast
    BY <2>1 DEF Access, Returns
  <2>2. CASE ~IsLast
    <3>1. at' = at + 1
      BY <2>2 DEF Access
    <3>2. QED
      BY <1>2, <2>2, <3>1
  <2>3. QED
    BY <2>1, <2>2
<1>6. /\ {locked', inited', manual'} \subseteq BOOLEAN /\ damage' \in 0..(MaxAfterFailure + 1)
      /\ result' \in {"ok", "error", "refused"}
  <2>1. /\ locked \in BOOLEAN /\ inited \in BOOLEAN /\ manual \in BOOLEAN
        /\ damage \in 0..(MaxAfterFailure + 1) /\ result \in {"ok", "error", "refused"}
    BY DEF IInv, Typed, TypeOK
  <2>2. 0 \in 0..(MaxAfterFailure + 1)
    BY Mpu6050DriverAssumption
  <2>3. CASE IsLast
    BY <2>1, <2>2, <2>3 DEF Access, Returns
  <2>4. CASE ~IsLast
    BY <2>1, <2>4 DEF Access, history
  <2>5. QED
    BY <2>3, <2>4
<1>7. Typed'
  <2>1. IsImage(chip') /\ IsImage(saved') /\ handle' \in Handles
    BY <1>1, <1>3 DEF Typed
  <2>2. \A r \in Register : chip'[r] \subseteq Bits[r] /\ saved'[r] \subseteq Bits[r]
    BY <2>1 DEF IsImage
  <2>3. /\ handle'.meas_mode \in Mode /\ handle'.active_sources \subseteq Channel
        /\ handle'.payload_bytes \in 0..(8 + 2 * Cardinality(GyroAxis))
        /\ handle'.gyro_scale \in FullScale /\ handle'.accel_scale \in FullScale
    BY <2>1 DEF Handles
  <2>4. at' \in Int /\ {locked', dma', inited', manual'} \subseteq BOOLEAN
    <3>1. dma' \in BOOLEAN
      BY <1>1
    <3>2. QED
      BY <1>5, <1>6, <3>1
  <2>5. QED
    BY <1>1, <1>6, <2>1, <2>2, <2>3, <2>4 DEF Typed, TypeOK, IsImage
<1>8. InProgram'
  <2>1. at' \in -1..Length'
    <3>1. CASE IsLast
      BY <1>2, <1>4, <1>5, <3>1
    <3>2. CASE ~IsLast
      <4>1. at' = at + 1
        BY <1>5, <3>2
      <4>2. QED
        BY <1>2, <1>4, <3>2, <4>1
    <3>3. QED
      BY <3>1, <3>2
  <2>2. call.fn = "set_fifo_content" => IsLast
    <3>1. call.fn = "set_fifo_content" => Length = 1
      BY DEF Length
    <3>2. QED
      BY <1>2, <3>1
  <2>3. ASSUME call.fn = "set_source", at' >= 0
        PROVE  /\ handle'.meas_mode # "LOWPOWER"
               /\ (call'.ch \in handle'.active_sources) = (IF at' <= 1 THEN ~call'.on ELSE call'.on)
    <3>1. at = 1 /\ at' = 2
      <4>1. Length \in {1, 2}
        BY <2>3 DEF Length
      <4>2. ~IsLast /\ at' = at + 1
        BY <1>5, <2>3
      <4>3. QED
        BY <1>2, <4>1, <4>2
    <3>2. call.ch \in Channel /\ call.on \in BOOLEAN /\ handle.meas_mode # "LOWPOWER"
          /\ handle \in Handles
      BY <1>1, <2>3, <3>1, CallTypes DEF InProgram, Typed
    <3>3. /\ handle'.meas_mode = handle.meas_mode
          /\ handle'.active_sources = IF call.on THEN handle.active_sources \union {call.ch}
                                                 ELSE handle.active_sources \ {call.ch}
      <4>1. handle' = SourceNoted(call.ch, call.on)
        BY <1>1, <2>3, <3>1, NotedIs
      <4>2. QED
        BY <3>2, <4>1, SourceNotedIs
    <3>4. (call.ch \in handle'.active_sources) = call.on
      BY <3>2, <3>3
    <3>5. QED
      BY <1>1, <3>1, <3>2, <3>3, <3>4
  <2>4. call.fn = "set_fifo_content" => at' = -1
    BY <1>5, <2>2
  <2>5. QED
    BY <1>1, <2>1, <2>3, <2>4 DEF InProgram
<1>9. HasTheBus'
  <2>1. CASE IsLast
    BY <1>5, <2>1 DEF HasTheBus
  <2>2. CASE ~IsLast
    <3>1. /\ \/ ~Program[at].unlocks
             \/ call.fn = "fifo_reset" /\ at = 2
             \/ call.fn = "set_mode" /\ call.mode # "BURST" /\ at = 5
          /\ locked' = (locked /\ ~Program[at].unlocks) /\ at' = at + 1
      BY <1>1, <2>2, WrittenImage DEF Access
    <3>2. ~(call.fn = "fifo_reset" /\ at = 2)
      BY <1>2, <2>2 DEF Length
    <3>3. SUFFICES ASSUME ~Unlocked' PROVE locked' /\ (at' > 1 => ~dma')
      BY DEF HasTheBus
    <3>4. ~Unlocked /\ ~Program[at].unlocks
      BY <1>1, <1>2, <3>1, <3>2, <3>3 DEF Unlocked
    <3>5. locked
      <4>1. at >= 0
        BY <1>2
      <4>2. QED
        BY <3>4, <4>1 DEF IInv, HasTheBus
    <3>6. QED
      BY <1>1, <3>1, <3>4, <3>5
  <2>3. QED
    BY <2>1, <2>2
<1>10. Follows(handle)'
  BY <1>1, <1>3 DEF Follows
<1>11. QED
  BY <1>1, <1>2, <1>5, <1>7, <1>8, <1>9, <1>10

LEMMA AccessIInv == ASSUME IInv, Access PROVE IInv'
<1>1. /\ Typed' /\ InProgram' /\ HasTheBus' /\ Follows(handle)'
      /\ at \in 1..Length /\ (IsLast <=> at = Length) /\ call' = call /\ saved' = saved
      /\ at' = (IF IsLast THEN -1 ELSE at + 1) /\ chip' = Written /\ handle' = Noted
  BY AccessTyped
<1>2. Typed /\ InProgram /\ ModeSoFar /\ call \in Calls /\ at > 0 /\ at \in Int
  BY DEF IInv, Typed, TypeOK, Access
<1>3. /\ IsLast => /\ at' = -1 /\ result' = "ok" /\ (inited' <=> inited \/ call.fn = "init")
                   /\ damage' = (IF call.fn = "init" THEN 0 ELSE damage)
                   /\ (manual' <=> manual /\ call.fn \notin {"init", "set_mode"})
      /\ ~IsLast => at' = at + 1 /\ UNCHANGED <<result, inited, damage, manual>>
  BY DEF Access, Returns, history
<1>4. ModeSoFar'
  <2>1. SUFFICES ASSUME call.fn = "set_mode"
                 PROVE  /\ FifoSet(chip', call.mode, at')
                        /\ PowerSet(chip', call.mode, at' - PowerFrom(call.mode))
    BY <1>1 DEF ModeSoFar, FifoSet, PowerSet, PowerFrom
  <2>2. CASE IsLast
    BY <1>3, <2>2 DEF FifoSet, PowerSet, PowerFrom
  <2>3. CASE ~IsLast
    <3>1. /\ FifoSet(Written, call.mode, at + 1)
          /\ PowerSet(Written, call.mode, at + 1 - PowerFrom(call.mode))
      BY <1>2, <2>1, ModeProgress
    <3>2. at' = at + 1
      BY <1>3, <2>3
    <3>3. at' - PowerFrom(call.mode) = at + 1 - PowerFrom(call.mode)
      BY <1>2, <3>2 DEF PowerFrom
    <3>4. chip' = Written
      BY <1>1
    <3>5. QED
      BY <3>1, <3>2, <3>3, <3>4, Zenon
  <2>4. QED
    BY <2>2, <2>3
<1>5. InitSoFar'
  <2>1. CASE IsLast
    BY <1>3, <2>1 DEF InitSoFar
  <2>2. CASE ~IsLast
    BY <1>1, <1>2, InitNext DEF InitSoFar, Cleared
  <2>3. QED
    BY <2>1, <2>2
<1>6. SetModeRepairs'
  <2>1. SUFFICES ASSUME IsLast, call.fn = "set_mode"
                 PROVE  (SourcesMatch /\ ModeMatches /\ ContentMatches)'
    <3>1. ~IsLast => at' # -1
      BY <1>2, <1>3
    <3>2. QED
      BY <1>1, <3>1 DEF SetModeRepairs, Succeeded, Idle
  <2>2. /\ SourcesIn(Written, Noted) /\ ModeIn(Written, Noted)
        /\ FifoIn(Written, Noted) /\ ContentIn(Written, Noted, FALSE)
    BY <1>2, <2>1, ModeNext
  <2>3. QED
    BY <1>1, <2>2 DEF SourcesIn, ModeIn, FifoIn, ContentIn, ContentNoted,
                      SourcesMatch, ModeMatches, ContentMatches
<1>7. Underway'
  <2>1. SUFFICES ASSUME damage' = 0, inited' PROVE Underway'
    BY DEF Underway
  <2>2. CASE IsLast
    <3>1. Agrees(Written, Noted, manual')
      <4>1. call.fn # "init" => damage = 0 /\ inited
        BY <1>3, <2>1, <2>2
      <4>2. CASE call.fn = "init"
        <5>1. Agrees(Written, Noted, FALSE)
          BY <1>2, <2>2, <4>2, InitNext
        <5>2. QED
          BY <5>1 DEF Agrees, ContentIn
      <4>3. CASE call.fn = "set_mode"
        <5>1. /\ SourcesIn(Written, Noted) /\ ModeIn(Written, Noted) /\ FifoIn(Written, Noted)
              /\ ContentIn(Written, Noted, FALSE) /\ ScalesIn(Written, Noted)
          BY <1>2, <2>2, <4>1, <4>3, ModeNext
        <5>2. QED
          BY <5>1 DEF Agrees, ContentIn
      <4>4. CASE call.fn \notin {"init", "set_mode"}
        <5>1. damage = 0 /\ inited /\ (manual' <=> manual)
          BY <1>3, <2>2, <4>1, <4>4
        <5>2. Agrees(Written, Noted, manual)
          <6>1. CASE call.fn = "fifo_reset"
            <7>1. at = 2 /\ Noted = handle
              BY <1>1, <2>2, <6>1, NotedIs DEF Length
            <7>2. QED
              BY <1>2, <5>1, <6>1, <7>1, ResetNext
          <6>2. CASE call.fn = "set_sleep"
            BY <1>2, <5>1, <6>2, SleepNext, NotedIs
          <6>3. CASE call.fn = "set_fifo_content"
            BY <1>2, <5>1, <6>3, ContentNext, NotedIs
          <6>4. CASE call.fn = "set_range"
            BY <1>2, <5>1, <6>4, RangeNext
          <6>5. CASE call.fn = "set_source"
            BY <1>2, <2>2, <5>1, <6>5, SourceNext
          <6>6. CASE call.fn = "self_test"
            BY <1>2, <2>2, <5>1, <6>6, TestNext, NotedIs
          <6>7. QED
            BY <1>2, <4>4, <6>1, <6>2, <6>3, <6>4, <6>5, <6>6, CallTypes
        <5>3. QED
          BY <5>1, <5>2 DEF Agrees, ContentIn
      <4>5. QED
        BY <4>2, <4>3, <4>4
    <3>2. at' = -1
      BY <1>3, <2>2
    <3>3. QED
      BY <1>1, <3>1, <3>2
         DEF Underway, Agrees, SourcesIn, ModeIn, FifoIn, ScalesIn, ContentIn, ContentNoted
  <2>3. CASE ~IsLast
    <3>1. /\ damage = 0 /\ inited /\ at' = at + 1 /\ at' > 1 /\ manual' = manual /\ call.fn # "init"
          /\ chip' = Written /\ handle' = Noted /\ call' = call /\ saved' = saved
      <4>1. damage = 0 /\ inited /\ at' = at + 1 /\ manual' = manual
        BY <1>3, <2>1, <2>3
      <4>2. at >= 0 /\ at' > 1
        BY <1>2, <4>1
      <4>3. call.fn # "init"
        BY <4>1, <4>2 DEF IInv, Underway
      <4>4. QED
        BY <1>1, <4>1, <4>2, <4>3
    <3>2. CASE call.fn = "fifo_reset"
      <4>1. at = 1 /\ Noted = handle
        BY <1>1, <2>3, <3>2, NotedIs DEF Length
      <4>2. DuringReset(Written, handle, manual)
        BY <1>2, <3>1, <3>2, <4>1, ResetNext
      <4>3. QED
        BY <3>1, <3>2, <4>1, <4>2
           DEF Underway, DuringReset, SourcesIn, ModeIn, ScalesIn, ContentIn, ContentNoted
    <3>3. CASE call.fn = "set_range"
      <4>1. Agrees(Written, Noted, manual)
        BY <1>2, <3>1, <3>3, RangeNext
      <4>2. QED
        BY <3>1, <3>3, <4>1
           DEF Underway, Agrees, SourcesIn, ModeIn, FifoIn, ScalesIn, ContentIn, ContentNoted
    <3>4. CASE call.fn = "set_source"
      <4>1. DuringSource(Written, Noted, manual)
        BY <1>2, <2>3, <3>1, <3>4, SourceNext
      <4>2. DuringSource(chip, handle, manual)'
        BY <3>1, <4>1 DEF DuringSource, SourcesIn, ModeIn, FifoIn, ScalesIn, ContentNoted
      <4>3. at' \in Int /\ at' > 1
        BY <1>2, <3>1
      <4>4. QED
        BY <3>1, <3>4, <4>2, <4>3 DEF Underway
    <3>5. CASE call.fn = "set_mode"
      <4>1. ScalesIn(Written, handle) /\ Noted = handle
        BY <1>2, <2>3, <3>1, <3>5, ModeNext, NotedIs
      <4>2. at' \in Int /\ at' > 1
        BY <1>2, <3>1
      <4>3. QED
        BY <3>1, <3>5, <4>1, <4>2 DEF Underway, ScalesIn
    <3>6. CASE call.fn = "self_test"
      <4>1. DuringTest(Written, at + 1) /\ Agrees(saved, handle, manual) /\ Noted = handle
        BY <1>2, <3>1, <3>6, TestNext, NotedIs
      <4>2. QED
        BY <3>1, <3>6, <4>1
           DEF Underway, DuringTest, Agrees, SourcesIn, ModeIn, FifoIn, ScalesIn, ContentIn, ContentNoted
    <3>7. CASE call.fn \in {"set_sleep", "set_fifo_content"}
      <4>1. Length = 1
        BY <3>7 DEF Length
      <4>2. QED
        BY <1>1, <1>2, <2>3, <4>1
    <3>8. QED
      BY <1>2, <3>1, <3>2, <3>3, <3>4, <3>5, <3>6, <3>7, CallTypes
  <2>4. QED
    BY <2>2, <2>3
<1>8. QED
  BY <1>1, <1>4, <1>5, <1>6, <1>7 DEF IInv

\* The invariant is inductive.
LEMMA StepIInv == IInv /\ [Next]_vars => IInv'
<1>1. SUFFICES ASSUME IInv, [Next]_vars PROVE IInv'
  OBVIOUS
<1>2. ASSUME NEW c \in Calls, Begin(c) PROVE IInv'
  BY <1>1, <1>2, BeginIInv
<1>3. ASSUME NEW c \in Calls, ReturnsEarly(c) PROVE IInv'
  BY <1>1, <1>3, EarlyIInv
<1>4. CASE LockTaken
  BY <1>1, <1>4, TakenIInv
<1>5. CASE Access
  BY <1>1, <1>5, AccessIInv
<1>6. CASE AccessFails
  BY <1>1, <1>6, FailIInv
<1>7. CASE DataRead \/ DataDone
  BY <1>1, <1>7, DataIInv
<1>8. CASE UNCHANGED vars
  <2>1. /\ UNCHANGED <<chip, handle, locked, dma, at, call, result, saved, inited, damage, manual>>
    BY <1>8 DEF vars
  <2>2. Typed' /\ InProgram' /\ HasTheBus'
    BY <1>1, <2>1 DEF IInv, Typed, TypeOK, IsImage, InProgram, Length, ContentChanges, OthersOn,
                      HasTheBus, Unlocked
  <2>3. InitSoFar' /\ ModeSoFar' /\ SetModeRepairs' /\ Follows(handle)'
    BY <1>1, <2>1 DEF IInv, InitSoFar, ModeSoFar, FifoSet, PowerSet, Cleared, SetModeRepairs,
                      Succeeded, Idle, SourcesMatch, ModeMatches, ContentMatches, Follows
  <2>4. Underway'
    BY <1>1, <2>1 DEF IInv, Underway, Agrees, SourcesIn, ModeIn, FifoIn, ScalesIn, ContentIn,
                      ContentNoted, DuringTest, DuringReset, DuringSource
  <2>5. QED
    BY <2>2, <2>3, <2>4 DEF IInv
<1>9. QED
  BY <1>1, <1>2, <1>3, <1>4, <1>5, <1>6, <1>7, <1>8 DEF Next, User, Driver

-----------------------------------------------------------------------------
(* The configuration functions: what holds after any sequence of calls.    *)

\* The invariant holds in every state of the driver.
THEOREM DriverInductive == Spec => []IInv
<1>1. Init => IInv
  BY InitIInv
<1>2. QED
  BY <1>1, StepIInv, PTL DEF Spec

\* MPU_6050_* keep the registers, the handle and the status within their types.
THEOREM DriverTypeCorrect == Spec => []TypeOK
<1>1. IInv => TypeOK
  BY DEF IInv, Typed
<1>2. QED
  BY <1>1, DriverInductive, PTL

\* After every sequence of calls that all succeeded the handle describes the
\* sensor: its mode, its sources, its ranges and the content of its FIFO.
THEOREM HandleDescribesSensor == Spec => []HandleMatchesSensor
<1>1. IInv => HandleMatchesSensor
  <2>1. SUFFICES ASSUME IInv, at = -1, inited, damage = 0
                 PROVE  SourcesMatch /\ ModeMatches /\ ScalesMatch /\ (manual \/ ContentMatches)
    BY DEF HandleMatchesSensor, Idle
  <2>2. Agrees(chip, handle, manual)
    BY <2>1 DEF IInv, Underway
  <2>3. QED
    BY <2>2 DEF Agrees, SourcesIn, ModeIn, FifoIn, ScalesIn, ContentIn, ContentNoted,
                SourcesMatch, ModeMatches, ScalesMatch, ContentMatches
<1>2. QED
  BY <1>1, DriverInductive, PTL

\* MPU_6050_set_mode repairs whatever failed calls have left behind.
THEOREM ModeChangeRepairs == Spec => []SetModeRepairs
<1>1. IInv => SetModeRepairs
  BY DEF IInv
<1>2. QED
  BY <1>1, DriverInductive, PTL

\* payload_bytes is the length of a sample of the active channels, and never
\* wraps, however calls fail.
THEOREM PayloadIsTheLength == Spec => []PayloadFollowsSources
<1>1. IInv => PayloadFollowsSources
  BY DEF IInv, Follows, PayloadFollowsSources
<1>2. QED
  BY <1>1, DriverInductive, PTL

\* No data operation runs beside an access that comes after the first, save in
\* a mode change behind the FIFO reset which releases its lock.
THEOREM NothingDisturbs == Spec => []AccessesUndisturbed
<1>1. Len(FifoOff) = 5
  <2> DEFINE s == <<Put("INT_ENABLE", {"DATA_READY"}), BitsOff("USER_CTRL", {"FIFO_ENABLE"}),
                    Put("FIFO_EN", {})>>
  <2>1. PICK b1, b2 : FifoReset = <<b1, b2>>
    BY DEF FifoReset
  <2>2. FifoOff = s \o <<b1, b2>>
    BY <2>1 DEF FifoOff
  <2>3. QED
    BY <2>2
<1>2. IInv => AccessesUndisturbed
  <2>1. SUFFICES ASSUME IInv, at > 1, dma
                 PROVE  call.fn = "set_mode" /\ call.mode # "BURST" /\ at > 5
    BY <1>1 DEF AccessesUndisturbed
  <2>2. at >= 0
    BY <2>1 DEF IInv, Typed, TypeOK
  <2>3. QED
    BY <2>1, <2>2 DEF IInv, HasTheBus, Unlocked
<1>3. QED
  BY <1>2, DriverInductive, PTL

-----------------------------------------------------------------------------
(* The interrupt handlers of the burst mode.                               *)

\* The bus is locked from the call of the FIFO reset to its return, so that no
\* handler starts a transfer once an access has found the bus ready.
Resetting == reset # "idle" => bus_status

\* A burst was started for a count, which only the next count read replaces.
Counted == transfer = "burst" => raw >= BURST_COUNT

BurstIInv == BurstTypeOK /\ Resetting /\ ResetHasTheBus /\ Counted

LEMMA BurstTyped == BurstTypeOK /\ [BurstNext]_burstVars => BurstTypeOK'
<1>1. /\ Capacity \in Nat \ {0} /\ BURST_COUNT \in Nat \ {0} /\ burst_count \in Nat \ {0}
      /\ 0 \in 0..Capacity
  BY Mpu6050BurstAssumption
<1>2. SUFFICES ASSUME BurstTypeOK, [BurstNext]_burstVars PROVE BurstTypeOK'
  OBVIOUS
<1>3. CASE Sample
  <2>1. fifo' \in 0..Capacity
    <3>1. CASE fifo < Capacity
      BY <1>1, <1>2, <1>3, <3>1 DEF BurstTypeOK, Sample
    <3>2. CASE ~(fifo < Capacity)
      BY <1>2, <1>3, <3>2 DEF BurstTypeOK, Sample
    <3>3. QED
      BY <3>1, <3>2
  <2>2. {enabled', overflowed', pulse', fifo_oflow_flag', bus_status'} \subseteq BOOLEAN
    BY <1>2, <1>3 DEF BurstTypeOK, Sample, flags
  <2>3. QED
    BY <1>2, <1>3, <2>1, <2>2 DEF BurstTypeOK, Sample, flags
<1>4. CASE IntIsr
  BY <1>2, <1>4 DEF BurstTypeOK, IntIsr, flags
<1>5. CASE Timer
  BY <1>2, <1>5 DEF BurstTypeOK, Timer, flags, sensor
<1>6. CASE StatusRead
  BY <1>2, <1>6 DEF BurstTypeOK, StatusRead, Completed, BurstRead
<1>7. CASE CountRead
  BY <1>2, <1>7 DEF BurstTypeOK, CountRead, Completed, BurstRead, sensor
<1>8. CASE FifoRead
  <2>1. Left \in 0..Capacity
    BY <1>1, <1>2 DEF BurstTypeOK, Left
  <2>2. QED
    BY <1>2, <1>8, <2>1 DEF BurstTypeOK, FifoRead, Completed, BurstRead
<1>9. CASE TransferFails
  BY <1>2, <1>9 DEF BurstTypeOK, TransferFails, flags, sensor
<1>10. CASE LockBus
  BY <1>2, <1>10 DEF BurstTypeOK, LockBus, flags, sensor
<1>11. CASE WaitEnds
  BY <1>2, <1>11 DEF BurstTypeOK, WaitEnds, flags, sensor
<1>12. CASE ClearFifo
  BY <1>1, <1>2, <1>12 DEF BurstTypeOK, ClearFifo, flags
<1>13. CASE ResetEnds
  BY <1>2, <1>13 DEF BurstTypeOK, ResetEnds, LastAccess, Released
<1>14. CASE UNCHANGED burstVars
  BY <1>2, <1>14 DEF BurstTypeOK, burstVars, flags, sensor
<1>15. QED
  BY <1>2, <1>3, <1>4, <1>5, <1>6, <1>7, <1>8, <1>9, <1>10, <1>11, <1>12, <1>13, <1>14
     DEF BurstNext, Completion, ResetFifo

LEMMA BurstStep == BurstIInv /\ [BurstNext]_burstVars => BurstIInv'
<1>1. SUFFICES ASSUME BurstIInv, [BurstNext]_burstVars
               PROVE  Resetting' /\ ResetHasTheBus' /\ Counted'
  BY BurstTyped DEF BurstIInv
<1> USE DEF BurstIInv, Resetting, ResetHasTheBus, Ready, Counted
<1>2. CASE Sample
  BY <1>1, <1>2 DEF Sample, flags
<1>3. CASE IntIsr
  BY <1>1, <1>3 DEF IntIsr, ReadAdmitted, flags
<1>4. CASE Timer
  BY <1>1, <1>4 DEF Timer, ReadAdmitted, flags
<1>5. CASE StatusRead
  BY <1>1, <1>5 DEF StatusRead, Completed, BurstRead, Enough
<1>6. CASE CountRead
  BY <1>1, <1>6 DEF CountRead, Completed, BurstRead, Enough
<1>7. CASE FifoRead
  BY <1>1, <1>7 DEF FifoRead, Completed, BurstRead, Enough
<1>8. CASE TransferFails
  BY <1>1, <1>8 DEF TransferFails, flags
<1>9. CASE LockBus
  BY <1>1, <1>9 DEF LockBus, flags
<1>10. CASE WaitEnds
  BY <1>1, <1>10 DEF WaitEnds, flags
<1>11. CASE ClearFifo
  BY <1>1, <1>11 DEF ClearFifo, flags
<1>12. CASE ResetEnds
  BY <1>1, <1>12 DEF ResetEnds, LastAccess, Released
<1>13. CASE UNCHANGED burstVars
  BY <1>1, <1>13 DEF burstVars, flags
<1>14. QED
  BY <1>1, <1>2, <1>3, <1>4, <1>5, <1>6, <1>7, <1>8, <1>9, <1>10, <1>11, <1>12, <1>13
     DEF BurstNext, Completion, ResetFifo

\* The lock keeps the handlers from starting a read while MPU_6050_fifo_reset
\* works, and its first access is refused while one still runs.
THEOREM BurstInductive == BurstSpec => []BurstIInv
<1>1. BurstInit => BurstIInv
  <2>1. 0 \in 0..Capacity
    BY Mpu6050BurstAssumption
  <2>2. QED
    BY <2>1 DEF BurstInit, BurstIInv, BurstTypeOK, Resetting, ResetHasTheBus, Counted
<1>2. QED
  BY <1>1, BurstStep, PTL DEF BurstSpec

\* The handlers keep the counts and the flags of the handle within their types.
THEOREM BurstTypeCorrect == BurstSpec => []BurstTypeOK
<1>1. BurstIInv => BurstTypeOK
  BY DEF BurstIInv
<1>2. QED
  BY <1>1, BurstInductive, PTL

\* No read runs from the write that empties the FIFO to the return of
\* MPU_6050_fifo_reset, although its wait for the bus ends after 10 ms.
THEOREM ResetIsAlone == BurstSpec => []ResetHasTheBus
<1>1. BurstIInv => ResetHasTheBus
  BY DEF BurstIInv
<1>2. QED
  BY <1>1, BurstInductive, PTL

\* Once a burst runs and nobody asks for a reset, MPU_6050_i2c_rxcplt_isr starts
\* the next one at its end, and no handler gets to read anything else, whatever
\* the FIFO holds: for every size of the FIFO and both burst counts.
THEOREM BurstsNeverStop == BurstSpec => BurstsRunAway
<1>1. ASSUME BurstIInv, [BurstNext]_burstVars, RunAway, ~TransferFails PROVE RunAway'
  <2> USE DEF RunAway
  <2>1. CASE Sample
    BY <1>1, <2>1 DEF Sample, flags
  <2>2. CASE IntIsr
    BY <1>1, <2>2 DEF IntIsr, ReadAdmitted, flags
  <2>3. CASE Timer
    BY <1>1, <2>3 DEF Timer, ReadAdmitted, flags
  <2>4. CASE FifoRead
    <3>1. raw' >= BURST_COUNT
      BY <1>1, <2>4 DEF FifoRead, BurstIInv, Counted
    <3>2. QED
      BY <1>1, <2>4, <3>1 DEF FifoRead, Completed, Enough, BurstRead
  <2>5. CASE LockBus
    BY <1>1, <2>5 DEF LockBus
  <2>6. reset = "idle"
    BY <1>1 DEF BurstIInv, Resetting
  <2>7. CASE UNCHANGED burstVars
    BY <1>1, <2>7 DEF burstVars, flags
  <2>8. QED
    BY <1>1, <2>1, <2>2, <2>3, <2>4, <2>5, <2>6, <2>7
       DEF BurstNext, Completion, StatusRead, CountRead, ResetFifo, WaitEnds, ClearFifo,
           ResetEnds, LastAccess
<1>2. BurstIInv /\ [BurstNext]_burstVars => [RunAway => RunAway' \/ TransferFails]_burstVars
  BY <1>1
<1>3. QED
  BY <1>2, BurstInductive, PTL DEF BurstSpec, BurstsRunAway
=============================================================================
