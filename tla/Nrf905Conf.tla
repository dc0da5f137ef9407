----------------------------- MODULE Nrf905Conf -----------------------------
(***************************************************************************)
(* One nRF905: the configuration bytes that the driver stages in the       *)
(* handle, what of them reaches the chip, and nrf905_device_init with all  *)
(* the ways in which it and the nrf905_deinit behind it can fail.          *)
(*                                                                         *)
(* A byte is a number; the four address bytes are one value.               *)
(***************************************************************************)
EXTENDS Integers, Sequences

CONSTANTS
  Header,     \* what rf_init.h or nrf905_init.h asks for
  TxAddress,  \* the address set behind the initialisation
  Mode,       \* NRF905_MODE_TX or NRF905_MODE_RX: "TX" or "RX"
  Pulses,     \* whether the initialisation raises CE for a moment
  PinsFail,   \* whether an access to a pin may be refused
  Settable,   \* fields the user sets afterwards
  Values,     \* to these values (both bounds of the model)
  Writes      \* whether the user writes the chip afterwards

VARIABLES
  conf,       \* handle->conf
  inited,     \* handle->inited
  open,       \* what is initialised: the bus and the pins
  pins,       \* the levels of the pins
  regs,       \* the configuration register of the chip
  txAddress,  \* its TX address register
  at,         \* where nrf905_device_init is
  result,     \* its result
  stuck,      \* a release or the power-down was refused (a history)
  torn,       \* the last write of the register failed (a history)
  meant,      \* for every field the value last set (a history)
  asked       \* for every field the value last sent to the chip (a history)

handle == <<conf, inited>>
chip == <<regs, txAddress, torn, asked>>
vars == <<handle, open, pins, chip, at, result, stuck, meant>>

Register == 1..7
CH_NO == 1
CONF1 == 2
CONF2 == 3
RX_PW == 4
TX_PW == 5
RX_ADDRESS == 6
CONF3 == 7

Bits(reg, unit, size) == [reg |-> reg, unit |-> unit, size |-> size]
CH_NO_8 == Bits(CONF1, 1, 2)
Field == [
  pll_mode               |-> Bits(CONF1, 2, 2),
  output_power           |-> Bits(CONF1, 4, 4),
  rx_mode                |-> Bits(CONF1, 16, 2),
  auto_retransmit        |-> Bits(CONF1, 32, 2),
  rx_address_width       |-> Bits(CONF2, 1, 8),
  tx_address_width       |-> Bits(CONF2, 16, 8),
  rx_payload_width       |-> Bits(RX_PW, 1, 256),
  tx_payload_width       |-> Bits(TX_PW, 1, 256),
  output_clock_frequency |-> Bits(CONF3, 1, 4),
  output_clock           |-> Bits(CONF3, 4, 2),
  crystal_frequency      |-> Bits(CONF3, 8, 8),
  crc                    |-> Bits(CONF3, 64, 2),
  crc_mode               |-> Bits(CONF3, 128, 2)]
Name == DOMAIN Field \union {"frequency", "rx_address"}

-----------------------------------------------------------------------------
(* The setters and getters of the driver.                                  *)

Extract(c, f) == (c[f.reg] \div f.unit) % f.size
InsertOver(c, f, v) ==
  [c EXCEPT ![f.reg] = @ + (IF v > Extract(c, f) THEN v - Extract(c, f) ELSE 0) * f.unit]
Insert(c, f, v) == [c EXCEPT ![f.reg] = @ + (v - Extract(c, f)) * f.unit]

Get(c, name) ==
  CASE name = "frequency" -> c[CH_NO] + 256 * Extract(c, CH_NO_8)
    [] name = "rx_address" -> c[RX_ADDRESS]
    [] OTHER -> Extract(c, Field[name])
Set(c, name, v) ==
  CASE name = "frequency" -> Insert([c EXCEPT ![CH_NO] = v % 256], CH_NO_8, v \div 256)
    [] name = "rx_address" -> [c EXCEPT ![RX_ADDRESS] = v]
    [] OTHER -> Insert(c, Field[name], v)
Meaning(c) == [name \in Name |-> Get(c, name)]

\* Status 4: nothing is set.
TooLarge(name, v) ==
  \/ name = "frequency" /\ v > 511
  \/ name \in {"rx_payload_width", "tx_payload_width"} /\ v > 32

\* In tenths of a megahertz, for the band that is staged.
FrequencyToRegister(c, mhz) == mhz \div (1 + Extract(c, Field.pll_mode)) - 4224

Default == <<108, 0, 68, 32, 32, "E7E7E7E7", 231>>

TypeOK ==
  /\ \A r \in Register \ {RX_ADDRESS} : conf[r] \in 0..255 /\ regs[r] \in 0..255
  /\ open \subseteq {"spi", "pwr_up", "ce", "tx_en"}
  /\ pins \in [{"PWR_UP", "CE", "TX_EN"} -> BOOLEAN]
  /\ {inited, stuck, torn} \subseteq BOOLEAN
  /\ at \in -2..40 /\ result \in {"none", "ok", "failed"}
  /\ DOMAIN meant = Name /\ DOMAIN asked = Name

Init ==
  /\ conf = Default /\ inited = FALSE /\ open = {}
  /\ pins = [p \in {"PWR_UP", "CE", "TX_EN"} |-> FALSE]
  /\ regs = Default /\ txAddress = "E7E7E7E7"
  /\ at = 0 /\ result = "none" /\ stuck = FALSE /\ torn = FALSE
  /\ meant = Meaning(Default) /\ asked = meant

-----------------------------------------------------------------------------
(* nrf905_init and nrf905_deinit.                                          *)

Order == <<"spi", "pwr_up", "ce", "tx_en">>
From(k) == {Order[j] : j \in k..4}

NrfInit ==
  /\ at = 0 /\ at' = 1
  /\ open' = From(1)
  /\ conf' = Default /\ inited' = TRUE /\ meant' = Meaning(Default)
  /\ UNCHANGED <<pins, chip, result, stuck>>

\* The k-th part cannot be initialised: those before it are released again,
\* and whether that succeeds is not looked at.
NrfInitFails ==
  /\ at = 0 /\ PinsFail
  /\ \E k \in 1..4 : open' \in SUBSET (From(1) \ From(k))
  /\ stuck' = (open' # {})
  /\ at' = -1 /\ result' = "failed"
  /\ UNCHANGED <<handle, pins, chip, meant>>

PowerDown == [pins EXCEPT !["PWR_UP"] = FALSE]
Deinit ==
  /\ at = -2
  /\ pins' = PowerDown
  /\ open' = {} /\ inited' = FALSE
  /\ at' = -1 /\ result' = "failed"
  /\ UNCHANGED <<conf, chip, stuck, meant>>

\* The power-down or the release of the k-th part is refused: the handle stays
\* as it is.  The bus of the node is the only one that can refuse there.
DeinitFails ==
  /\ at = -2
  /\ \E k \in 0..4 :
       /\ k # 1 => PinsFail
       /\ pins' = IF k = 0 THEN pins ELSE PowerDown
       /\ open' = IF k = 0 THEN open ELSE From(k)
  /\ stuck' = TRUE
  /\ at' = -1 /\ result' = "failed"
  /\ UNCHANGED <<handle, chip, meant>>

-----------------------------------------------------------------------------
(* The steps of nrf905_device_init.                                        *)

Pin(pin, level) == [kind |-> "pin", pin |-> pin, level |-> level]
Setter(name) == [kind |-> "set", name |-> name]
Setters == <<
  Setter("pll_mode"), Setter("output_power"), Setter("rx_mode"), Setter("auto_retransmit"),
  Setter("rx_address_width"), Setter("tx_address_width"), Setter("rx_payload_width"),
  Setter("tx_payload_width"), Setter("rx_address"), Setter("output_clock_frequency"),
  Setter("output_clock"), Setter("crystal_frequency"), Setter("crc"), Setter("crc_mode"),
  Setter("frequency")>>
Start == IF Pulses THEN <<Pin("PWR_UP", TRUE), Pin("CE", TRUE), Pin("CE", FALSE)>>
                   ELSE <<Pin("PWR_UP", TRUE), Pin("CE", FALSE)>>
Finish == IF Mode = "RX" THEN <<Pin("TX_EN", FALSE), Pin("CE", TRUE)>> ELSE <<>>
WriteFirst == Start \o <<[kind |-> "write"]>> \o Setters \o Finish
Steps == Start \o Setters \o <<[kind |-> "write"]>> \o Finish

\* A write sends the first n bytes before it ends, all of them when it succeeds.
Send(n) == regs' = [r \in Register |-> IF r <= n THEN conf[r] ELSE regs[r]]
WriteConf == Send(7) /\ torn' = FALSE /\ asked' = meant /\ UNCHANGED txAddress
WriteConfFails ==
  (\E n \in 0..7 : Send(n)) /\ torn' = TRUE /\ UNCHANGED <<txAddress, asked>>

Wanted(name) ==
  IF name = "frequency" THEN FrequencyToRegister(conf, Header.frequency) ELSE Header[name]
SetField(name, v) == conf' = Set(conf, name, v) /\ meant' = [meant EXCEPT ![name] = v]

Step ==
  /\ at > 0
  /\ LET s == Steps[at] IN
     \/ s.kind = "pin" /\ pins' = [pins EXCEPT ![s.pin] = s.level]
        /\ UNCHANGED <<conf, chip, meant>>
     \/ s.kind = "set" /\ SetField(s.name, Wanted(s.name)) /\ UNCHANGED <<pins, chip>>
     \/ s.kind = "write" /\ WriteConf /\ UNCHANGED <<conf, pins, meant>>
  /\ IF at = Len(Steps) THEN at' = -1 /\ result' = "ok" ELSE at' = at + 1 /\ UNCHANGED result
  /\ UNCHANGED <<inited, open, stuck>>

GiveUpOpen == at' = -1 /\ result' = "failed" /\ inited' = FALSE
GiveUp == at' = -2 /\ UNCHANGED <<result, inited>>
StepFails ==
  /\ at > 0
  /\ \/ Steps[at].kind = "pin" /\ PinsFail /\ UNCHANGED chip
     \/ Steps[at].kind = "write" /\ WriteConfFails
  /\ GiveUp
  /\ UNCHANGED <<conf, open, pins, stuck, meant>>

DeviceInit == NrfInit \/ NrfInitFails \/ Step \/ StepFails \/ Deinit \/ DeinitFails

-----------------------------------------------------------------------------
(* Calls afterwards, which a handle that is not initialised refuses.       *)

Callable == at = -1 /\ inited

SetTxAddress ==
  /\ Callable
  /\ txAddress' \in {TxAddress, "torn"}
  /\ UNCHANGED <<handle, open, pins, regs, torn, asked, at, result, stuck, meant>>

UserSets(name, v) ==
  /\ Callable
  /\ IF TooLarge(name, v) THEN UNCHANGED <<conf, meant>> ELSE SetField(name, v)
  /\ UNCHANGED <<inited, open, pins, chip, at, result, stuck>>

UserWrites ==
  /\ Callable /\ Writes
  /\ WriteConf \/ WriteConfFails
  /\ UNCHANGED <<handle, open, pins, at, result, stuck, meant>>

\* The command byte carries the power, the band and the ninth bit of the
\* channel, which the chip takes over; the handle is left as it is.
Channel(freq, band, power) == power * 4 + band * 2 + freq \div 256
TakesChannel(freq, band, power) ==
  [regs EXCEPT ![CH_NO] = freq % 256,
               ![CONF1] = (@ \div 16) * 16 + Channel(freq, band, power)]
ChannelConfig(freq, band, power) ==
  /\ Callable /\ Writes /\ ~TooLarge("frequency", freq)
  /\ \/ /\ regs' = TakesChannel(freq, band, power)
        /\ asked' = [asked EXCEPT !.frequency = freq, !.pll_mode = band,
                                  !.output_power = power]
        /\ UNCHANGED torn
     \/ /\ regs' \in {regs, TakesChannel(freq, band, power)}
        /\ torn' = TRUE /\ UNCHANGED asked
  /\ UNCHANGED <<handle, open, pins, txAddress, at, result, stuck, meant>>

User ==
  \/ SetTxAddress \/ UserWrites
  \/ \E name \in Settable : \E v \in Values[name] : UserSets(name, v)
  \/ \E freq \in Values.frequency, band \in {0, 1}, power \in Values.output_power :
       ChannelConfig(freq, band, power)

Next == DeviceInit \/ User

Spec == Init /\ [][Next]_vars

-----------------------------------------------------------------------------
(* Properties.                                                             *)

\* Setters in any order, refused values included, change the field they are for
\* and no other one of the same byte: every getter returns what was last set.  And
\* the chip holds what was last sent to it, by the register or by the short
\* command, whose packing of three fields differs, unless a write was cut off.
ConfigurationKept ==
  /\ Meaning(conf) = meant
  /\ ~torn => Meaning(regs) = asked

\* An initialisation that fails at any step leaves nothing behind: the chip is
\* powered down, bus and pins are released and the handle refuses calls, unless
\* the interface refuses one of these in turn; a chip that stays powered even
\* then still has its bus and a handle that accepts calls.
FailureReleases ==
  result = "failed" =>
    /\ ~stuck => ~pins["PWR_UP"] /\ open = {} /\ ~inited
    /\ pins["PWR_UP"] => inited /\ "spi" \in open
=============================================================================
