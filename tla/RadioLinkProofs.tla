-------------------------- MODULE RadioLinkProofs --------------------------
(***************************************************************************)
(* What is proved about the radio link: the three encodings return what    *)
(* went into them, for bytes of 1, 2, 4 and 8 bits, any number of channels *)
(* and every word and time; both boards keep their configuration and       *)
(* release what a failed initialisation had opened; the two ends agree.    *)
(* And, of the SPI calls under it, what a call may rely on whatever        *)
(* completions, errors, timeouts and refused starts came before.           *)
(***************************************************************************)
EXTENDS RadioLink, SpiBus, TLAPS

(***************************************************************************)
(* The encodings.                                                          *)
(***************************************************************************)

LEMMA Bases == Base \in Nat /\ Base > 1 /\ Base \in {2, 4, 16, 256}
BY FrameCodecAssumption

LEMMA Limits ==
  /\ WordLimit \in Nat \ {0} /\ WordLimit = Base * Base /\ WordLimit >= 4
  /\ Half \in Nat \ {0} /\ WordLimit = 2 * Half
  /\ TickLimit \in Nat \ {0} /\ TickLimit = (Base * Base) * (Base * Base)
<1>1. WordLimit \in Nat \ {0} /\ WordLimit = Base * Base /\ WordLimit >= 4
  BY Bases, SMTT(20) DEF WordLimit
<1>2. WordLimit \in {4, 16, 256, 65536}
  BY Bases, SMTT(20) DEF WordLimit
<1>3. Half \in Nat \ {0} /\ WordLimit = 2 * Half
  BY <1>2, SMTT(20) DEF Half
<1>4. TickLimit \in Nat /\ TickLimit = (Base * Base) * (Base * Base)
  BY <1>1 DEF TickLimit
<1>5. TickLimit # 0
  BY <1>1, SMTT(20) DEF TickLimit
<1>. QED
  BY <1>1, <1>3, <1>4, <1>5

LEMMA Quotient ==
  ASSUME NEW n \in Nat \ {0}, NEW t \in Int, NEW q \in Int, NEW r \in Int,
         0 <= r, r < n, t = n * q + r
  PROVE  t \div n = q /\ t % n = r
BY SMTT(20)

LEMMA Division ==
  ASSUME NEW t \in Nat
  PROVE  \E q \in Nat, r \in Byte :
           t = Base * q + r /\ t \div Base = q /\ t % Base = r
<1>. DEFINE q == t \div Base  r == t % Base
<1>1. /\ q \in Nat /\ r \in Nat /\ r < Base
      /\ t = Base * q + r
  <2>1. CASE Base = 2
    BY <2>1, SMTT(20)
  <2>2. CASE Base = 4
    BY <2>2, SMTT(20)
  <2>3. CASE Base = 16
    BY <2>3, SMTT(20)
  <2>4. CASE Base = 256
    BY <2>4, SMTT(20)
  <2>. QED
    BY <2>1, <2>2, <2>3, <2>4, Bases
<1>2. t \div Base = q /\ t % Base = r
  OBVIOUS
<1>. HIDE DEF q, r
<1>3. r \in Byte
  BY <1>1, Bases DEF Byte
<1>. QED
  BY <1>1, <1>2, <1>3

\* The bytes of a word are bytes, and converted give the word.
LEMMA WordBytes ==
  ASSUME NEW w \in Int16
  PROVE  /\ Msb(w) \in Byte /\ Lsb(w) \in Byte
         /\ ConvToI16(Msb(w), Lsb(w)) = w
<1>. DEFINE u == w % WordLimit
<1>1. w \in Int /\ 0 - Half <= w /\ w < Half
  BY Limits DEF Int16
<1>2. u = IF w >= 0 THEN w ELSE w + WordLimit
  <2>1. CASE w >= 0
    <3>1. w = WordLimit * 0 + w /\ w < WordLimit
      BY <1>1, <2>1, Limits
    <3>. QED
      BY <1>1, <2>1, <3>1, Limits, Quotient
  <2>2. CASE w < 0
    <3>1. w = WordLimit * (0 - 1) + (w + WordLimit)
      BY <1>1, Limits
    <3>2. w + WordLimit \in Int /\ 0 <= w + WordLimit /\ w + WordLimit < WordLimit
      BY <1>1, <2>2, Limits
    <3>3. 0 - 1 \in Int /\ WordLimit \in Nat \ {0}
      BY Limits
    <3>4. w % WordLimit = w + WordLimit
      BY <1>1, <3>1, <3>2, <3>3, Quotient
    <3>. QED
      BY <1>1, <2>2, <3>4
  <2>. QED
    BY <1>1, <2>1, <2>2
<1>3. u \in Nat /\ u < Base * Base
  BY <1>1, <1>2, Limits
<1>. HIDE DEF u
<1>4. PICK q \in Nat, r \in Byte :
        u = Base * q + r /\ u \div Base = q /\ u % Base = r
  BY <1>3, Division
<1>5. r \in Nat /\ r < Base
  BY Bases DEF Byte
<1>6. q < Base
  BY <1>3, <1>4, <1>5, Bases, SMTT(20)
<1>7. u \div Base = q /\ u % Base = r /\ u \div 1 = u /\ q % Base = q
  <2>1. q = Base * 0 + q
    BY Bases
  <2>. QED
    BY <1>3, <1>4, <1>5, <1>6, <2>1, Bases, Quotient
<1>8. Msb(w) = q /\ Lsb(w) = r
  BY <1>7 DEF Msb, Lsb, Digit, u
<1>9. q \in Byte
  BY <1>6, Bases DEF Byte
<1>10. ConvToI16(q, r) = IF u >= Half THEN u - WordLimit ELSE u
  <2>1. q * Base + r = u
    BY <1>4, <1>5, Bases
  <2>. QED
    BY <2>1 DEF ConvToI16
<1>11. ConvToI16(q, r) = w
  BY <1>1, <1>2, <1>3, <1>10, Limits
<1>. QED
  BY <1>8, <1>9, <1>11

\* The bytes of a time are bytes, and put together give the time.
LEMMA TimeBytes ==
  ASSUME NEW t \in UInt32
  PROVE  /\ Digit(t, Base * Base * Base) \in Byte /\ Digit(t, Base * Base) \in Byte
         /\ Digit(t, Base) \in Byte /\ Digit(t, 1) \in Byte
         /\ TimeOf(Digit(t, Base * Base * Base), Digit(t, Base * Base), Digit(t, Base), Digit(t, 1)) = t
<1>1. t \in Nat /\ t < (Base * Base) * (Base * Base)
  BY Limits DEF UInt32
<1>2. PICK q1 \in Nat, r0 \in Byte :
        t = Base * q1 + r0 /\ t \div Base = q1 /\ t % Base = r0
  BY <1>1, Division
<1>3. PICK q2 \in Nat, r1 \in Byte :
        q1 = Base * q2 + r1 /\ q1 \div Base = q2 /\ q1 % Base = r1
  BY Division
<1>4. PICK q3 \in Nat, r2 \in Byte :
        q2 = Base * q3 + r2 /\ q2 \div Base = q3 /\ q2 % Base = r2
  BY Division
<1>. DEFINE s1 == Base * r1 + r0  s2 == Base * Base * r2 + s1
<1>5. /\ r0 \in Nat /\ r0 < Base /\ r1 \in Nat /\ r1 < Base /\ r2 \in Nat /\ r2 < Base
  BY Bases DEF Byte
<1>6. /\ Base * Base \in Nat \ {0} /\ s1 \in Nat /\ s1 < Base * Base
      /\ t = (Base * Base) * q2 + s1
  BY <1>2, <1>3, <1>5, Bases, SMTT(20)
<1>7. /\ Base * Base * Base \in Nat \ {0} /\ s2 \in Nat /\ s2 < Base * Base * Base
      /\ t = (Base * Base * Base) * q3 + s2
  BY <1>2, <1>3, <1>4, <1>5, Bases, SMTT(20)
<1>8. q3 < Base
  BY <1>1, <1>7, Bases, SMTT(20)
<1>. HIDE DEF s1, s2
<1>9. t \div (Base * Base) = q2
  BY <1>1, <1>6, Quotient
<1>9a. t \div (Base * Base * Base) = q3
  BY <1>1, <1>7, Quotient
<1>10. t \div 1 = t
  <2>1. t = 1 * t + 0
    BY <1>1
  <2>. QED
    BY <1>1, <2>1, Quotient
<1>11. q3 % Base = q3
  <2>1. Base \in Nat \ {0} /\ q3 = Base * 0 + q3
    BY Bases
  <2>. QED
    BY <1>8, <2>1, Quotient
<1>12. /\ Digit(t, Base * Base * Base) = q3 /\ Digit(t, Base * Base) = r2
       /\ Digit(t, Base) = r1 /\ Digit(t, 1) = r0
  BY <1>2, <1>3, <1>4, <1>9, <1>9a, <1>10, <1>11 DEF Digit
<1>13. q3 \in Byte
  BY <1>8, Bases DEF Byte
<1>14. TimeOf(q3, r2, r1, r0) = t
  BY <1>2, <1>3, <1>4, <1>5, Bases, SMTT(20) DEF TimeOf
<1>. QED
  BY <1>12, <1>13, <1>14

\* Every byte of a packet and of a memory image is a byte.
LEMMA Indices ==
  /\ \A k \in 1..DataLen : ChannelOf(k) \in Channel
  /\ \A c \in Channel : /\ 2 * c - 1 \in 1..DataLen /\ 2 * c \in 1..DataLen
                        /\ IsFirst(2 * c - 1) /\ ~IsFirst(2 * c)
                        /\ ChannelOf(2 * c - 1) = c /\ ChannelOf(2 * c) = c
  /\ DataLen \in Nat /\ PayloadLen = DataLen + 4
BY FrameCodecAssumption DEF DataLen, PayloadLen, Channel, ChannelOf, IsFirst

LEMMA PacketBytes ==
  ASSUME NEW data \in [Channel -> Int16], NEW t \in UInt32
  PROVE  /\ Packet(data, t) \in Frame
         /\ ParsePayload(Packet(data, t)) = [data |-> data, timestamp |-> t]
<1>. DEFINE p == Packet(data, t)
<1>1. \A c \in Channel : p[2 * c - 1] = Msb(data[c]) /\ p[2 * c] = Lsb(data[c])
  BY Indices DEF Packet
<1>2. /\ p[DataLen + 1] = Digit(t, Base * Base * Base) /\ p[DataLen + 2] = Digit(t, Base * Base)
      /\ p[DataLen + 3] = Digit(t, Base) /\ p[DataLen + 4] = Digit(t, 1)
  BY Indices DEF Packet
<1>3. ASSUME NEW k \in 1..PayloadLen PROVE p[k] \in Byte
  <2>1. CASE k <= DataLen
    <3>1. k \in 1..DataLen
      BY <2>1, Indices
    <3>2. data[ChannelOf(k)] \in Int16
      BY <3>1, Indices
    <3>3. Msb(data[ChannelOf(k)]) \in Byte /\ Lsb(data[ChannelOf(k)]) \in Byte
      BY <3>2, WordBytes
    <3>. QED  BY <2>1, <3>3 DEF Packet
  <2>2. CASE ~(k <= DataLen)
    BY <2>2, TimeBytes DEF Packet
  <2>. QED  BY <2>1, <2>2
<1>4. p \in Frame
  BY <1>3 DEF Packet, Frame
<1>5. [c \in Channel |-> ConvToI16(p[2 * c - 1], p[2 * c])] = data
  <2>1. ASSUME NEW c \in Channel PROVE ConvToI16(p[2 * c - 1], p[2 * c]) = data[c]
    <3>. HIDE DEF p
    <3>. QED  BY <1>1, WordBytes
  <2>. HIDE DEF p
  <2>. QED  BY <2>1
<1>6. ConvTimestamp(p) = t
  <2>. HIDE DEF p
  <2>. QED  BY <1>2, TimeBytes DEF ConvTimestamp
<1>. HIDE DEF p
<1>7. ParsePayload(p) = [data |-> data, timestamp |-> t]
  BY <1>5, <1>6 DEF ParsePayload
<1>. QED
  BY <1>4, <1>7 DEF p

\* What the server unpacks from the memory image of the struct is the struct.
LEMMA MemoryBytes ==
  ASSUME NEW v \in Values
  PROVE  Memory(v) \in Frame /\ Unpack(Memory(v)) = v
<1>. DEFINE m == Memory(v)
<1>0. v.data \in [Channel -> Int16] /\ v.timestamp \in UInt32
  BY DEF Values
<1>1. \A c \in Channel : m[2 * c - 1] = Lsb(v.data[c]) /\ m[2 * c] = Msb(v.data[c])
  BY Indices DEF Memory
<1>2. /\ m[DataLen + 1] = Digit(v.timestamp, 1) /\ m[DataLen + 2] = Digit(v.timestamp, Base)
      /\ m[DataLen + 3] = Digit(v.timestamp, Base * Base)
      /\ m[DataLen + 4] = Digit(v.timestamp, Base * Base * Base)
  BY Indices DEF Memory
<1>3. ASSUME NEW k \in 1..PayloadLen PROVE m[k] \in Byte
  <2>1. CASE k <= DataLen
    <3>1. k \in 1..DataLen
      BY <2>1, Indices
    <3>2. v.data[ChannelOf(k)] \in Int16
      BY <1>0, <3>1, Indices
    <3>3. Msb(v.data[ChannelOf(k)]) \in Byte /\ Lsb(v.data[ChannelOf(k)]) \in Byte
      BY <3>2, WordBytes
    <3>. QED  BY <2>1, <3>3 DEF Memory
  <2>2. CASE ~(k <= DataLen)
    BY <1>0, <2>2, TimeBytes DEF Memory
  <2>. QED  BY <2>1, <2>2
<1>4. m \in Frame
  BY <1>3 DEF Memory, Frame
<1>5. [c \in Channel |-> ConvToI16(m[2 * c], m[2 * c - 1])] = v.data
  <2>1. ASSUME NEW c \in Channel PROVE ConvToI16(m[2 * c], m[2 * c - 1]) = v.data[c]
    <3>. HIDE DEF m
    <3>. QED  BY <1>0, <1>1, WordBytes
  <2>. HIDE DEF m
  <2>. QED  BY <1>0, <2>1
<1>6. TimeOf(m[DataLen + 4], m[DataLen + 3], m[DataLen + 2], m[DataLen + 1]) = v.timestamp
  <2>. HIDE DEF m
  <2>. QED  BY <1>0, <1>2, TimeBytes
<1>. HIDE DEF m
<1>7. Unpack(m) = v
  BY <1>5, <1>6 DEF Unpack, Values
<1>. QED
  BY <1>4, <1>7 DEF m

-----------------------------------------------------------------------------
(* The invariant: each stage holds an encoding of what is meant.           *)

Encoded ==
  /\ at = "air" => frame = Packet(meant.data, meant.timestamp)
  /\ at = "parsed" => parsed = meant
  /\ at = "wire" => datagram = Memory(meant)
  /\ at = "server" => got = meant
IInv == TypeOK /\ Encoded

LEMMA Constants ==
  0 \in Byte /\ 0 \in Int16 /\ 0 \in UInt32
BY Bases, Limits DEF Byte, Int16, UInt32

LEMMA Empty ==
  NoBytes \in Frame /\ Nothing \in Values /\ Zeros \in [Channel -> Int16]
BY Constants DEF NoBytes, Frame, Nothing, Values, Zeros

LEMMA InitEstablishes == Init => IInv
BY Empty DEF Init, IInv, TypeOK, Encoded

LEMMA StepPreserves == IInv /\ [Next]_vars => IInv'
<1>. SUFFICES ASSUME IInv, [Next]_vars PROVE IInv'
  OBVIOUS
<1>. USE DEF IInv, TypeOK, Encoded
<1>1. ASSUME NEW data \in [Channel -> SampleWords], NEW t \in SampleTicks, Transmit(data, t)
      PROVE  IInv'
  <2>1. data \in [Channel -> Int16] /\ t \in UInt32
    BY FrameCodecAssumption
  <2>2. Packet(data, t) \in Frame
    BY <2>1, PacketBytes
  <2>3. meant' \in Values /\ meant'.data = data /\ meant'.timestamp = t
    BY <1>1, <2>1 DEF Transmit, Values
  <2>. QED
    BY <1>1, <2>2, <2>3 DEF Transmit
<1>2. CASE Receive
  <2>1. meant.data \in [Channel -> Int16] /\ meant.timestamp \in UInt32
        /\ meant = [data |-> meant.data, timestamp |-> meant.timestamp]
    BY DEF Values
  <2>2. ParsePayload(frame) = meant
    BY <1>2, <2>1, PacketBytes DEF Receive
  <2>. QED
    BY <1>2, <2>2, Empty DEF Receive
<1>3. CASE TimeOut
  <2>1. /\ ClearData = [data |-> Zeros, timestamp |-> parsed.timestamp]
        /\ ClearData \in Values
    BY Empty DEF ClearData, Values
  <2>. QED
    BY <1>3, <2>1 DEF TimeOut
<1>4. CASE SendTo
  BY <1>4, MemoryBytes DEF SendTo
<1>5. CASE Parse
  BY <1>5, MemoryBytes, Empty DEF Parse
<1>6. CASE Leaves
  BY <1>6, Empty DEF Leaves
<1>7. CASE UNCHANGED vars
  BY <1>7 DEF vars
<1>. QED
  BY <1>1, <1>2, <1>3, <1>4, <1>5, <1>6, <1>7 DEF Next

LEMMA CodecTypes == Spec => []TypeOK
<1>1. IInv => TypeOK
  BY DEF IInv
<1>. QED
  BY <1>1, InitEstablishes, StepPreserves, PTL DEF Spec

LEMMA CodecReads == Spec => []ServerReadsWhatWasMeant
<1>1. IInv => ServerReadsWhatWasMeant
  BY DEF IInv, Encoded, ServerReadsWhatWasMeant
<1>. QED
  BY <1>1, InitEstablishes, StepPreserves, PTL DEF Spec

-----------------------------------------------------------------------------
(* What is proved of one nRF905, for both of them.  An operator of         *)
(* NodeSide is the one of Node by another name.                            *)

NodeSide == INSTANCE Nrf905ConfProofs WITH
  Header <- NodeHeader, TxAddress <- "F312B29F", Mode <- "TX", Pulses <- TRUE,
  PinsFail <- FALSE, Settable <- NodeFields, Values <- ByHandValues, Writes <- FALSE,
  conf <- n_conf, inited <- n_inited, open <- n_open, pins <- n_pins, regs <- n_regs,
  txAddress <- n_txAddress, at <- n_at, result <- n_result, stuck <- n_stuck,
  torn <- n_torn, meant <- n_meant, asked <- n_asked

GatewaySide == INSTANCE Nrf905ConfProofs WITH
  Header <- GatewayHeader, TxAddress <- "F7E7E7E2", Mode <- "RX", Pulses <- FALSE,
  PinsFail <- TRUE, Settable <- ChannelFields, Values <- ByHandValues, Writes <- TRUE,
  conf <- g_conf, inited <- g_inited, open <- g_open, pins <- g_pins, regs <- g_regs,
  txAddress <- g_txAddress, at <- g_at, result <- g_result, stuck <- g_stuck,
  torn <- g_torn, meant <- g_meant, asked <- g_asked

\* The fields, their getters and their setters.
LEMMA SameNodeFields ==
  /\ Node!Field = NodeSide!Field /\ Node!Name = NodeSide!Name
  /\ \A c : Node!Meaning(c) = NodeSide!Meaning(c)
  /\ \A c, name, v : Node!Set(c, name, v) = NodeSide!Set(c, name, v)
  /\ \A name, v : Node!TooLarge(name, v) <=> NodeSide!TooLarge(name, v)
<1>1. /\ Node!Field = NodeSide!Field /\ Node!CH_NO_8 = NodeSide!CH_NO_8
      /\ Node!CH_NO = NodeSide!CH_NO /\ Node!RX_ADDRESS = NodeSide!RX_ADDRESS
  BY DEF Node!Field, NodeSide!Field, Node!Bits, NodeSide!Bits, Node!CH_NO_8,
     NodeSide!CH_NO_8,
     Node!CH_NO, NodeSide!CH_NO, Node!CONF1, NodeSide!CONF1, Node!CONF2, NodeSide!CONF2,
     Node!RX_PW, NodeSide!RX_PW, Node!TX_PW, NodeSide!TX_PW, Node!RX_ADDRESS,
     NodeSide!RX_ADDRESS, Node!CONF3, NodeSide!CONF3
<1>2. Node!Name = NodeSide!Name
  BY <1>1 DEF Node!Name, NodeSide!Name
<1>3. \A c, f, v : /\ Node!Extract(c, f) = NodeSide!Extract(c, f)
                    /\ Node!Insert(c, f, v) = NodeSide!Insert(c, f, v)
  BY DEF Node!Extract, NodeSide!Extract, Node!Insert, NodeSide!Insert
<1>4. \A c, name : Node!Get(c, name) = NodeSide!Get(c, name)
  BY <1>1, <1>3 DEF Node!Get, NodeSide!Get
<1>5. \A c : Node!Meaning(c) = NodeSide!Meaning(c)
  BY <1>2, <1>4 DEF Node!Meaning, NodeSide!Meaning
<1>6. \A c, name, v : Node!Set(c, name, v) = NodeSide!Set(c, name, v)
  BY <1>1, <1>3 DEF Node!Set, NodeSide!Set
<1>7. \A name, v : Node!TooLarge(name, v) <=> NodeSide!TooLarge(name, v)
  BY DEF Node!TooLarge, NodeSide!TooLarge
<1>. QED
  BY <1>1, <1>2, <1>5, <1>6, <1>7

\* The initial states and the properties.
LEMMA SameNodeInit == Node!Init => NodeSide!Init
BY SameNodeFields DEF Node!Init, NodeSide!Init, Node!Default, NodeSide!Default

LEMMA SameNodeProperties ==
  /\ NodeSide!ConfigurationKept => Node!ConfigurationKept
  /\ NodeSide!FailureReleases => Node!FailureReleases
BY SameNodeFields DEF Node!ConfigurationKept, NodeSide!ConfigurationKept,
   Node!FailureReleases,
   NodeSide!FailureReleases

\* The steps: the address, the initialisation, the calls by hand.
LEMMA SameNodeCalls ==
  /\ Node!SetTxAddress => NodeSide!SetTxAddress
  /\ UNCHANGED node => UNCHANGED NodeSide!vars
BY DEF node, Node!SetTxAddress, NodeSide!SetTxAddress, Node!Callable, NodeSide!Callable,
   Node!handle,
   NodeSide!handle, Node!vars, NodeSide!vars, Node!chip, NodeSide!chip

LEMMA SameNodeSteps ==
  /\ Node!Steps = NodeSide!Steps
  /\ \A name, v : Node!SetField(name, v) => NodeSide!SetField(name, v)
  /\ \A name : Node!Wanted(name) = NodeSide!Wanted(name)
<1>1. Node!Steps = NodeSide!Steps
  BY DEF Node!Steps, NodeSide!Steps, Node!Start, NodeSide!Start, Node!Setters,
     NodeSide!Setters,
     Node!Finish, NodeSide!Finish, Node!Pin, NodeSide!Pin, Node!Setter, NodeSide!Setter
<1>2. \A name, v : Node!SetField(name, v) => NodeSide!SetField(name, v)
  BY SameNodeFields DEF Node!SetField, NodeSide!SetField
<1>3. \A name : Node!Wanted(name) = NodeSide!Wanted(name)
  BY SameNodeFields DEF Node!Wanted, NodeSide!Wanted, Node!FrequencyToRegister,
     NodeSide!FrequencyToRegister,
     Node!Extract, NodeSide!Extract
<1>. QED
  BY <1>1, <1>2, <1>3

LEMMA SameNodeDeviceInit == Node!DeviceInit => NodeSide!DeviceInit
<1>. USE DEF Node!handle, NodeSide!handle, Node!chip, NodeSide!chip
<1>1. Node!NrfInit => NodeSide!NrfInit
  BY SameNodeFields DEF Node!NrfInit, NodeSide!NrfInit, Node!Default, NodeSide!Default,
     Node!From,
     NodeSide!From, Node!Order, NodeSide!Order
<1>2. Node!NrfInitFails => NodeSide!NrfInitFails
  BY DEF Node!NrfInitFails, NodeSide!NrfInitFails, Node!From, NodeSide!From, Node!Order,
     NodeSide!Order
<1>3. Node!Step => NodeSide!Step
  BY SameNodeSteps DEF Node!Step, NodeSide!Step, Node!WriteConf, NodeSide!WriteConf,
     Node!Send, NodeSide!Send,
     Node!Register, NodeSide!Register
<1>4. Node!StepFails => NodeSide!StepFails
  BY SameNodeSteps DEF Node!StepFails, NodeSide!StepFails, Node!GiveUp, NodeSide!GiveUp,
     Node!WriteConfFails,
     NodeSide!WriteConfFails, Node!Send, NodeSide!Send, Node!Register, NodeSide!Register
<1>5. Node!Deinit \/ Node!DeinitFails => NodeSide!Deinit \/ NodeSide!DeinitFails
  BY DEF Node!Deinit, NodeSide!Deinit, Node!DeinitFails, NodeSide!DeinitFails,
     Node!PowerDown,
     NodeSide!PowerDown, Node!From, NodeSide!From, Node!Order, NodeSide!Order
<1>. QED
  BY <1>1, <1>2, <1>3, <1>4, <1>5 DEF Node!DeviceInit, NodeSide!DeviceInit

LEMMA SameNodeUser == Node!User => NodeSide!User
<1>. USE DEF Node!handle, NodeSide!handle, Node!chip, NodeSide!chip, Node!Callable, NodeSide!Callable
<1>1. Node!UserWrites => NodeSide!UserWrites
  BY DEF Node!UserWrites, NodeSide!UserWrites, Node!WriteConf, NodeSide!WriteConf,
     Node!WriteConfFails, NodeSide!WriteConfFails, Node!Send, NodeSide!Send, Node!Register,
     NodeSide!Register
<1>2. \A name, v : Node!UserSets(name, v) => NodeSide!UserSets(name, v)
  BY SameNodeFields, SameNodeSteps DEF Node!UserSets, NodeSide!UserSets
<1>3. \A freq, band, power : Node!ChannelConfig(freq, band, power)
                             => NodeSide!ChannelConfig(freq, band, power)
  BY SameNodeFields DEF Node!ChannelConfig, NodeSide!ChannelConfig, Node!TakesChannel,
     NodeSide!TakesChannel,
     Node!Channel, NodeSide!Channel, Node!CH_NO, NodeSide!CH_NO, Node!CONF1, NodeSide!CONF1
<1>. QED
  BY <1>1, <1>2, <1>3, SameNodeCalls DEF Node!User, NodeSide!User

\* The fields, their getters and their setters.
LEMMA SameGatewayFields ==
  /\ Gateway!Field = GatewaySide!Field /\ Gateway!Name = GatewaySide!Name
  /\ \A c : Gateway!Meaning(c) = GatewaySide!Meaning(c)
  /\ \A c, name, v : Gateway!Set(c, name, v) = GatewaySide!Set(c, name, v)
  /\ \A name, v : Gateway!TooLarge(name, v) <=> GatewaySide!TooLarge(name, v)
<1>1. /\ Gateway!Field = GatewaySide!Field /\ Gateway!CH_NO_8 = GatewaySide!CH_NO_8
      /\ Gateway!CH_NO = GatewaySide!CH_NO /\ Gateway!RX_ADDRESS = GatewaySide!RX_ADDRESS
  BY DEF Gateway!Field, GatewaySide!Field, Gateway!Bits, GatewaySide!Bits, Gateway!CH_NO_8,
     GatewaySide!CH_NO_8, Gateway!CH_NO, GatewaySide!CH_NO, Gateway!CONF1, GatewaySide!CONF1,
     Gateway!CONF2, GatewaySide!CONF2, Gateway!RX_PW, GatewaySide!RX_PW, Gateway!TX_PW,
     GatewaySide!TX_PW, Gateway!RX_ADDRESS, GatewaySide!RX_ADDRESS, Gateway!CONF3,
     GatewaySide!CONF3
<1>2. Gateway!Name = GatewaySide!Name
  BY <1>1 DEF Gateway!Name, GatewaySide!Name
<1>3. \A c, f, v : /\ Gateway!Extract(c, f) = GatewaySide!Extract(c, f)
                    /\ Gateway!Insert(c, f, v) = GatewaySide!Insert(c, f, v)
  BY DEF Gateway!Extract, GatewaySide!Extract, Gateway!Insert, GatewaySide!Insert
<1>4. \A c, name : Gateway!Get(c, name) = GatewaySide!Get(c, name)
  BY <1>1, <1>3 DEF Gateway!Get, GatewaySide!Get
<1>5. \A c : Gateway!Meaning(c) = GatewaySide!Meaning(c)
  BY <1>2, <1>4 DEF Gateway!Meaning, GatewaySide!Meaning
<1>6. \A c, name, v : Gateway!Set(c, name, v) = GatewaySide!Set(c, name, v)
  BY <1>1, <1>3 DEF Gateway!Set, GatewaySide!Set
<1>7. \A name, v : Gateway!TooLarge(name, v) <=> GatewaySide!TooLarge(name, v)
  BY DEF Gateway!TooLarge, GatewaySide!TooLarge
<1>. QED
  BY <1>1, <1>2, <1>5, <1>6, <1>7

\* The initial states and the properties.
LEMMA SameGatewayInit == Gateway!Init => GatewaySide!Init
BY SameGatewayFields DEF Gateway!Init, GatewaySide!Init, Gateway!Default,
   GatewaySide!Default

LEMMA SameGatewayProperties ==
  /\ GatewaySide!ConfigurationKept => Gateway!ConfigurationKept
  /\ GatewaySide!FailureReleases => Gateway!FailureReleases
BY SameGatewayFields DEF Gateway!ConfigurationKept, GatewaySide!ConfigurationKept,
   Gateway!FailureReleases,
   GatewaySide!FailureReleases

\* The steps: the address, the initialisation, the calls by hand.
LEMMA SameGatewayCalls ==
  /\ Gateway!SetTxAddress => GatewaySide!SetTxAddress
  /\ UNCHANGED gateway => UNCHANGED GatewaySide!vars
BY DEF gateway, Gateway!SetTxAddress, GatewaySide!SetTxAddress, Gateway!Callable,
   GatewaySide!Callable,
   Gateway!handle, GatewaySide!handle, Gateway!vars, GatewaySide!vars, Gateway!chip,
   GatewaySide!chip

LEMMA SameGatewaySteps ==
  /\ Gateway!Steps = GatewaySide!Steps
  /\ \A name, v : Gateway!SetField(name, v) => GatewaySide!SetField(name, v)
  /\ \A name : Gateway!Wanted(name) = GatewaySide!Wanted(name)
<1>1. Gateway!Steps = GatewaySide!Steps
  BY DEF Gateway!Steps, GatewaySide!Steps, Gateway!Start, GatewaySide!Start,
     Gateway!Setters,
     GatewaySide!Setters, Gateway!Finish, GatewaySide!Finish, Gateway!Pin, GatewaySide!Pin,
     Gateway!Setter, GatewaySide!Setter
<1>2. \A name, v : Gateway!SetField(name, v) => GatewaySide!SetField(name, v)
  BY SameGatewayFields DEF Gateway!SetField, GatewaySide!SetField
<1>3. \A name : Gateway!Wanted(name) = GatewaySide!Wanted(name)
  BY SameGatewayFields DEF Gateway!Wanted, GatewaySide!Wanted, Gateway!FrequencyToRegister,
     GatewaySide!FrequencyToRegister, Gateway!Extract, GatewaySide!Extract
<1>. QED
  BY <1>1, <1>2, <1>3

LEMMA SameGatewayDeviceInit == Gateway!DeviceInit => GatewaySide!DeviceInit
<1>. USE DEF Gateway!handle, GatewaySide!handle, Gateway!chip, GatewaySide!chip
<1>1. Gateway!NrfInit => GatewaySide!NrfInit
  BY SameGatewayFields DEF Gateway!NrfInit, GatewaySide!NrfInit, Gateway!Default,
     GatewaySide!Default,
     Gateway!From, GatewaySide!From, Gateway!Order, GatewaySide!Order
<1>2. Gateway!NrfInitFails => GatewaySide!NrfInitFails
  BY DEF Gateway!NrfInitFails, GatewaySide!NrfInitFails, Gateway!From, GatewaySide!From,
     Gateway!Order, GatewaySide!Order
<1>3. Gateway!Step => GatewaySide!Step
  BY SameGatewaySteps DEF Gateway!Step, GatewaySide!Step, Gateway!WriteConf,
     GatewaySide!WriteConf, Gateway!Send,
     GatewaySide!Send, Gateway!Register, GatewaySide!Register
<1>4. Gateway!StepFails => GatewaySide!StepFails
  BY SameGatewaySteps DEF Gateway!StepFails, GatewaySide!StepFails, Gateway!GiveUp,
     GatewaySide!GiveUp,
     Gateway!WriteConfFails, GatewaySide!WriteConfFails, Gateway!Send, GatewaySide!Send,
     Gateway!Register, GatewaySide!Register
<1>5. Gateway!Deinit \/ Gateway!DeinitFails => GatewaySide!Deinit \/ GatewaySide!DeinitFails
  BY DEF Gateway!Deinit, GatewaySide!Deinit, Gateway!DeinitFails, GatewaySide!DeinitFails,
     Gateway!PowerDown, GatewaySide!PowerDown, Gateway!From, GatewaySide!From,
     Gateway!Order,
     GatewaySide!Order
<1>. QED
  BY <1>1, <1>2, <1>3, <1>4, <1>5 DEF Gateway!DeviceInit, GatewaySide!DeviceInit

LEMMA SameGatewayUser == Gateway!User => GatewaySide!User
<1>. USE DEF Gateway!handle, GatewaySide!handle, Gateway!chip, GatewaySide!chip, Gateway!Callable,
   GatewaySide!Callable
<1>1. Gateway!UserWrites => GatewaySide!UserWrites
  BY DEF Gateway!UserWrites, GatewaySide!UserWrites, Gateway!WriteConf,
     GatewaySide!WriteConf,
     Gateway!WriteConfFails, GatewaySide!WriteConfFails, Gateway!Send, GatewaySide!Send,
     Gateway!Register, GatewaySide!Register
<1>2. \A name, v : Gateway!UserSets(name, v) => GatewaySide!UserSets(name, v)
  BY SameGatewayFields, SameGatewaySteps DEF Gateway!UserSets, GatewaySide!UserSets
<1>3. \A freq, band, power : Gateway!ChannelConfig(freq, band, power)
                             => GatewaySide!ChannelConfig(freq, band, power)
  BY SameGatewayFields DEF Gateway!ChannelConfig, GatewaySide!ChannelConfig,
     Gateway!TakesChannel,
     GatewaySide!TakesChannel, Gateway!Channel, GatewaySide!Channel, Gateway!CH_NO,
     GatewaySide!CH_NO, Gateway!CONF1, GatewaySide!CONF1
<1>. QED
  BY <1>1, <1>2, <1>3, SameGatewayCalls DEF Gateway!User, GatewaySide!User

\* What the firmware and the user pass fits, or is refused.
LEMMA NodeCallers == NodeSide!CallersAssumption
<1>. DEFINE V == DOMAIN NodeHeader
<1>1. /\ NodeSide!Name = V
      /\ V = {"pll_mode", "output_power", "rx_mode", "auto_retransmit", "rx_address_width",
                "tx_address_width", "output_clock_frequency", "output_clock",
                "crystal_frequency", "crc", "crc_mode", "frequency", "rx_payload_width",
                "tx_payload_width", "rx_address"}
  BY DEF NodeHeader, With, Common, NodeSide!Name, NodeSide!Field
<1>1a. 4332 \div (1 + 0) - 4224 = 108
  OBVIOUS
<1>2. ASSUME NEW name \in NodeSide!Name PROVE NodeSide!Fits(name, NodeSide!Target(name))
  <2>1. CASE name = "frequency"
    <3>1. NodeSide!Target(name) = 108
      BY <1>1a, <2>1 DEF NodeHeader, With, Common, NodeSide!Target
    <3>2. "frequency" \notin DOMAIN NodeSide!Field
      BY DEF NodeSide!Field
    <3>. QED
      BY <2>1, <3>1, <3>2 DEF NodeSide!Fits
  <2>2. CASE name # "frequency"
    <3>1. NodeSide!Target(name) = NodeHeader[name]
      BY <2>2 DEF NodeSide!Target
    <3>2. name \in DOMAIN NodeSide!Field => NodeHeader[name] \in 0..NodeSide!Field[name].size - 1
      BY <1>1 DEF NodeHeader, With, Common, NodeSide!Field, NodeSide!Bits
    <3>. QED
      BY <2>2, <3>1, <3>2 DEF NodeSide!Fits
  <2>. QED
    BY <2>1, <2>2
<1>3. ASSUME NEW name \in NodeFields, NEW v \in ByHandValues[name]
      PROVE  NodeSide!TooLarge(name, v) \/ NodeSide!Fits(name, v)
  BY <1>1, <1>3 DEF ByHandValues, NodeHeader, With, Common, NodeSide!TooLarge,
     NodeSide!Fits,
     NodeSide!Field, NodeSide!Bits, ChannelFields, NodeFields
<1>4. NodeFields \subseteq NodeSide!Name
  BY <1>1 DEF ChannelFields, NodeFields, NodeHeader, NodeHeader, With
<1>5. ByHandValues.frequency = {256, 511, 512} /\ ByHandValues.output_power = {0, 3}
  BY DEF ByHandValues, NodeHeader, With, Common
<1>6. /\ \A freq \in ByHandValues.frequency :
           NodeSide!TooLarge("frequency", freq) \/ freq \in 0..511
      /\ ByHandValues.output_power \subseteq 0..3
  BY <1>5 DEF NodeSide!TooLarge
<1>. QED
  BY <1>2, <1>3, <1>4, <1>6 DEF NodeSide!CallersAssumption

\* What the firmware and the user pass fits, or is refused.
LEMMA GatewayCallers == GatewaySide!CallersAssumption
<1>. DEFINE V == DOMAIN GatewayHeader
<1>1. /\ GatewaySide!Name = V
      /\ V = {"pll_mode", "output_power", "rx_mode", "auto_retransmit", "rx_address_width",
                "tx_address_width", "output_clock_frequency", "output_clock",
                "crystal_frequency", "crc", "crc_mode", "frequency", "rx_payload_width",
                "tx_payload_width", "rx_address"}
  BY DEF GatewayHeader, With, Common, GatewaySide!Name, GatewaySide!Field
<1>1a. 4332 \div (1 + 0) - 4224 = 108
  OBVIOUS
<1>2. ASSUME NEW name \in GatewaySide!Name PROVE GatewaySide!Fits(name, GatewaySide!Target(name))
  <2>1. CASE name = "frequency"
    <3>1. GatewaySide!Target(name) = 108
      BY <1>1a, <2>1 DEF GatewayHeader, With, Common, GatewaySide!Target
    <3>2. "frequency" \notin DOMAIN GatewaySide!Field
      BY DEF GatewaySide!Field
    <3>. QED
      BY <2>1, <3>1, <3>2 DEF GatewaySide!Fits
  <2>2. CASE name # "frequency"
    <3>1. GatewaySide!Target(name) = GatewayHeader[name]
      BY <2>2 DEF GatewaySide!Target
    <3>2. name \in DOMAIN GatewaySide!Field => GatewayHeader[name] \in 0..GatewaySide!Field[name].size - 1
      BY <1>1 DEF GatewayHeader, With, Common, GatewaySide!Field, GatewaySide!Bits
    <3>. QED
      BY <2>2, <3>1, <3>2 DEF GatewaySide!Fits
  <2>. QED
    BY <2>1, <2>2
<1>3. ASSUME NEW name \in ChannelFields, NEW v \in ByHandValues[name]
      PROVE  GatewaySide!TooLarge(name, v) \/ GatewaySide!Fits(name, v)
  BY <1>1, <1>3 DEF ByHandValues, NodeHeader, With, Common, GatewaySide!TooLarge,
     GatewaySide!Fits,
     GatewaySide!Field, GatewaySide!Bits, ChannelFields, NodeFields
<1>4. ChannelFields \subseteq GatewaySide!Name
  BY <1>1 DEF ChannelFields, NodeFields, NodeHeader, GatewayHeader, With
<1>5. ByHandValues.frequency = {256, 511, 512} /\ ByHandValues.output_power = {0, 3}
  BY DEF ByHandValues, NodeHeader, With, Common
<1>6. /\ \A freq \in ByHandValues.frequency :
           GatewaySide!TooLarge("frequency", freq) \/ freq \in 0..511
      /\ ByHandValues.output_power \subseteq 0..3
  BY <1>5 DEF GatewaySide!TooLarge
<1>. QED
  BY <1>2, <1>3, <1>4, <1>6 DEF GatewaySide!CallersAssumption

-----------------------------------------------------------------------------
(* The two ends.                                                           *)

\* Each end keeps its invariant, and what its initialisation has achieved until
\* its driver is called by hand.
Ends ==
  /\ NodeSide!IInv /\ GatewaySide!IInv
  /\ byHand # "node" => NodeSide!Done
  /\ byHand # "gateway" => GatewaySide!Done

LEMMA InitEnds == LinkInit => Ends
<1>. SUFFICES ASSUME LinkInit PROVE Ends
  OBVIOUS
<1>1. NodeSide!IInv
  BY NodeCallers, SameNodeInit, NodeSide!InitIInv DEF LinkInit
<1>2. GatewaySide!IInv
  BY GatewayCallers, SameGatewayInit, GatewaySide!InitIInv DEF LinkInit
<1>3. NodeSide!Done
  BY DEF LinkInit, Node!Init, NodeSide!Done
<1>4. GatewaySide!Done
  BY DEF LinkInit, Gateway!Init, GatewaySide!Done
<1>. QED
  BY <1>1, <1>2, <1>3, <1>4 DEF Ends

\* What a step of one end does to it.
LEMMA NodeKept ==
  ASSUME NodeSide!IInv
  PROVE  /\ UNCHANGED node => NodeSide!IInv' /\ (NodeSide!Done => NodeSide!Done')
         /\ Node!DeviceInit \/ Node!SetTxAddress
              => NodeSide!IInv' /\ (NodeSide!Done => NodeSide!Done')
         /\ Node!User => NodeSide!IInv'
<1>1. /\ NodeSide!DeviceInit \/ NodeSide!User \/ UNCHANGED NodeSide!vars => NodeSide!IInv'
  BY NodeCallers, NodeSide!NextIInv DEF NodeSide!Next
<1>2. NodeSide!Done /\ (NodeSide!DeviceInit \/ NodeSide!SetTxAddress \/ UNCHANGED NodeSide!vars)
        => NodeSide!Done'
  BY NodeCallers, NodeSide!StaysDone
<1>3. NodeSide!SetTxAddress => NodeSide!User
  BY DEF NodeSide!User
<1>. QED
  BY <1>1, <1>2, <1>3, SameNodeDeviceInit, SameNodeCalls, SameNodeUser

LEMMA GatewayKept ==
  ASSUME GatewaySide!IInv
  PROVE  /\ UNCHANGED gateway => GatewaySide!IInv' /\ (GatewaySide!Done => GatewaySide!Done')
         /\ Gateway!DeviceInit => GatewaySide!IInv' /\ (GatewaySide!Done => GatewaySide!Done')
         /\ Gateway!User => GatewaySide!IInv'
<1>1. GatewaySide!DeviceInit \/ GatewaySide!User \/ UNCHANGED GatewaySide!vars
        => GatewaySide!IInv'
  BY GatewayCallers, GatewaySide!NextIInv DEF GatewaySide!Next
<1>2. GatewaySide!Done /\ (GatewaySide!DeviceInit \/ UNCHANGED GatewaySide!vars)
        => GatewaySide!Done'
  BY GatewayCallers, GatewaySide!StaysDone
<1>. QED
  BY <1>1, <1>2, SameGatewayDeviceInit, SameGatewayCalls, SameGatewayUser

LEMMA EndsStep == Ends /\ [LinkNext]_linkVars => Ends'
<1>. SUFFICES ASSUME Ends, [LinkNext]_linkVars PROVE Ends'
  OBVIOUS
<1>0. NodeSide!IInv /\ GatewaySide!IInv
  BY DEF Ends
<1>1. CASE NodeStarts
  BY <1>0, <1>1, NodeKept, GatewayKept DEF NodeStarts, SetsAddress, Ends
<1>2. CASE GatewayStarts
  BY <1>0, <1>2, NodeKept, GatewayKept DEF GatewayStarts, Ends
<1>3. CASE NodeByHand
  BY <1>0, <1>3, NodeKept, GatewayKept DEF NodeByHand, Ends
<1>4. CASE GatewayByHand
  BY <1>0, <1>4, NodeKept, GatewayKept DEF GatewayByHand, Ends
<1>5. CASE NodeSends \/ GatewayReceives \/ Relays \/ UNCHANGED linkVars
  <2>1. UNCHANGED <<node, gateway, byHand>>
    BY <1>5 DEF NodeSends, GatewayReceives, Relays, links, linkVars
  <2>. QED
    BY <1>0, <2>1, NodeKept, GatewayKept DEF Ends
<1>. QED
  BY <1>1, <1>2, <1>3, <1>4, <1>5 DEF LinkNext

\* The radio link is one more way for the samples to travel: none of its steps
\* does to a sample what the codec does not do.
THEOREM LinkImplementsCodec == LinkSpec => Spec
<1>1. LinkInit => Init
  BY DEF LinkInit
<1>2. [LinkNext]_linkVars => [Next]_vars
  <2>1. NodeStarts \/ GatewayStarts \/ NodeByHand \/ GatewayByHand \/ UNCHANGED linkVars
          => UNCHANGED vars
    BY DEF NodeStarts, GatewayStarts, NodeByHand, GatewayByHand, linkVars
  <2>2. NodeSends \/ GatewayReceives \/ Relays => Next
    BY DEF NodeSends, GatewayReceives, Relays, Next
  <2>. QED
    BY <2>1, <2>2 DEF LinkNext
<1>. QED
  BY <1>1, <1>2, PTL DEF LinkSpec, Spec

\* Words, times and bytes stay in their ranges through all conversions.
THEOREM TypeCorrect == LinkSpec => []TypeOK
BY LinkImplementsCodec, CodecTypes, PTL

\* The server reads what the sensor measured and when the node sent it (or a
\* heartbeat's zeros), for every word, every time and every number of channels.
THEOREM CodecFaithful == LinkSpec => []ServerReadsWhatWasMeant
BY LinkImplementsCodec, CodecReads, PTL

\* On both boards the getters return what was last set, and the chip holds what
\* was last sent to it, whatever the initialisation met and the user calls.
THEOREM ConfigurationsAreKept == LinkSpec => []ConfigurationsKept
<1>1. Ends => ConfigurationsKept
  BY SameNodeProperties, SameGatewayProperties
     DEF Ends, NodeSide!IInv, GatewaySide!IInv, ConfigurationsKept
<1>. QED
  BY <1>1, InitEnds, EndsStep, PTL DEF LinkSpec

\* On both boards an initialisation that fails at any step leaves nothing behind,
\* unless the interface refuses the release in turn.
THEOREM FailuresAlwaysRelease == LinkSpec => []FailuresRelease
<1>1. Ends => FailuresRelease
  BY SameNodeProperties, SameGatewayProperties
     DEF Ends, NodeSide!IInv, GatewaySide!IInv, FailuresRelease
<1>. QED
  BY <1>1, InitEnds, EndsStep, PTL DEF LinkSpec

\* The two headers, each run through its own firmware, give two chips that hear
\* each other: channel, band, checksum, packet format, address and pins.
THEOREM EndsAlwaysAgree == LinkSpec => []EndsAgree
<1>1. Ends => EndsAgree
  <2>. SUFFICES ASSUME Ends, Ready, byHand = "none" PROVE InTouch
    BY DEF EndsAgree
  <2>1. /\ NodeSide!Meaning(n_regs) = [name \in NodeSide!Name |-> NodeSide!Target(name)]
        /\ n_pins["PWR_UP"] /\ ~n_pins["CE"]
    BY NodeCallers, NodeSide!WhenDone DEF Ends, Ready
  <2>2. /\ GatewaySide!Meaning(g_regs) = [name \in GatewaySide!Name |-> GatewaySide!Target(name)]
        /\ g_pins["PWR_UP"] /\ g_pins["CE"] /\ ~g_pins["TX_EN"]
    BY GatewayCallers, GatewaySide!WhenDone DEF Ends, Ready
  <2>. DEFINE n == Node!Meaning(n_regs)  g == Gateway!Meaning(g_regs)
  <2>3. /\ n.frequency = 108 /\ n.pll_mode = 0 /\ n.crc = 1 /\ n.crc_mode = 0
        /\ n.tx_payload_width = 18 /\ n.tx_address_width = 4
    BY <2>1, SameNodeFields
       DEF NodeSide!Name, NodeSide!Field, NodeSide!Target, NodeHeader, With, Common
  <2>4. /\ g.frequency = 108 /\ g.pll_mode = 0 /\ g.crc = 1 /\ g.crc_mode = 0
        /\ g.rx_payload_width = 18 /\ g.rx_address_width = 4 /\ g.rx_address = "F312B29F"
    BY <2>2, SameGatewayFields
       DEF GatewaySide!Name, GatewaySide!Field, GatewaySide!Target, GatewayHeader, With, Common
  <2>. HIDE DEF n, g
  <2>5. \A name \in {"frequency", "pll_mode", "crc", "crc_mode"} : n[name] = g[name]
    BY <2>3, <2>4
  <2>. QED
    BY <2>1, <2>2, <2>3, <2>4, <2>5 DEF Ready, InTouch, n, g
<1>. QED
  BY <1>1, InitEnds, EndsStep, PTL DEF LinkSpec

(***************************************************************************)
(* The SPI calls of the node.                                              *)
(***************************************************************************)

LEMMA SpiInitTyped == SpiInit => SpiTypeOK
<1> SUFFICES ASSUME SpiInit PROVE SpiTypeOK
  OBVIOUS
<1>1. notif \in N!Notification(Bits)
  BY DEF SpiInit, N!Notification, N!States, N!Quiet
<1>2. QED
  BY <1>1 DEF SpiInit, SpiTypeOK, Ops, DmaStates

\* The variables of a call keep their types; in particular every result is one
\* of the two codes (driver_nrf905_interface.c:126-150 and the other two exits).
THEOREM SpiTypeCorrect == SpiSpec => []SpiTypeOK
<1>1. SpiInit => SpiTypeOK
  BY SpiInitTyped
<1>2. SpiTypeOK /\ [SpiNext]_spiVars => SpiTypeOK'
  <2> SUFFICES ASSUME SpiTypeOK, [SpiNext]_spiVars PROVE SpiTypeOK'
    OBVIOUS
  <2> USE DEF SpiTypeOK, DmaStates
  <2>0. ASSUME NEW b \in SUBSET Bits
        PROVE  /\ N!Notify(notif, b) \in N!Notification(Bits)
               /\ N!Block(notif) \in N!Notification(Bits)
               /\ N!GiveUp(notif) \in N!Notification(Bits)
               /\ N!TakeAndClear(notif, b) \in N!Notification(Bits)
               /\ N!ValueClear(notif, b) \in N!Notification(Bits)
               /\ notif.value \subseteq Bits
    BY <2>0 DEF N!Notification, N!States, N!Notify, N!Block, N!GiveUp,
       N!TakeAndClear, N!ValueClear
  <2>1. Bits \subseteq Bits /\ {CPLT} \subseteq Bits /\ {ERROR} \subseteq Bits
    BY DEF Bits
  <2>2. ASSUME NEW o \in Ops, Call(o) PROVE SpiTypeOK'
    BY <2>0, <2>1, <2>2 DEF Call, ClearStale
  <2>3. CASE StartTransfer \/ StartRefused
    BY <2>3 DEF StartTransfer, StartRefused
  <2>4. CASE WaitBlocks \/ WaitReturns \/ WaitTimesOut
    BY <2>0, <2>1, <2>4 DEF WaitBlocks, WaitReturns, WaitTimesOut
  <2>5. CASE Abort
    BY <2>5 DEF Abort, AbortTransfer, Stuck
  <2>6. CASE Finish
    <3>1. Code(op, events) \in {0, 1}
      BY DEF Code
    <3>2. QED
      BY <2>6, <3>1 DEF Finish
  <2>7. CASE TxRxCplt \/ BusError \/ DmaError \/ ResidueEnds
    BY <2>0, <2>1, <2>7 DEF TxRxCplt, BusError, DmaError, ResidueEnds, Callback
  <2>8. CASE UNCHANGED spiVars
    BY <2>8 DEF spiVars
  <2>9. QED
    BY <2>2, <2>3, <2>4, <2>5, <2>6, <2>7, <2>8 DEF SpiNext, Task
<1>3. QED
  BY <1>1, <1>2, PTL DEF SpiSpec

-----------------------------------------------------------------------------

\* How a call stands that no late callback has disturbed, by where it is: the
\* transfer is its own, and one notification tells of its end.
CallInStep ==
  \/ /\ pc \in {"idle", "start"}
     /\ ~Clocking /\ notif = N!Quiet
     /\ pc = "idle" /\ ret = 0 => done /\ (op = "read" => filled)
  \/ /\ pc = "wait" /\ cs = "low" /\ dma = "own" /\ ~residue
     /\ notif = N!Quiet \/ notif = N!Block(N!Quiet)
  \/ /\ pc = "wait" /\ cs = "low" /\ ~Clocking
     /\ \/ notif = N!Notify(N!Quiet, {CPLT}) /\ done /\ ~residue
        \/ notif = N!Notify(N!Quiet, {ERROR})
  \/ pc = "abort" /\ cs = "low" /\ dma = "own" /\ notif = N!Quiet
  \/ /\ pc = "finish" /\ ~Clocking /\ notif = N!Quiet
     /\ (events = {CPLT} /\ done) \/ events = {ERROR}

SpiIInv == SpiTypeOK /\ (~late => CallInStep)

\* One step keeps it, unless the step is the late callback itself.
LEMMA CallInStepStep ==
  SpiTypeOK /\ ~late' /\ (~late => CallInStep) /\ [SpiNext]_spiVars => CallInStep'
<1> SUFFICES ASSUME SpiTypeOK, ~late', ~late => CallInStep, [SpiNext]_spiVars PROVE CallInStep'
  OBVIOUS
<1> USE DEF N!Quiet, N!Block, N!Notify, Clocking
<1>0. ~late /\ CallInStep
  <2>1. CASE \E o \in Ops : Call(o)
    BY <2>1 DEF Call
  <2>2. CASE StartTransfer \/ StartRefused \/ WaitBlocks \/ WaitReturns
    BY <2>2 DEF StartTransfer, StartRefused, WaitBlocks, WaitReturns
  <2>3. CASE WaitTimesOut \/ Abort \/ Finish \/ UNCHANGED spiVars
    BY <2>3 DEF WaitTimesOut, Abort, Finish, spiVars
  <2>4. CASE TxRxCplt \/ BusError \/ DmaError \/ ResidueEnds
    <3>1. late' = (late \/ pc # "wait")
      BY <2>4 DEF TxRxCplt, BusError, DmaError, ResidueEnds, Callback
    <3>2. QED
      BY <3>1
  <2>5. QED
    BY <2>1, <2>2, <2>3, <2>4 DEF SpiNext, Task
<1>b. ASSUME NEW b \in {CPLT, ERROR}, Callback(b) PROVE pc = "wait"
  <2>1. late' = (late \/ pc # "wait")
    BY <1>b DEF Callback
  <2>2. QED
    BY <2>1
<1>a. CPLT # ERROR /\ CPLT # ABORT /\ ERROR # ABORT
  BY DEF CPLT, ERROR, ABORT
<1>1. ASSUME NEW o \in Ops, Call(o) PROVE CallInStep'
  BY <1>0, <1>1 DEF Call, ClearStale, N!ValueClear, CallInStep
<1>2. CASE StartTransfer
  BY <1>0, <1>2 DEF StartTransfer, CallInStep
<1>3. CASE StartRefused
  BY <1>0, <1>3 DEF StartRefused, CallInStep
<1>4. CASE WaitBlocks
  BY <1>0, <1>4 DEF WaitBlocks, CallInStep
<1>5. CASE WaitReturns
  <2>1. notif' = N!Quiet
    BY <1>0, <1>5 DEF WaitReturns, N!TakeAndClear, N!Received, CallInStep, Bits
  <2>2. QED
    BY <1>0, <1>5, <2>1 DEF WaitReturns, N!Received, CallInStep
<1>6. CASE WaitTimesOut
  BY <1>0, <1>6 DEF WaitTimesOut, N!GiveUp, CallInStep
<1>7. CASE Abort
  BY <1>0, <1>7 DEF Abort, AbortTransfer, Stuck, CallInStep
<1>8. CASE Finish
  <2>1. CASE events = {CPLT} /\ done
    BY <1>0, <1>8, <2>1 DEF Finish, CallInStep
  <2>2. CASE events = {ERROR}
    <3>1. ret' = 1
      BY <1>8, <2>2 DEF Finish, Code
    <3>2. QED
      BY <1>0, <1>8, <3>1 DEF Finish, CallInStep
  <2>3. QED
    BY <1>0, <1>8, <2>1, <2>2 DEF Finish, CallInStep
<1>9. CASE TxRxCplt
  <2>1. pc = "wait"
    BY <1>9, <1>b DEF TxRxCplt
  <2>2. QED
    BY <1>0, <1>9, <2>1 DEF TxRxCplt, Callback, CallInStep
<1>10. CASE BusError
  <2>1. pc = "wait"
    BY <1>10, <1>b DEF BusError
  <2>2. QED
    BY <1>0, <1>10, <2>1 DEF BusError, Callback, CallInStep
<1>11. CASE DmaError
  <2>1. pc = "wait"
    BY <1>11, <1>b DEF DmaError
  <2>2. QED
    BY <1>0, <1>11, <2>1 DEF DmaError, Callback, CallInStep
<1>12. CASE ResidueEnds
  <2>1. pc = "wait" /\ residue /\ ~Clocking
    BY <1>12, <1>b DEF ResidueEnds
  <2>2. notif = N!Notify(N!Quiet, {ERROR}) /\ cs = "low"
    BY <1>0, <2>1 DEF CallInStep
  <2>3. notif' = N!Notify(N!Quiet, {ERROR}) /\ cs' = "low" /\ pc' = "wait"
    BY <1>12, <2>1, <2>2 DEF ResidueEnds, Callback
  <2>4. ~Clocking'
    BY <1>12 DEF ResidueEnds
  <2>5. QED
    BY <2>3, <2>4 DEF CallInStep
<1>13. CASE UNCHANGED spiVars
  BY <1>0, <1>13 DEF spiVars, CallInStep
<1>14. QED
  BY <1>1, <1>2, <1>3, <1>4, <1>5, <1>6, <1>7, <1>8, <1>9, <1>10, <1>11, <1>12, <1>13
     DEF SpiNext, Task

THEOREM SpiInductive == SpiSpec => []SpiIInv
<1>1. SpiInit => SpiIInv
  <2> SUFFICES ASSUME SpiInit PROVE CallInStep
    BY SpiInitTyped DEF SpiIInv
  <2>1. QED
    BY DEF SpiInit, CallInStep, Clocking
<1>2. SpiTypeOK /\ SpiTypeOK' /\ SpiIInv /\ [SpiNext]_spiVars => SpiIInv'
  BY CallInStepStep DEF SpiIInv
<1>3. QED
  BY <1>1, <1>2, SpiTypeCorrect, PTL DEF SpiSpec

\* A call reports another call's transfer as its own only after a callback that
\* no call was waiting for (driver_nrf905_interface.c:109-147).
THEOREM SuccessIsHonest == SpiSpec => []SuccessMeansDoneUnlessLate
<1>1. SpiIInv => SuccessMeansDoneUnlessLate
  BY DEF SpiIInv, CallInStep, SuccessMeansDoneUnlessLate, SuccessMeansDone
<1>2. QED
  BY <1>1, SpiInductive, PTL

\* No transfer that clocks bytes and no notification outlives its call, whatever
\* an error left BUSY (driver_nrf905_interface.c:104-118 and the two exits of
\* each entry point).
THEOREM CallLeavesNothing == SpiSpec => []NothingLeftBehind
<1>1. SpiIInv => NothingLeftBehind
  BY DEF SpiIInv, CallInStep, NothingLeftBehind, N!Quiet, Clocking
<1>2. QED
  BY <1>1, SpiInductive, PTL

\* A transfer that still clocks bytes has its chip select
\* (driver_nrf905_interface.c:106, 120, 144), also when a call before it was
\* refused with the bus left BUSY and the select released.
THEOREM SelectStaysLow == SpiSpec => []SelectHeld
<1>1. SpiIInv => SelectHeld
  BY DEF SpiIInv, CallInStep, SelectHeld, Clocking
<1>2. QED
  BY <1>1, SpiInductive, PTL

\* A DMA error that leaves the TX channel BUSY ends all SPI communication: no
\* abort after a timeout (driver_nrf905_interface.c:126) and no later call frees
\* it, and each of them returns 1.
THEOREM DmaErrorIsFinal == SpiSpec => StuckForGood
<1>1. SpiTypeOK /\ [SpiNext]_spiVars
      => [Stuck => Stuck' /\ (pc = "start" /\ pc' # "start" => pc' = "idle" /\ ret' = 1)]_spiVars
  <2> SUFFICES ASSUME SpiTypeOK, SpiNext, Stuck
               PROVE  Stuck' /\ (pc = "start" /\ pc' # "start" => pc' = "idle" /\ ret' = 1)
    BY DEF Stuck, spiVars
  <2> USE DEF Stuck, Clocking
  <2>1. CASE \E o \in Ops : Call(o)
    BY <2>1 DEF Call
  <2>2. CASE StartTransfer \/ StartRefused
    BY <2>2 DEF StartTransfer, StartRefused
  <2>3. CASE WaitBlocks \/ WaitReturns \/ WaitTimesOut
    BY <2>3 DEF WaitBlocks, WaitReturns, WaitTimesOut
  <2>4. CASE Abort \/ Finish
    BY <2>4 DEF Abort, AbortTransfer, Finish
  <2>5. CASE TxRxCplt \/ BusError \/ DmaError
    BY <2>5 DEF TxRxCplt, BusError, DmaError
  <2>6. CASE ResidueEnds
    BY <2>6 DEF ResidueEnds, Callback
  <2>7. QED
    BY <2>1, <2>2, <2>3, <2>4, <2>5, <2>6 DEF SpiNext, Task
<1>2. QED
  BY <1>1, SpiTypeCorrect, PTL DEF SpiSpec, StuckForGood
=============================================================================
