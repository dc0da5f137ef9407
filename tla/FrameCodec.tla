----------------------------- MODULE FrameCodec -----------------------------
(***************************************************************************)
(* One sample on its way through three encodings: the sensor's big-endian  *)
(* words with the node's big-endian time, the gateway's packed struct of   *)
(* native words, and what the server unpacks from the memory image of that *)
(* struct.                                                                 *)
(*                                                                         *)
(* A byte is one of Base values, 256 in the program; a word is two bytes   *)
(* and signed, the time four bytes and unsigned.  Bytes are numbered from  *)
(* 1.  Channels are numbered in the order accel_x .. gyro_z of every       *)
(* struct along the way.                                                   *)
(***************************************************************************)
EXTENDS Integers

CONSTANTS
  Base,        \* the number of values of a byte
  Words,       \* DATA_LEN / 2
  SampleWords, \* the words that are measured (a bound of the model)
  SampleTicks  \* the times at which they are sent (a bound of the model)

WordLimit == Base * Base
Half == WordLimit \div 2
TickLimit == WordLimit * WordLimit

Byte == 0..Base - 1
Int16 == -Half..Half - 1
UInt32 == 0..TickLimit - 1

ASSUME FrameCodecAssumption ==
  /\ Base \in {2, 4, 16, 256} /\ Words \in Nat \ {0}
  /\ SampleWords \subseteq Int16 /\ SampleTicks \subseteq UInt32

DataLen == 2 * Words
PayloadLen == DataLen + 4
Channel == 1..Words
Frame == [1..PayloadLen -> Byte]
Values == [data : [Channel -> Int16], timestamp : UInt32]

VARIABLES
  frame,    \* the 18 bytes of the radio packet
  parsed,   \* parsed_payload of the UDP client, which outlives the packet
  datagram, \* its memory image, sent over UDP
  got,      \* what the server unpacked
  at,       \* where the sample is
  meant     \* the values the datagram under way stands for (a history)

vars == <<frame, parsed, datagram, got, at, meant>>

TypeOK ==
  /\ frame \in Frame /\ datagram \in Frame
  /\ parsed \in Values /\ got \in Values /\ meant \in Values
  /\ at \in {"idle", "air", "parsed", "wire", "server"}

Zeros == [c \in Channel |-> 0]
Nothing == [data |-> Zeros, timestamp |-> 0]
NoBytes == [k \in 1..PayloadLen |-> 0]
Init ==
  /\ frame = NoBytes /\ datagram = NoBytes
  /\ parsed = Nothing /\ got = Nothing /\ meant = Nothing
  /\ at = "idle"

-----------------------------------------------------------------------------
(* Words and times as bytes.                                               *)

Digit(t, unit) == (t \div unit) % Base
Msb(w) == Digit(w % WordLimit, Base)
Lsb(w) == Digit(w % WordLimit, 1)

\* The bytes make an unsigned word, and the cast to int16_t wraps it.
ConvToI16(msb, lsb) ==
  LET u == msb * Base + lsb IN IF u >= Half THEN u - WordLimit ELSE u

TimeOf(b3, b2, b1, b0) ==
  b3 * (Base * Base * Base) + b2 * (Base * Base) + b1 * Base + b0

\* Bytes 1 and 2 of the data are the first word, 3 and 4 the second, ...
IsFirst(k) == k % 2 = 1
ChannelOf(k) == (k + 1) \div 2

\* The registers the sensor's DMA read copies, and add_timestamp behind them.
Packet(data, t) ==
  [k \in 1..PayloadLen |->
    IF k <= DataLen
    THEN IF IsFirst(k) THEN Msb(data[ChannelOf(k)]) ELSE Lsb(data[ChannelOf(k)])
    ELSE CASE k = DataLen + 1 -> Digit(t, Base * Base * Base)
           [] k = DataLen + 2 -> Digit(t, Base * Base)
           [] k = DataLen + 3 -> Digit(t, Base)
           [] OTHER -> Digit(t, 1)]

\* conv_timestamp and parse_payload of the gateway.
ConvTimestampSwapped(p) ==
  TimeOf(p[DataLen + 2], p[DataLen + 1], p[DataLen + 3], p[DataLen + 4])
ConvTimestamp(p) ==
  TimeOf(p[DataLen + 1], p[DataLen + 2], p[DataLen + 3], p[DataLen + 4])
ParsePayload(p) ==
  [data |-> [c \in Channel |-> ConvToI16(p[2 * c - 1], p[2 * c])],
   timestamp |-> ConvTimestamp(p)]

\* The packed struct in the memory of a little-endian processor.
Memory(v) ==
  [k \in 1..PayloadLen |->
    IF k <= DataLen
    THEN IF IsFirst(k) THEN Lsb(v.data[ChannelOf(k)]) ELSE Msb(v.data[ChannelOf(k)])
    ELSE CASE k = DataLen + 1 -> Digit(v.timestamp, 1)
           [] k = DataLen + 2 -> Digit(v.timestamp, Base)
           [] k = DataLen + 3 -> Digit(v.timestamp, Base * Base)
           [] OTHER -> Digit(v.timestamp, Base * Base * Base)]

\* struct.unpack("<7hI"): the low byte first.
Unpack(d) ==
  [data |-> [c \in Channel |-> ConvToI16(d[2 * c], d[2 * c - 1])],
   timestamp |-> TimeOf(d[DataLen + 4], d[DataLen + 3], d[DataLen + 2], d[DataLen + 1])]

-----------------------------------------------------------------------------
(* The way of a sample.                                                    *)

Transmit(data, t) ==
  /\ at = "idle" /\ at' = "air"
  /\ frame' = Packet(data, t)
  /\ meant' = [data |-> data, timestamp |-> t]
  /\ UNCHANGED <<parsed, datagram, got>>

\* A packet from the queue is parsed as a whole.
Receive ==
  /\ at = "air" /\ at' = "parsed"
  /\ parsed' = ParsePayload(frame) /\ frame' = NoBytes
  /\ UNCHANGED <<datagram, got, meant>>

\* No packet for a second: the data is cleared, the time is the last one's.
ClearData == [parsed EXCEPT !.data = Zeros]
TimeOut ==
  /\ at = "idle" /\ at' = "parsed"
  /\ parsed' = ClearData
  /\ meant' = [data |-> Zeros, timestamp |-> parsed.timestamp]
  /\ UNCHANGED <<frame, datagram, got>>

SendTo ==
  /\ at = "parsed" /\ at' = "wire"
  /\ datagram' = Memory(parsed)
  /\ UNCHANGED <<frame, parsed, got, meant>>

Parse ==
  /\ at = "wire" /\ at' = "server"
  /\ got' = Unpack(datagram) /\ datagram' = NoBytes
  /\ UNCHANGED <<frame, parsed, meant>>

\* The packet or the datagram is lost, or the server is done with it.
Leaves ==
  /\ at \in {"air", "wire", "server"} /\ at' = "idle"
  /\ frame' = NoBytes /\ datagram' = NoBytes
  /\ got' = Nothing /\ meant' = Nothing
  /\ UNCHANGED parsed

Next ==
  \/ \E data \in [Channel -> SampleWords], t \in SampleTicks : Transmit(data, t)
  \/ Receive \/ TimeOut \/ SendTo \/ Parse \/ Leaves

Spec == Init /\ [][Next]_vars

-----------------------------------------------------------------------------
(* Properties.                                                             *)

\* The server reads the words the sensor measured and the time the node sent
\* them, at every boundary of the three encodings; for a heartbeat, zeros and
\* the time of the last packet the gateway parsed.
ServerReadsWhatWasMeant == at = "server" => got = meant
=============================================================================
