----------------------------- MODULE RadioLink ------------------------------
(***************************************************************************)
(* The radio link end to end: the nRF905 of the node and that of the       *)
(* gateway, each initialised by its own firmware from its own header, and  *)
(* the samples that cross it.  Nothing but the constants of the headers    *)
(* makes the two chips agree, and a packet is received only if they do.    *)
(*                                                                         *)
(* Afterwards the functions of the driver may be called by hand, on one of *)
(* the ends and while no sample is under way.                              *)
(***************************************************************************)
EXTENDS FrameCodec

\* With bytes of four bits: the boundaries of words and times, whose every value
\* then fits TLC's integers.
BoundaryWords == {-128, -1, 16, 127}
BoundaryTicks == {0, 15, 256, 4096, 65535}

VARIABLES
  n_conf, n_inited, n_open, n_pins, n_regs, n_txAddress, n_at, n_result, n_stuck,
  n_torn, n_meant, n_asked,
  g_conf, g_inited, g_open, g_pins, g_regs, g_txAddress, g_at, g_result, g_stuck,
  g_torn, g_meant, g_asked,
  byHand  \* the end whose driver is called by hand, or "none"

node == <<n_conf, n_inited, n_open, n_pins, n_regs, n_txAddress, n_at, n_result,
          n_stuck, n_torn, n_meant, n_asked>>
gateway == <<g_conf, g_inited, g_open, g_pins, g_regs, g_txAddress, g_at, g_result,
             g_stuck, g_torn, g_meant, g_asked>>
linkVars == <<vars, node, gateway, byHand>>

\* What both headers ask for, and the three constants that differ.
Common == [
  pll_mode |-> 0, output_power |-> 3, rx_mode |-> 0, auto_retransmit |-> 0,
  rx_address_width |-> 4, tx_address_width |-> 4,
  output_clock_frequency |-> 3, output_clock |-> 0, crystal_frequency |-> 3,
  crc |-> 1, crc_mode |-> 0, frequency |-> 4332]
With(rx, tx, address) ==
  [name \in DOMAIN Common \union {"rx_payload_width", "tx_payload_width", "rx_address"} |->
    CASE name = "rx_payload_width" -> rx
      [] name = "tx_payload_width" -> tx
      [] name = "rx_address" -> address
      [] OTHER -> Common[name]]
NodeHeader == With(32, 18, "F7E7E7E2")
GatewayHeader == With(18, 32, "F312B29F")

\* What is set by hand, at the ends of each range and beyond (bounds of the model):
\* on the gateway fields of the bytes that the short channel command writes as well,
\* with writes of the chip in between, on the node those of the other bytes.
ByHandValues ==
  [name \in DOMAIN NodeHeader |->
    CASE name = "frequency" -> {256, 511, 512}
      [] name \in {"output_power", "output_clock_frequency"} -> {0, 3}
      [] name = "crystal_frequency" -> {3, 4}
      [] name \in {"rx_address_width", "tx_address_width"} -> {1, 4}
      [] name \in {"rx_payload_width", "tx_payload_width"} -> {18, 32, 33}
      [] name = "rx_address" -> {"F7E7E7E2", "F312B29F"}
      [] OTHER -> {0, 1}]
ChannelFields == {"frequency", "pll_mode", "output_power", "auto_retransmit"}
NodeFields == DOMAIN NodeHeader \ (ChannelFields \union {"rx_payload_width", "rx_address"})

\* The pins of the node cannot refuse; its initialisation raises CE once more.
Node == INSTANCE Nrf905Conf WITH
  Header <- NodeHeader, TxAddress <- "F312B29F", Mode <- "TX", Pulses <- TRUE,
  PinsFail <- FALSE, Settable <- NodeFields, Values <- ByHandValues, Writes <- FALSE,
  conf <- n_conf, inited <- n_inited, open <- n_open, pins <- n_pins, regs <- n_regs,
  txAddress <- n_txAddress, at <- n_at, result <- n_result, stuck <- n_stuck,
  torn <- n_torn, meant <- n_meant, asked <- n_asked

Gateway == INSTANCE Nrf905Conf WITH
  Header <- GatewayHeader, TxAddress <- "F7E7E7E2", Mode <- "RX", Pulses <- FALSE,
  PinsFail <- TRUE, Settable <- ChannelFields, Values <- ByHandValues, Writes <- TRUE,
  conf <- g_conf, inited <- g_inited, open <- g_open, pins <- g_pins, regs <- g_regs,
  txAddress <- g_txAddress, at <- g_at, result <- g_result, stuck <- g_stuck,
  torn <- g_torn, meant <- g_meant, asked <- g_asked

LinkInit == Init /\ Node!Init /\ Gateway!Init /\ byHand = "none"

-----------------------------------------------------------------------------
(* The two firmwares.                                                      *)

\* The node ignores the result and sets the address all the same, once.  The two
\* boards start one after the other, in either order (a bound of the model: while
\* they start they share nothing).
SetsAddress == n_txAddress = "E7E7E7E7" /\ Node!SetTxAddress
NodeStarts ==
  /\ g_at \in {0, -1}
  /\ Node!DeviceInit \/ SetsAddress
  /\ UNCHANGED <<vars, gateway, byHand>>
GatewayStarts ==
  /\ n_at \in {0, -1}
  /\ Gateway!DeviceInit
  /\ UNCHANGED <<vars, node, byHand>>

Started == n_at = -1 /\ g_at = -1
Ready == n_result = "ok" /\ n_txAddress = "F312B29F" /\ g_result = "ok"

\* What makes a packet of the node one for the gateway: the same channel, band
\* and checksum, one format and one address, and each chip on its side.  A packet
\* has 18 bytes, seven words and the time.
InTouch ==
  LET n == Node!Meaning(n_regs)  g == Gateway!Meaning(g_regs) IN
  /\ \A name \in {"frequency", "pll_mode", "crc", "crc_mode"} : n[name] = g[name]
  /\ n.tx_payload_width = 18 /\ g.rx_payload_width = 18
  /\ n.tx_address_width = g.rx_address_width /\ g.rx_address = n_txAddress
  /\ n_pins["PWR_UP"] /\ ~n_pins["CE"]
  /\ g_pins["PWR_UP"] /\ g_pins["CE"] /\ ~g_pins["TX_EN"]

-----------------------------------------------------------------------------
(* Samples and calls by hand.                                              *)

links == <<node, gateway, byHand>>

\* nrf905_send refuses a handle that is not initialised; the air does not ask
\* whether anybody listens.
NodeSends ==
  /\ Started /\ byHand = "none" /\ n_inited
  /\ \E data \in [Channel -> SampleWords], t \in SampleTicks : Transmit(data, t)
  /\ UNCHANGED links

GatewayReceives == InTouch /\ Receive /\ UNCHANGED links

\* The heartbeats of the gateway and the rest of the way to the server, which do
\* not depend on the radio.
Relays ==
  /\ Started /\ byHand = "none"
  /\ TimeOut \/ SendTo \/ Parse \/ Leaves
  /\ UNCHANGED links

\* By hand, before the first sample (a bound of the model).
NotInUse == at = "idle" /\ parsed = Nothing
NodeByHand ==
  /\ byHand = "node" \/ (byHand = "none" /\ Ready /\ NotInUse)
  /\ byHand' = "node"
  /\ Node!User
  /\ UNCHANGED <<vars, gateway>>
GatewayByHand ==
  /\ byHand = "gateway" \/ (byHand = "none" /\ Ready /\ NotInUse)
  /\ byHand' = "gateway"
  /\ Gateway!User
  /\ UNCHANGED <<vars, node>>

LinkNext == \/ NodeStarts \/ GatewayStarts \/ NodeSends \/ GatewayReceives
            \/ Relays \/ NodeByHand \/ GatewayByHand

LinkSpec == LinkInit /\ [][LinkNext]_linkVars

-----------------------------------------------------------------------------
(* Properties; TypeOK and ServerReadsWhatWasMeant are those of FrameCodec. *)

\* When both initialisations have returned 0 and the address has reached the
\* chip, the two ends agree, until the driver is called by hand.
EndsAgree == Ready /\ byHand = "none" => InTouch

\* On both ends an initialisation that fails leaves nothing behind.
FailuresRelease == Node!FailureReleases /\ Gateway!FailureReleases

\* On both ends the getters return what was last set, and the chip holds what
\* was last sent to it.
ConfigurationsKept == Node!ConfigurationKept /\ Gateway!ConfigurationKept
=============================================================================
