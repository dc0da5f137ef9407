---------------------------- MODULE WifiStation -----------------------------
(***************************************************************************)
(* The Wi-Fi station of the gateway and its start-up: the event handler    *)
(* with its retry counter, the event group it fills, and app_main, which   *)
(* starts the nRF905 and UDP tasks when the wait on that group ends.       *)
(* The driver posts its events to a loop that handles them one by one, in  *)
(* a task of its own: what they tell of may be over by then.               *)
(***************************************************************************)
EXTENDS Naturals, Sequences

CONSTANTS
  MaximumRetry,  \* 10 in the code
  MaxGain,       \* times the station gets an address (a bound of the model)
  MaxPending     \* events in the loop's queue (a bound of the model)

ASSUME WifiStationAssumption ==
  {MaximumRetry, MaxGain, MaxPending} \subseteq Nat

VARIABLES
  link,     \* the driver: "off", "idle", "connecting", "linked", or "up"
  events,   \* posted by the driver and not yet handled
  retry,    \* s_retry_num
  bits,     \* the bits of wifi_event_group
  main,     \* app_main: "connect", "wait" for the bits, or "started"
  gains,    \* history: times the station got an address
  drops     \* history: disconnections handled since the last address

wifiVars == <<link, events, retry, bits, main, gains, drops>>
history == <<gains, drops>>

START == "WIFI_EVENT_STA_START"
DISCONNECTED == "WIFI_EVENT_STA_DISCONNECTED"
GOT_IP == "IP_EVENT_STA_GOT_IP"

CONNECTED_BIT == "WIFI_CONNECTED_BIT"
FAIL_BIT == "WIFI_FAIL_BIT"

WifiTypeOK ==
  /\ link \in {"off", "idle", "connecting", "linked", "up"}
  /\ events \in Seq({START, DISCONNECTED, GOT_IP})
  /\ retry \in 0..MaximumRetry
  /\ bits \subseteq {CONNECTED_BIT, FAIL_BIT}
  /\ main \in {"connect", "wait", "started"}
  /\ gains \in 0..MaxGain
  /\ drops \in Nat

WifiInit ==
  /\ link = "off"
  /\ events = <<>>
  /\ retry = 0
  /\ bits = {}
  /\ main = "connect"
  /\ gains = 0
  /\ drops = 0

-----------------------------------------------------------------------------
(* app_main and my_wifi_connect.                                           *)

\* The handlers are registered before esp_wifi_start; an error in between
\* restarts the chip.
WifiStart ==
  /\ main = "connect"
  /\ link' = "idle"
  /\ events' = Append(events, START)
  /\ main' = "wait"
  /\ UNCHANGED <<retry, bits, history>>

\* The bits are not cleared by the wait; either of them starts the tasks.
WaitBits ==
  /\ main = "wait"
  /\ bits # {}
  /\ main' = "started"
  /\ UNCHANGED <<link, events, retry, bits, history>>

AppMain == WifiStart \/ WaitBits

-----------------------------------------------------------------------------
(* event_handler.                                                          *)

\* esp_wifi_connect does something only for a station that is not connected.
Connect == link' = IF link = "idle" THEN "connecting" ELSE link

RetriesLeft == retry < MaximumRetry

OnStart == Connect /\ UNCHANGED <<retry, bits, drops>>

RetryCountsOnly == retry' = retry + 1 /\ UNCHANGED <<link, bits>>
Retry == Connect /\ retry' = retry + 1 /\ UNCHANGED bits

GiveUpSilently == UNCHANGED <<link, retry, bits>>
GiveUpAndConnect == Connect /\ bits' = bits \cup {FAIL_BIT} /\ UNCHANGED retry
GiveUp == bits' = bits \cup {FAIL_BIT} /\ UNCHANGED <<link, retry>>

OnDisconnected ==
  /\ drops' = drops + 1
  /\ \/ RetriesLeft /\ Retry
     \/ ~RetriesLeft /\ GiveUp

OnGotIp ==
  /\ retry' = 0
  /\ bits' = bits \cup {CONNECTED_BIT}
  /\ drops' = 0
  /\ UNCHANGED link

EventHandler ==
  /\ events # <<>>
  /\ events' = Tail(events)
  /\ \/ Head(events) = START /\ OnStart
     \/ Head(events) = DISCONNECTED /\ OnDisconnected
     \/ Head(events) = GOT_IP /\ OnGotIp
  /\ UNCHANGED <<main, gains>>

-----------------------------------------------------------------------------
(* The driver and the access point.                                        *)

Posts(e) == Len(events) < MaxPending /\ events' = Append(events, e)

Associate ==
  /\ link = "connecting"
  /\ link' = "linked"
  /\ UNCHANGED <<events, retry, bits, main, history>>

\* The attempt fails, or the association ends.
Disconnect ==
  /\ link \in {"connecting", "linked", "up"}
  /\ link' = "idle"
  /\ Posts(DISCONNECTED)
  /\ UNCHANGED <<retry, bits, main, history>>

GainIp ==
  /\ link = "linked"
  /\ gains < MaxGain
  /\ gains' = gains + 1
  /\ link' = "up"
  /\ Posts(GOT_IP)
  /\ UNCHANGED <<retry, bits, main, drops>>

\* The lease runs out: the handler is not registered for that event.
LoseIp ==
  /\ link = "up"
  /\ link' = "linked"
  /\ UNCHANGED <<events, retry, bits, main, history>>

WifiNext == AppMain \/ EventHandler \/ Associate \/ Disconnect \/ GainIp \/ LoseIp

WifiSpec == WifiInit /\ [][WifiNext]_wifiVars

\* The tasks are scheduled, and an attempt to connect ends one way or the other.
\* Nothing makes an association end, or the access point give it an address.
WifiFairSpec ==
  /\ WifiSpec
  /\ WF_wifiVars(AppMain) /\ WF_wifiVars(EventHandler)
  /\ WF_wifiVars(link = "connecting" /\ (Associate \/ Disconnect))

-----------------------------------------------------------------------------
(* Properties.                                                             *)

\* A gateway that has had an address gives up only after more than MaximumRetry
\* disconnections in a row, whatever was pending when it got the address.
GivesUpLate == FAIL_BIT \in bits => drops > MaximumRetry

\* Having given up is final: the station never tries again, and no address
\* comes, although the nRF905 and UDP tasks run on until a reset.
GivesUpForGood ==
  [][{FAIL_BIT} \subseteq bits => link' = "idle" /\ events' = <<>> /\ bits' = bits]_wifiVars

\* The tasks of the gateway are started, whatever attempts fail and whatever
\* associations end, unless the station stays associated without an address:
\* that posts no event, and app_main waits for ever.
AppStarts == <>(main = "started") \/ <>[](link = "linked" /\ bits = {})

\* A station that lost its link tries again, unless it has given up.
Reconnects == (link = "idle") ~> (link # "idle" \/ FAIL_BIT \in bits)
=============================================================================
