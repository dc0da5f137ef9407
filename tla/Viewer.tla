------------------------------- MODULE Viewer -------------------------------
(***************************************************************************)
(* app.js: the web socket of the viewer, the calibration that every        *)
(* connection starts with, and the time step that is derived from the      *)
(* timestamps of the samples.  Drawing has no part in it.                  *)
(*                                                                         *)
(* Time is counted in ticks; a time step in ticks times Scale.             *)
(***************************************************************************)
EXTENDS Integers

CONSTANTS
  CalibrationSamples,  \* GYRO_CALIBRATION_SAMPLES (120 in the code)
  MillisLimit,         \* 10_000: below it a difference is in milliseconds
  MicrosLimit,         \* 10_000_000: below it, in microseconds
  Scale,               \* microseconds in a millisecond
  MaxTime,             \* bound of the clocks
  MaxSockets           \* connections a user starts (a bound of the model)

ASSUME ViewerAssumption ==
  /\ CalibrationSamples \in Nat \ {0}
  /\ Scale \in Nat \ {0}
  /\ MaxTime \in Nat /\ MaxSockets \in Nat
  /\ {MillisLimit, MicrosLimit} \subseteq Nat
  /\ 0 < MillisLimit /\ MillisLimit < MicrosLimit

VARIABLES
  \* the telemetry
  clock,      \* performance.now()
  node,       \* the clock of the node, which a restart sets to zero
  sample,     \* the last sample taken
  relayed,    \* the last sample the gateway relayed
  \* the web socket
  sock,       \* state of each socket this page has created
  websocket,  \* the one the variable holds; 0 for null
  connected,  \* what the status line and the button show
  \* calibration
  active, count,
  inputs,     \* the sockets whose messages are in the sums (a history)
  biasOf,     \* the sockets whose messages made gyroBias
  \* orientation
  previousTimestamp, previousBrowserTime, hasOrientation,
  dt,         \* the last time step
  previousAt, \* when the sample of previousTimestamp was taken (a history)
  since,      \* when the orientation was last set from nothing (a history),
  sinceAt,    \* from a sample taken at that time,
  total       \* and the time steps integrated since then

telemetry == <<clock, node, sample, relayed>>
calibration == <<active, count, inputs, biasOf>>
estimate == <<previousTimestamp, previousBrowserTime, hasOrientation, dt,
              previousAt, since, sinceAt, total>>
viewerVars == <<telemetry, sock, websocket, connected, calibration, estimate>>

Null == -1
Time == 0..MaxTime
Socket == 1..MaxSockets
Sample == [timestamp : Time, at : Time]

ViewerTypeOK ==
  /\ clock \in Time /\ node \in Time
  /\ sample \in Sample /\ relayed \in Sample
  /\ sock \in [Socket -> {"none", "connecting", "open", "closing", "closed"}]
  /\ websocket \in {0} \union Socket
  /\ connected \in BOOLEAN
  /\ active \in BOOLEAN
  /\ count \in 0..CalibrationSamples
  /\ inputs \subseteq Socket /\ biasOf \subseteq Socket
  /\ previousTimestamp \in Time \union {Null}
  /\ previousBrowserTime \in Time
  /\ hasOrientation \in BOOLEAN
  /\ dt \in 0..(Scale * MaxTime)
  /\ previousAt \in Time /\ since \in Time /\ sinceAt \in Time
  /\ total \in Nat

ViewerInit ==
  /\ clock = 0 /\ node = 0
  /\ sample = [timestamp |-> 0, at |-> 0] /\ relayed = sample
  /\ sock = [k \in Socket |-> "none"] /\ websocket = 0 /\ connected = FALSE
  /\ active = TRUE /\ count = 0 /\ inputs = {} /\ biasOf = {}
  /\ previousTimestamp = Null /\ previousBrowserTime = 0
  /\ hasOrientation = FALSE /\ dt = 0 /\ previousAt = 0
  /\ since = 0 /\ sinceAt = 0 /\ total = 0

-----------------------------------------------------------------------------
(* The node and what comes before the viewer.                              *)

Tick ==
  /\ clock < MaxTime
  /\ clock' = clock + 1 /\ node' = node + 1
  /\ UNCHANGED <<sample, relayed, sock, websocket, connected, calibration, estimate>>

\* The node restarts: HAL_GetTick counts from zero again.
Restart ==
  /\ node # 0 /\ node' = 0
  /\ UNCHANGED <<clock, sample, relayed, sock, websocket, connected, calibration,
                 estimate>>

\* A sample is taken; the one before may never have got through.
Takes ==
  /\ sample' = [timestamp |-> node, at |-> clock]
  /\ sample' # sample
  /\ UNCHANGED <<clock, node, relayed, sock, websocket, connected, calibration,
                 estimate>>

\* The gateway relays it to no viewer, or it is lost behind the gateway.
Misses ==
  /\ relayed # sample
  /\ relayed' = sample
  /\ UNCHANGED <<clock, node, sample, sock, websocket, connected, calibration,
                 estimate>>

-----------------------------------------------------------------------------
(* connect() and the listeners of the socket.                              *)

ResetSumsNot ==
  /\ active' = TRUE
  /\ UNCHANGED <<count, inputs, biasOf>>
\* What every new connection starts with.
ResetCalibration ==
  /\ active' = TRUE /\ count' = 0 /\ inputs' = {}
  /\ UNCHANGED biasOf
ResetEstimate ==
  /\ previousTimestamp' = Null /\ hasOrientation' = FALSE
  /\ UNCHANGED <<previousBrowserTime, dt, previousAt, since, sinceAt, total>>

\* The constructor may also refuse the address that was typed in.
Connect(accepted) ==
  /\ websocket = 0
  /\ ResetEstimate /\ ResetCalibration
  /\ connected' = FALSE
  /\ \E k \in Socket :
       /\ sock[k] = "none" /\ \A j \in Socket : j < k => sock[j] # "none"
       /\ IF accepted
          THEN sock' = [sock EXCEPT ![k] = "connecting"] /\ websocket' = k
          ELSE UNCHANGED <<sock, websocket>>
  /\ UNCHANGED telemetry

\* The button while the variable holds a socket: close() and nothing else.
KeepSocketForgets == websocket' = 0
KeepSocket == UNCHANGED websocket
Disconnect ==
  /\ websocket # 0 /\ sock[websocket] \in {"connecting", "open"}
  /\ sock' = [sock EXCEPT ![websocket] = "closing"]
  /\ KeepSocket
  /\ UNCHANGED <<telemetry, connected, calibration, estimate>>

OnOpen(k) ==
  /\ sock[k] = "connecting"
  /\ sock' = [sock EXCEPT ![k] = "open"]
  /\ connected' = TRUE
  /\ UNCHANGED <<telemetry, websocket, calibration, estimate>>

\* After close(), or because the server or the network is gone: the error
\* listener, if it is called, is called just before.
OnClose(k) ==
  /\ sock[k] \in {"connecting", "open", "closing"}
  /\ sock' = [sock EXCEPT ![k] = "closed"]
  /\ websocket' = 0
  /\ connected' = FALSE
  /\ ResetEstimate
  /\ UNCHANGED <<telemetry, calibration>>

-----------------------------------------------------------------------------
(* Messages.                                                               *)

\* updateGyroCalibration: every message counts, a heartbeat as well.
UnfinishedOffByOne(n) == n <= CalibrationSamples
Unfinished(n) == n < CalibrationSamples
WeightOfSamples(zero) == IF zero THEN 0 ELSE 1
Weight(zero) == 1
Calibrates(k, zero) ==
  /\ active
  /\ count' = count + Weight(zero)
  /\ inputs' = inputs \union {k}
  /\ IF Unfinished(count')
     THEN UNCHANGED <<active, biasOf, estimate>>
     ELSE active' = FALSE /\ biasOf' = inputs' /\ ResetEstimate

\* estimateTimestampDt: the difference of the timestamps, in one of two units,
\* or the browser's own time since it was last read.
NoReference(m) == previousTimestamp = Null \/ m.timestamp = previousTimestamp

StepByBrowser(m) == Scale * (clock - previousBrowserTime)
Step(m) ==
  LET delta == m.timestamp - previousTimestamp IN
  IF 0 < delta /\ delta < MillisLimit THEN Scale * delta
  ELSE IF 0 < delta /\ delta < MicrosLimit THEN delta
  ELSE Scale * (clock - previousBrowserTime)

\* Only the branch that reads the browser's clock notes what it read.
BrowserTimeStale(m) == previousBrowserTime
BrowserTime(m) ==
  IF NoReference(m) \/ m.timestamp - previousTimestamp \notin 1..(MicrosLimit - 1)
  THEN clock ELSE previousBrowserTime

\* updateFromSample once the calibration is over.
Updates(m) ==
  /\ ~active
  /\ dt' = IF NoReference(m) THEN 0 ELSE Step(m)
  /\ previousTimestamp' = m.timestamp /\ previousAt' = m.at
  /\ previousBrowserTime' = BrowserTime(m)
  /\ hasOrientation' = TRUE
  /\ IF hasOrientation /\ dt' > 0
     THEN total' = total + dt' /\ UNCHANGED <<since, sinceAt>>
     ELSE total' = 0 /\ since' = clock /\ sinceAt' = m.at
  /\ UNCHANGED calibration

OnMessage(k, m, zero) ==
  /\ sock[k] = "open"
  /\ connected' = TRUE
  /\ Calibrates(k, zero) \/ Updates(m)
  /\ UNCHANGED <<clock, node, sample, sock, websocket>>

OnSample(k) ==
  /\ relayed # sample
  /\ relayed' = sample
  /\ OnMessage(k, sample, FALSE)

\* Zeroes, with the timestamp of the last sample the gateway relayed.
OnHeartbeat(k) == UNCHANGED relayed /\ OnMessage(k, relayed, TRUE)

-----------------------------------------------------------------------------
User == Disconnect \/ \E accepted \in BOOLEAN : Connect(accepted)

ViewerNext ==
  \/ Tick \/ Restart \/ Takes \/ Misses \/ User
  \/ \E k \in Socket : OnOpen(k) \/ OnClose(k) \/ OnSample(k) \/ OnHeartbeat(k)

ViewerSpec == ViewerInit /\ [][ViewerNext]_viewerVars

\* A connected viewer keeps getting samples or heartbeats.
ViewerFairSpec ==
  ViewerSpec /\ \A k \in Socket : WF_viewerVars(OnSample(k) \/ OnHeartbeat(k))

-----------------------------------------------------------------------------
(* Properties.                                                             *)

Live(k) == sock[k] \in {"connecting", "open", "closing"}

\* However often the button is used while a socket is being opened or closed:
\* there is one socket at most, it is the one the variable holds, and the
\* status shows a connection only while that one is open or closing.
OneSocket ==
  /\ \A k \in Socket : Live(k) => k = websocket
  /\ connected => websocket # 0 /\ sock[websocket] \in {"open", "closing"}

\* An orientation is shown only with offsets that were measured in full during
\* the same connection.
ShownIsCalibrated == hasOrientation => biasOf = {websocket}

\* The rates of turn are integrated over a moment twice at most, once by the
\* timestamps and once by the browser's clock: the fallback counts again what
\* the timestamps have counted since that clock was read, but no more.
CountsTimeTwiceAtMost ==
  hasOrientation =>
    total <= Scale * ((previousBrowserTime - since) + (previousAt - sinceAt))

\* A time step is never longer than the time between the two samples, except
\* after a restart of the node or a gap as long as the larger limit.
StepNotTooLong ==
  [][dt' > 0 /\ previousTimestamp' \notin {previousTimestamp, Null}
       => \/ dt' <= Scale * (previousAt' - previousAt)
          \/ previousTimestamp' < previousTimestamp
          \/ previousTimestamp' - previousTimestamp >= MicrosLimit]_viewerVars

\* A connection that stays open ends in an orientation on the screen.
GetsOriented ==
  \A k \in Socket : (sock[k] = "open") ~> (hasOrientation \/ sock[k] # "open")
=============================================================================
