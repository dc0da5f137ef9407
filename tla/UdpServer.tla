----------------------------- MODULE UdpServer ------------------------------
(***************************************************************************)
(* udp_server.py: one asyncio thread that receives datagrams and           *)
(* broadcasts them, while web socket connections come and go.  The thread  *)
(* runs without interruption between two awaits; every action below is     *)
(* such a stretch, a step of the web socket library or of the network.     *)
(*                                                                         *)
(* A datagram is its number.  A connection is used once: a viewer that     *)
(* comes back is a new one.                                                *)
(***************************************************************************)
EXTENDS Integers, Sequences

CONSTANTS
  Connection,   \* web socket connections
  SocketLen,    \* datagrams the UDP socket can hold
  HighWater,    \* messages a connection may owe before a send has to wait
  MaxDatagrams  \* datagrams that reach the host (a bound of the model)

ASSUME UdpServerAssumption ==
  /\ SocketLen \in Nat \ {0}
  /\ HighWater \in Nat
  /\ MaxDatagrams \in Nat

VARIABLES
  arrived,   \* datagrams that reached the host
  socket,    \* those the UDP socket holds
  conn,      \* state of each connection
  handler,   \* where its websocket_handler stands
  clients,   \* connected_clients
  pc,        \* where udp_server stands: in sock_recvfrom or in gather
  current,   \* the sample being broadcast: sample_count and its datagram
  pending,   \* clients of the snapshot whose send has not started
  draining,  \* those whose send waits for the connection to take its data
  failed,    \* those whose send raised an exception
  transit,   \* messages written to a connection that its viewer has not got
  seen       \* the last message its viewer has got (a history)

broadcast == <<pc, current, pending, draining, failed>>
network == <<arrived, socket>>
vars == <<network, conn, handler, clients, broadcast, transit, seen>>

Message == [sample : 0..MaxDatagrams, datagram : 0..MaxDatagrams]
Nothing == [sample |-> 0, datagram |-> 0]

TypeOK ==
  /\ arrived \in 0..MaxDatagrams
  /\ socket \in Seq([datagram : 0..MaxDatagrams, short : BOOLEAN])
  /\ Len(socket) <= SocketLen
  /\ conn \in [Connection -> {"none", "open", "lost"}]
  /\ handler \in [Connection -> {"none", "waiting", "done"}]
  /\ clients \subseteq Connection
  /\ pc \in {"recv", "gather"}
  /\ current \in Message
  /\ pending \subseteq Connection
  /\ draining \subseteq Connection
  /\ failed \subseteq Connection
  /\ transit \in [Connection -> Seq(Message)]
  /\ seen \in [Connection -> Message]

Init ==
  /\ arrived = 0 /\ socket = <<>>
  /\ conn = [c \in Connection |-> "none"]
  /\ handler = [c \in Connection |-> "none"]
  /\ clients = {}
  /\ pc = "recv" /\ current = Nothing
  /\ pending = {} /\ draining = {} /\ failed = {}
  /\ transit = [c \in Connection |-> <<>>]
  /\ seen = [c \in Connection |-> Nothing]

-----------------------------------------------------------------------------
(* Connections.                                                            *)

Opens(c) ==
  /\ conn[c] = "none"
  /\ conn' = [conn EXCEPT ![c] = "open"]
  /\ UNCHANGED <<network, handler, clients, broadcast, transit, seen>>

\* The viewer leaves, or the keepalive of the library gives the connection up.
Closes(c) ==
  /\ conn[c] = "open"
  /\ conn' = [conn EXCEPT ![c] = "lost"]
  /\ transit' = [transit EXCEPT ![c] = <<>>]
  /\ UNCHANGED <<network, handler, clients, broadcast, seen>>

\* The viewer takes a message.
Reads(c) ==
  /\ transit[c] # <<>>
  /\ seen' = [seen EXCEPT ![c] = Head(transit[c])]
  /\ transit' = [transit EXCEPT ![c] = Tail(@)]
  /\ UNCHANGED <<network, conn, handler, clients, broadcast>>

\* websocket_handler up to wait_closed; the connection may be lost by then.
\* What a viewer joins at is what it has seen.
Joins(c) ==
  /\ conn[c] # "none" /\ handler[c] = "none"
  /\ handler' = [handler EXCEPT ![c] = "waiting"]
  /\ clients' = clients \union {c}
  /\ seen' = [seen EXCEPT ![c] = current]
  /\ UNCHANGED <<network, conn, broadcast, transit>>

\* wait_closed returns.
LeaveNothing(c) == UNCHANGED clients
Leave(c) == clients' = clients \ {c}
Leaves(c) ==
  /\ conn[c] = "lost" /\ handler[c] = "waiting"
  /\ handler' = [handler EXCEPT ![c] = "done"]
  /\ Leave(c)
  /\ UNCHANGED <<network, conn, broadcast, transit, seen>>

-----------------------------------------------------------------------------
(* The UDP loop.                                                           *)

\* A datagram that finds the socket full is dropped.
Room == Len(socket) < SocketLen
Arrives(short) ==
  /\ arrived < MaxDatagrams
  /\ arrived' = arrived + 1
  /\ socket' = IF Room
               THEN Append(socket, [datagram |-> arrived', short |-> short])
               ELSE socket
  /\ UNCHANGED <<conn, handler, clients, broadcast, transit, seen>>

\* The loop is back in sock_recvfrom and there is something to receive.
Receives(short) ==
  /\ pc = "recv" /\ socket # <<>>
  /\ Head(socket).short = short
  /\ socket' = Tail(socket)

\* parse_payload_to_int16 raises: the datagram is not counted.
Rejects ==
  /\ Receives(TRUE)
  /\ UNCHANGED <<arrived, conn, handler, clients, broadcast, transit, seen>>

\* The next sample is counted and goes to the clients there are now.
RecipientsIdle == clients \ {c \in Connection : transit[c] # <<>>}
Recipients == clients
Accepts ==
  /\ Receives(FALSE)
  /\ current' = [sample |-> current.sample + 1, datagram |-> Head(socket).datagram]
  /\ pending' = Recipients
  /\ pc' = IF pending' = {} THEN "recv" ELSE "gather"
  /\ UNCHANGED <<arrived, conn, handler, clients, draining, failed, transit, seen>>

\* The task of one send starts: it writes the message, then waits.
WriteFirst(c) == transit' = [transit EXCEPT ![c] = <<current>> \o @]
Write(c) == transit' = [transit EXCEPT ![c] = Append(@, current)]
StartsSend(c) ==
  /\ c \in pending /\ conn[c] = "open"
  /\ pending' = pending \ {c}
  /\ draining' = draining \union {c}
  /\ Write(c)
  /\ UNCHANGED <<network, conn, handler, clients, pc, current, failed, seen>>

EndsSend(c) ==
  /\ c \in draining /\ conn[c] = "open"
  /\ Len(transit[c]) <= HighWater
  /\ draining' = draining \ {c}
  /\ UNCHANGED <<network, conn, handler, clients, pc, current, pending, failed,
                 transit, seen>>

\* ConnectionClosed, before the message was written or while it waits.
FailsSend(c) ==
  /\ c \in pending \union draining /\ conn[c] = "lost"
  /\ pending' = pending \ {c}
  /\ draining' = draining \ {c}
  /\ failed' = failed \union {c}
  /\ UNCHANGED <<network, conn, handler, clients, pc, current, transit, seen>>

\* gather returns when every send has; those that failed are discarded.
AllSent == pending = {} /\ draining = {}
DiscardedAll == {c \in clients : transit[c] # <<>>}
Discarded == failed
Gathered ==
  /\ pc = "gather"
  /\ AllSent
  /\ clients' = clients \ Discarded
  /\ failed' = {} /\ draining' = {}
  /\ pc' = "recv"
  /\ UNCHANGED <<network, conn, handler, current, pending, transit, seen>>

-----------------------------------------------------------------------------
EventLoop(c) == \/ Joins(c) \/ Leaves(c)
                \/ StartsSend(c) \/ EndsSend(c) \/ FailsSend(c)

Viewer(c) == Opens(c) \/ Closes(c) \/ Reads(c)

UdpLoop == Rejects \/ Accepts \/ Gathered

Next == \/ UdpLoop
        \/ \E c \in Connection : EventLoop(c) \/ Viewer(c)
        \/ \E short \in BOOLEAN : Arrives(short)

Spec == Init /\ [][Next]_vars

\* The ready queue of asyncio is first in, first out: what is ready runs.
LoopRuns == WF_vars(UdpLoop) /\ \A c \in Connection : WF_vars(EventLoop(c))

\* Every viewer that stays connected keeps reading.
FairSpec == Spec /\ LoopRuns /\ \A c \in Connection : WF_vars(Reads(c))

-----------------------------------------------------------------------------
(* Properties.                                                             *)

\* A viewer whose handler runs and whose connection is open.
Attached(c) == conn[c] = "open" /\ handler[c] = "waiting"

\* Between a viewer and the loop there is exactly what was counted since: from
\* the moment it joined, an attached viewer is owed every sample, in order, and
\* misses none, whoever else comes, goes or fails meanwhile.
OwedEverySample ==
  \A c \in Connection : Attached(c) =>
    /\ \A i \in 1..Len(transit[c]) : transit[c][i].sample = seen[c].sample + i
    /\ seen[c].sample + Len(transit[c])
         = current.sample - (IF c \in pending THEN 1 ELSE 0)

\* No attached viewer gets further ahead of another than what a connection may
\* owe: a viewer that does not read holds the broadcast, and the samples of all
\* the others, instead of making the server buffer them.
NobodyRunsAhead ==
  \A c \in Connection :
    Attached(c) => current.sample <= seen[c].sample + HighWater + 1

\* The server relays the datagrams that reach its host to every connection.
shown == [c \in Connection |-> seen[c].datagram]
Views == INSTANCE Relay WITH Receiver <- Connection, sent <- arrived, shown <- shown
RelaysDatagrams == Views!Spec

\* While the others read or leave, an attached viewer gets each sample that is
\* counted, or leaves itself.
GetsEverySample ==
  \A c \in Connection, n \in 1..MaxDatagrams :
    (Attached(c) /\ seen[c].sample < n /\ current.sample = n)
      ~> (seen[c].sample >= n \/ conn[c] = "lost")

\* The set of clients forgets every connection that was lost.
ForgetsTheLost ==
  \A c \in Connection : (conn[c] = "lost" /\ c \in clients) ~> (c \notin clients)
=============================================================================
