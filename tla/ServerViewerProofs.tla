------------------------- MODULE ServerViewerProofs -------------------------
(***************************************************************************)
(* Proofs about the programs of the base station: the server, for every set *)
(* of connections, every size of the socket's and of a connection's buffer, *)
(* and any number of datagrams; and the viewer, for every number of sockets *)
(* and calibration samples, every length of a session and every unit of the *)
(* timestamps.                                                             *)
(***************************************************************************)
EXTENDS UdpServer, Viewer, SequenceTheorems, TLAPS

\* Numbers: no more samples are counted than datagrams arrived.
Counted ==
  /\ current.sample + Len(socket) <= arrived

\* The loop and gather: a send is not started, waits or has failed, and only a
\* lost connection makes it fail.
Gathering ==
  /\ pc = "recv" => pending = {} /\ draining = {} /\ failed = {}
  /\ pending \cap draining = {}
  /\ failed \cap (pending \union draining) = {}
  /\ \A c \in failed : conn[c] = "lost"

\* A connection in its life: what its handler has to do with its state.
Living(c) ==
  /\ conn[c] = "none" => handler[c] = "none"
  /\ handler[c] = "done" => conn[c] = "lost"
  /\ handler[c] = "none" =>
       /\ c \notin clients \union pending \union draining \union failed
       /\ transit[c] = <<>> /\ seen[c] = Nothing
  /\ Attached(c) => c \in clients
  /\ conn[c] # "open" => transit[c] = <<>>

\* What a viewer is owed.
Owed(c) ==
  Attached(c) =>
    /\ \A i \in 1..Len(transit[c]) : transit[c][i].sample = seen[c].sample + i
    /\ seen[c].sample + Len(transit[c])
         = current.sample - (IF c \in pending THEN 1 ELSE 0)

\* What a connection holds.
Bounded(c) ==
  Len(transit[c]) <= HighWater + (IF c \in draining THEN 1 ELSE 0)

Served(c) == Living(c) /\ Owed(c) /\ Bounded(c)

IInv ==
  /\ TypeOK /\ Counted /\ Gathering
  /\ \A c \in Connection : Served(c)

LEMMA InitIInv == Init => IInv
<1>. SUFFICES ASSUME Init PROVE IInv
  OBVIOUS
<1>. USE UdpServerAssumption
<1>1. Nothing \in Message
  BY DEF Nothing, Message
<1>2. /\ socket \in Seq([datagram : 0..MaxDatagrams, short : BOOLEAN])
      /\ Len(socket) = 0
      /\ \A c \in Connection : transit[c] \in Seq(Message) /\ Len(transit[c]) = 0
  BY EmptySeq DEF Init
<1>3. /\ transit \in [Connection -> Seq(Message)]
      /\ seen \in [Connection -> Message]
      /\ arrived \in 0..MaxDatagrams /\ current \in Message
  BY <1>1, <1>2 DEF Init
<1>4. /\ conn \in [Connection -> {"none", "open", "lost"}]
      /\ handler \in [Connection -> {"none", "waiting", "done"}]
      /\ pc \in {"recv", "gather"}
  BY DEF Init
<1>5. TypeOK
  BY <1>2, <1>3, <1>4 DEF Init, TypeOK
<1>6. Counted /\ Gathering
  BY <1>2 DEF Init, Counted, Gathering, Nothing
<1>7. ASSUME NEW c \in Connection PROVE Served(c)
  BY <1>2 DEF Init, Served, Living, Owed, Bounded, Attached, Nothing
<1>. QED
  BY <1>5, <1>6, <1>7 DEF IInv

LEMMA MessageFields ==
  ASSUME NEW m \in Message
  PROVE  m.sample \in Nat /\ m.datagram \in Nat /\ m.sample <= MaxDatagrams
BY UdpServerAssumption DEF Message

\* Taking the first message of a connection and adding one at its end.
LEMMA HeadTail ==
  ASSUME NEW S, NEW s \in Seq(S), s # <<>>
  PROVE  /\ Head(s) = s[1] /\ Head(s) \in S
         /\ Tail(s) \in Seq(S) /\ Len(Tail(s)) = Len(s) - 1 /\ Len(s) \in Nat
         /\ \A i \in 1..Len(Tail(s)) : Tail(s)[i] = s[i + 1] /\ i + 1 \in 1..Len(s)
<1>1. Len(s) \in Nat /\ Len(s) > 0
  BY EmptySeq, LenProperties
<1>. QED
  BY <1>1, HeadTailProperties

LEMMA Appended ==
  ASSUME NEW S, NEW s \in Seq(S), NEW e \in S
  PROVE  /\ Append(s, e) \in Seq(S) /\ Len(Append(s, e)) = Len(s) + 1 /\ Len(s) \in Nat
         /\ \A i \in 1..Len(s) : Append(s, e)[i] = s[i]
         /\ Append(s, e)[Len(s) + 1] = e
BY AppendProperties
\* What the invariant says of numbers and of one connection, ready to use.
LEMMA Typed ==
  ASSUME TypeOK
  PROVE  /\ arrived \in Nat /\ arrived <= MaxDatagrams
         /\ socket \in Seq([datagram : 0..MaxDatagrams, short : BOOLEAN])
         /\ Len(socket) \in Nat
         /\ current \in Message
         /\ current.sample \in Nat /\ current.datagram \in Nat
         /\ \A c \in Connection :
              /\ transit[c] \in Seq(Message) /\ Len(transit[c]) \in Nat
              /\ seen[c] \in Message
              /\ seen[c].sample \in Nat /\ seen[c].datagram \in Nat
              /\ \A i \in 1..Len(transit[c]) :
                   /\ transit[c][i] \in Message
                   /\ transit[c][i].sample \in Nat /\ transit[c][i].datagram \in Nat
<1>1. /\ arrived \in Nat /\ arrived <= MaxDatagrams
      /\ socket \in Seq([datagram : 0..MaxDatagrams, short : BOOLEAN])
      /\ current \in Message
  BY UdpServerAssumption DEF TypeOK
<1>2. Len(socket) \in Nat
  BY <1>1, LenProperties
<1>3. ASSUME NEW c \in Connection
      PROVE  /\ transit[c] \in Seq(Message) /\ seen[c] \in Message
             /\ Len(transit[c]) \in Nat
             /\ \A i \in 1..Len(transit[c]) : transit[c][i] \in Message
  <2>1. transit[c] \in Seq(Message) /\ seen[c] \in Message
    BY DEF TypeOK
  <2>2. QED
    BY <2>1, LenProperties, ElementOfSeq
<1>4. QED
  BY <1>1, <1>2, <1>3, MessageFields

-----------------------------------------------------------------------------
(* Each action preserves the invariant.                                    *)

LEMMA OpensStep ==
  ASSUME IInv, NEW c \in Connection, Opens(c)
  PROVE  IInv'
<1>1. TypeOK'
  BY DEF IInv, TypeOK, Opens, network, broadcast
<1>2. Counted' /\ Gathering'
  BY DEF IInv, TypeOK, Counted, Gathering, Opens, network, broadcast
<1>3. ASSUME NEW d \in Connection PROVE Served(d)'
  BY DEF IInv, TypeOK, Served, Living, Owed, Bounded, Attached, Opens, network, broadcast
<1>. QED
  BY <1>1, <1>2, <1>3 DEF IInv

LEMMA ClosesStep ==
  ASSUME IInv, NEW c \in Connection, Closes(c)
  PROVE  IInv'
<1>1. <<>> \in Seq(Message) /\ Len(<<>>) = 0
  BY EmptySeq
<1>2. TypeOK'
  BY <1>1 DEF IInv, TypeOK, Closes, network, broadcast
<1>3. Counted' /\ Gathering'
  BY DEF IInv, TypeOK, Counted, Gathering, Closes, network, broadcast
<1>4. ASSUME NEW d \in Connection PROVE Served(d)'
  BY <1>1, UdpServerAssumption
     DEF IInv, TypeOK, Served, Living, Owed, Bounded, Attached, Closes, network, broadcast
<1>. QED
  BY <1>2, <1>3, <1>4 DEF IInv

LEMMA ReadsStep ==
  ASSUME IInv, NEW c \in Connection, Reads(c)
  PROVE  IInv'
<1>. DEFINE t == transit[c]
<1>1. /\ Head(t) = t[1] /\ Head(t) \in Message
      /\ Tail(t) \in Seq(Message) /\ Len(Tail(t)) = Len(t) - 1 /\ Len(t) \in Nat
      /\ 1 \in 1..Len(t)
      /\ \A i \in 1..Len(Tail(t)) : Tail(t)[i] = t[i + 1] /\ i + 1 \in 1..Len(t)
  BY Typed, HeadTail DEF IInv, Reads
<1>2. TypeOK'
  BY <1>1 DEF IInv, TypeOK, Reads, network, broadcast
<1>3. Counted' /\ Gathering'
  BY DEF IInv, TypeOK, Counted, Gathering, Reads, network, broadcast
<1>4. ASSUME NEW d \in Connection, d # c PROVE Served(d)'
  BY <1>4 DEF IInv, TypeOK, Served, Living, Owed, Bounded, Attached, Reads, network, broadcast
<1>5. transit'[c] = Tail(t) /\ seen'[c] = t[1]
  BY <1>1 DEF IInv, TypeOK, Reads
<1>6. Living(c)'
  BY <1>5 DEF IInv, TypeOK, Served, Living, Attached, Reads, network, broadcast
<1>7. Owed(c)'
  <2>. SUFFICES ASSUME Attached(c)
                PROVE  /\ \A i \in 1..Len(Tail(t)) : Tail(t)[i].sample = t[1].sample + i
                       /\ t[1].sample + Len(Tail(t))
                            = current.sample - (IF c \in pending THEN 1 ELSE 0)
    BY <1>5 DEF Owed, Attached, Reads, network, broadcast
  <2>1. /\ \A i \in 1..Len(t) : t[i].sample = seen[c].sample + i
        /\ seen[c].sample + Len(t)
             = current.sample - (IF c \in pending THEN 1 ELSE 0)
    BY DEF IInv, Served, Owed
  <2>2. seen[c].sample \in Nat /\ current.sample \in Nat
    BY Typed DEF IInv
  <2>3. t[1].sample = seen[c].sample + 1
    BY <1>1, <2>1
  <2>. HIDE DEF t
  <2>4. ASSUME NEW i \in 1..Len(Tail(t)) PROVE Tail(t)[i].sample = t[1].sample + i
    <3>1. /\ Tail(t)[i] = t[i + 1] /\ i + 1 \in 1..Len(t) /\ i \in Nat
      BY <1>1
    <3>2. t[i + 1].sample = seen[c].sample + (i + 1)
      BY <2>1, <3>1
    <3>. QED
      BY <2>2, <2>3, <3>1, <3>2
  <2>5. t[1].sample + Len(Tail(t)) = seen[c].sample + Len(t)
    BY <1>1, <2>2, <2>3
  <2>. QED
    BY <2>1, <2>4, <2>5
<1>8. Bounded(c)'
  BY <1>1, <1>5, UdpServerAssumption
     DEF IInv, Served, Bounded, Reads, network, broadcast
<1>. QED
  BY <1>2, <1>3, <1>4, <1>6, <1>7, <1>8 DEF IInv, Served

LEMMA JoinsStep ==
  ASSUME IInv, NEW c \in Connection, Joins(c)
  PROVE  IInv'
<1>1. TypeOK'
  BY DEF IInv, TypeOK, Joins, network, broadcast
<1>2. Counted' /\ Gathering'
  BY DEF IInv, TypeOK, Counted, Gathering, Joins, network, broadcast
<1>3. ASSUME NEW d \in Connection, d # c PROVE Served(d)'
  BY <1>3 DEF IInv, TypeOK, Served, Living, Owed, Bounded, Attached, Joins, network, broadcast
<1>4. transit[c] = <<>> /\ c \notin pending /\ Len(<<>>) = 0
  BY EmptySeq DEF IInv, Served, Living, Joins
<1>5. seen'[c] = current /\ handler'[c] = "waiting" /\ current.sample \in Nat
  BY Typed DEF IInv, TypeOK, Joins
<1>6. Living(c)'
  BY <1>4, <1>5 DEF Living, Attached, Joins, network, broadcast
<1>7. Owed(c)'
  BY <1>4, <1>5 DEF Owed, Joins, network, broadcast
<1>8. Bounded(c)'
  BY <1>4, UdpServerAssumption DEF Bounded, Joins, network, broadcast
<1>. QED
  BY <1>1, <1>2, <1>3, <1>6, <1>7, <1>8 DEF IInv, Served

LEMMA LeavesStep ==
  ASSUME IInv, NEW c \in Connection, Leaves(c)
  PROVE  IInv'
<1>1. TypeOK'
  BY DEF IInv, TypeOK, Leaves, Leave, network, broadcast
<1>2. Counted' /\ Gathering'
  BY DEF IInv, TypeOK, Counted, Gathering, Leaves, network, broadcast
<1>3. ASSUME NEW d \in Connection PROVE Served(d)'
  BY DEF IInv, TypeOK, Served, Living, Owed, Bounded, Attached, Leaves, Leave, network,
     broadcast
<1>. QED
  BY <1>1, <1>2, <1>3 DEF IInv

LEMMA ArrivesStep ==
  ASSUME IInv, NEW short \in BOOLEAN, Arrives(short)
  PROVE  IInv'
<1>. DEFINE e == [datagram |-> arrived', short |-> short]
            D == [datagram : 0..MaxDatagrams, short : BOOLEAN]
<1>1. arrived' = arrived + 1 /\ arrived' \in 0..MaxDatagrams /\ arrived \in Nat
  BY Typed, UdpServerAssumption DEF IInv, Arrives
<1>2. /\ socket' \in Seq(D) /\ Len(socket) \in Nat
      /\ Len(socket') = Len(socket) + 1 \/ socket' = socket
      /\ Len(socket') <= SocketLen
  <2>1. e \in D /\ socket \in Seq(D) /\ Len(socket) <= SocketLen
    BY <1>1, Typed DEF IInv, TypeOK
  <2>. HIDE DEF e, D
  <2>2. /\ Append(socket, e) \in Seq(D) /\ Len(socket) \in Nat
        /\ Len(Append(socket, e)) = Len(socket) + 1
    BY <2>1, Appended
  <2>3. socket' = IF Len(socket) < SocketLen THEN Append(socket, e) ELSE socket
    BY DEF Arrives, Room, e
  <2>. QED
    BY <2>1, <2>2, <2>3, UdpServerAssumption
<1>3. TypeOK'
  BY <1>1, <1>2 DEF IInv, TypeOK, Arrives, broadcast
<1>4. Counted'
  BY <1>1, <1>2, Typed DEF IInv, Counted, Arrives, broadcast
<1>5. Gathering'
  BY DEF IInv, Gathering, Arrives, broadcast
<1>6. ASSUME NEW d \in Connection PROVE Served(d)'
  BY DEF IInv, Served, Living, Owed, Bounded, Attached, Arrives, broadcast
<1>. QED
  BY <1>3, <1>4, <1>5, <1>6 DEF IInv

\* What sock_recvfrom takes from the socket.
LEMMA ReceivedOne ==
  ASSUME IInv, NEW short \in BOOLEAN, Receives(short)
  PROVE  /\ socket' \in Seq([datagram : 0..MaxDatagrams, short : BOOLEAN])
         /\ Len(socket') = Len(socket) - 1 /\ Len(socket) \in Nat
         /\ Len(socket') \in Nat /\ Len(socket') <= SocketLen
         /\ Head(socket) = socket[1]
         /\ Head(socket).datagram \in 0..MaxDatagrams
         /\ 1 \in 1..Len(socket)
         /\ \A i \in 1..Len(socket') : socket'[i] = socket[i + 1] /\ i + 1 \in 1..Len(socket)
<1>. DEFINE D == [datagram : 0..MaxDatagrams, short : BOOLEAN]
<1>1. socket \in Seq(D) /\ Len(socket) <= SocketLen
  BY Typed DEF IInv, TypeOK
<1>2. socket # <<>> /\ socket' = Tail(socket) /\ pc = "recv"
  BY DEF Receives
<1>3. \A m \in D : m.datagram \in 0..MaxDatagrams
  OBVIOUS
<1>. HIDE DEF D
<1>4. /\ Head(socket) = socket[1] /\ Head(socket) \in D
      /\ Tail(socket) \in Seq(D) /\ Len(Tail(socket)) = Len(socket) - 1
      /\ Len(socket) \in Nat /\ Len(socket) > 0
      /\ \A i \in 1..Len(Tail(socket)) :
           Tail(socket)[i] = socket[i + 1] /\ i + 1 \in 1..Len(socket)
  BY <1>1, <1>2, HeadTail, EmptySeq
<1>5. Len(Tail(socket)) \in Nat /\ Len(Tail(socket)) <= SocketLen /\ 1 \in 1..Len(socket)
  BY <1>1, <1>4, UdpServerAssumption
<1>. QED
  BY <1>2, <1>3, <1>4, <1>5 DEF D

LEMMA RejectsStep ==
  ASSUME IInv, Rejects
  PROVE  IInv'
<1>1. /\ socket' \in Seq([datagram : 0..MaxDatagrams, short : BOOLEAN])
      /\ Len(socket') = Len(socket) - 1 /\ Len(socket) \in Nat
      /\ Len(socket') <= SocketLen
  BY ReceivedOne DEF Rejects
<1>2. TypeOK'
  BY <1>1 DEF IInv, TypeOK, Rejects, broadcast
<1>3. Counted'
  BY <1>1, Typed DEF IInv, Counted, Rejects, broadcast
<1>4. Gathering'
  BY DEF IInv, Gathering, Rejects, broadcast
<1>5. ASSUME NEW d \in Connection PROVE Served(d)'
  BY DEF IInv, Served, Living, Owed, Bounded, Attached, Rejects, broadcast
<1>. QED
  BY <1>2, <1>3, <1>4, <1>5 DEF IInv

LEMMA AcceptsStep ==
  ASSUME IInv, Accepts
  PROVE  IInv'
<1>1. /\ socket' \in Seq([datagram : 0..MaxDatagrams, short : BOOLEAN])
      /\ Len(socket') = Len(socket) - 1 /\ Len(socket) \in Nat
      /\ Len(socket') \in Nat /\ Len(socket') <= SocketLen
      /\ Head(socket).datagram \in 0..MaxDatagrams
  BY ReceivedOne DEF Accepts
<1>2. /\ current'.sample = current.sample + 1
      /\ current'.datagram = Head(socket).datagram
      /\ current' = [sample |-> current.sample + 1, datagram |-> Head(socket).datagram]
      /\ pending' = clients /\ pc = "recv"
      /\ UNCHANGED <<arrived, conn, handler, clients, draining, failed, transit, seen>>
  BY DEF Accepts, Receives, Recipients
<1>3. /\ current.sample \in Nat /\ arrived \in Nat /\ arrived <= MaxDatagrams
      /\ current.sample + Len(socket) <= arrived
  BY Typed DEF IInv, Counted
<1>4. current.sample + 1 \in 0..MaxDatagrams
  BY <1>1, <1>3, UdpServerAssumption
<1>5. current' \in Message
  BY <1>1, <1>2, <1>4 DEF Message
<1>6. pc' \in {"recv", "gather"} /\ (pc' = "recv" => pending' = {})
  BY DEF Accepts
<1>7. TypeOK'
  BY <1>1, <1>2, <1>5, <1>6 DEF IInv, TypeOK
<1>8. Counted'
  BY <1>1, <1>2, <1>3 DEF Counted
<1>9. pending = {} /\ draining = {} /\ failed = {}
  BY <1>2 DEF IInv, Gathering
<1>10. Gathering'
  BY <1>2, <1>6, <1>9 DEF Gathering
<1>11. ASSUME NEW d \in Connection PROVE Served(d)'
  <2>1. Living(d)'
    BY <1>2, <1>9 DEF IInv, Served, Living, Attached
  <2>2. Owed(d)'
    <3>. SUFFICES ASSUME Attached(d)
                  PROVE  /\ \A i \in 1..Len(transit[d]) :
                              transit[d][i].sample = seen[d].sample + i
                         /\ seen[d].sample + Len(transit[d])
                              = current'.sample - (IF d \in pending' THEN 1 ELSE 0)
      BY <1>2 DEF Owed, Attached
    <3>1. d \in pending' /\ d \notin pending
      BY <1>2, <1>9 DEF IInv, Served, Living
    <3>2. /\ \A i \in 1..Len(transit[d]) : transit[d][i].sample = seen[d].sample + i
          /\ seen[d].sample + Len(transit[d]) = current.sample
      BY <3>1, <1>3 DEF IInv, Served, Owed
    <3>. QED
      BY <1>2, <1>3, <3>1, <3>2
  <2>3. Bounded(d)'
    BY <1>2 DEF IInv, Served, Bounded
  <2>. QED
    BY <2>1, <2>2, <2>3 DEF Served
<1>. QED
  BY <1>7, <1>8, <1>10, <1>11 DEF IInv

LEMMA StartsSendStep ==
  ASSUME IInv, NEW c \in Connection, StartsSend(c)
  PROVE  IInv'
<1>. DEFINE t == transit[c]
<1>1. /\ t \in Seq(Message) /\ current \in Message
      /\ current.sample \in Nat /\ seen[c].sample \in Nat
  BY Typed DEF IInv
<1>2. /\ Append(t, current) \in Seq(Message) /\ Len(t) \in Nat
      /\ Len(Append(t, current)) = Len(t) + 1
      /\ \A i \in 1..Len(t) : Append(t, current)[i] = t[i]
      /\ Append(t, current)[Len(t) + 1] = current
  BY <1>1, Appended
<1>3. TypeOK'
  BY <1>2 DEF IInv, TypeOK, StartsSend, Write, network
<1>4. Counted'
  BY DEF IInv, Counted, StartsSend, network
<1>5. pc # "recv"
  BY DEF IInv, Gathering, StartsSend
<1>6. Gathering'
  BY <1>5 DEF IInv, Gathering, StartsSend
<1>7. ASSUME NEW d \in Connection, d # c PROVE Served(d)'
  BY <1>7 DEF IInv, TypeOK, Served, Living, Owed, Bounded, Attached, StartsSend, Write, network
<1>8. transit'[c] = Append(t, current)
  BY DEF IInv, TypeOK, StartsSend, Write
<1>9. Living(c)'
  BY DEF IInv, Gathering, Served, Living, Attached, StartsSend, network
<1>10. Owed(c)'
  <2>. SUFFICES ASSUME Attached(c)
                PROVE  /\ \A i \in 1..Len(Append(t, current)) :
                            Append(t, current)[i].sample = seen[c].sample + i
                       /\ seen[c].sample + Len(Append(t, current)) = current.sample
    BY <1>1, <1>8 DEF Owed, Attached, StartsSend, network
  <2>1. /\ \A i \in 1..Len(t) : t[i].sample = seen[c].sample + i
        /\ seen[c].sample + Len(t) = current.sample - 1
    BY DEF IInv, Served, Owed, StartsSend
  <2>. HIDE DEF t
  <2>2. seen[c].sample + Len(Append(t, current)) = current.sample
    <3>1. /\ Len(t) \in Nat /\ seen[c].sample \in Nat /\ current.sample \in Nat
          /\ Len(Append(t, current)) = Len(t) + 1
      BY <1>1, <1>2
    <3>2. seen[c].sample + Len(t) = current.sample - 1
      BY <2>1
    <3>. QED
      BY <3>1, <3>2
  <2>3. ASSUME NEW i \in 1..Len(Append(t, current))
        PROVE  Append(t, current)[i].sample = seen[c].sample + i
    <3>1. i \in 1..Len(t) \/ i = Len(t) + 1
      BY <1>2
    <3>. QED
      BY <1>1, <1>2, <2>1, <2>2, <3>1
  <2>. QED
    BY <2>2, <2>3
<1>11. Bounded(c)'
  <2>1. c \notin draining /\ c \in draining'
    BY DEF IInv, Gathering, StartsSend
  <2>. QED
    BY <1>2, <1>8, <2>1, UdpServerAssumption DEF IInv, Served, Bounded
<1>. QED
  BY <1>3, <1>4, <1>6, <1>7, <1>9, <1>10, <1>11 DEF IInv, Served

LEMMA EndsSendStep ==
  ASSUME IInv, NEW c \in Connection, EndsSend(c)
  PROVE  IInv'
<1>1. TypeOK'
  BY DEF IInv, TypeOK, EndsSend, network
<1>2. Counted' /\ Gathering'
  BY DEF IInv, Counted, Gathering, EndsSend, network
<1>3. ASSUME NEW d \in Connection PROVE Served(d)'
  BY UdpServerAssumption
     DEF IInv, Served, Living, Owed, Bounded, Attached, EndsSend, network
<1>. QED
  BY <1>1, <1>2, <1>3 DEF IInv

LEMMA FailsSendStep ==
  ASSUME IInv, NEW c \in Connection, FailsSend(c)
  PROVE  IInv'
<1>1. TypeOK'
  BY DEF IInv, TypeOK, FailsSend, network
<1>2. pc # "recv"
  BY DEF IInv, Gathering, FailsSend
<1>3. Counted' /\ Gathering'
  BY <1>2 DEF IInv, Counted, Gathering, FailsSend, network
<1>4. ASSUME NEW d \in Connection PROVE Served(d)'
  <2>1. Living(d)' /\ Owed(d)'
    BY DEF IInv, Served, Living, Owed, Attached, FailsSend, network
  <2>2. Bounded(d)'
    <3>1. CASE d = c
      <4>1. transit'[d] = <<>> /\ Len(<<>>) = 0
        BY <3>1, EmptySeq DEF IInv, Served, Living, FailsSend
      <4>. QED
        BY <4>1, UdpServerAssumption DEF Bounded
    <3>2. CASE d # c
      BY <3>2 DEF IInv, Served, Bounded, FailsSend, network
    <3>. QED
      BY <3>1, <3>2
  <2>. QED
    BY <2>1, <2>2 DEF Served
<1>. QED
  BY <1>1, <1>3, <1>4 DEF IInv

LEMMA GatheredStep ==
  ASSUME IInv, Gathered
  PROVE  IInv'
<1>1. TypeOK'
  BY DEF IInv, TypeOK, Gathered, Discarded, network
<1>2. Counted' /\ Gathering'
  BY DEF IInv, Counted, Gathering, Gathered, AllSent, network
<1>3. ASSUME NEW d \in Connection PROVE Served(d)'
  BY DEF IInv, Gathering, Served, Living, Owed, Bounded, Attached, Gathered, AllSent,
     Discarded, network
<1>. QED
  BY <1>1, <1>2, <1>3 DEF IInv

THEOREM Inductive == Spec => []IInv
<1>1. IInv /\ [Next]_vars => IInv'
  <2>. SUFFICES ASSUME IInv, [Next]_vars PROVE IInv'
    OBVIOUS
  <2>1. CASE UdpLoop
    BY <2>1, RejectsStep, AcceptsStep, GatheredStep DEF UdpLoop
  <2>2. ASSUME NEW c \in Connection, EventLoop(c) PROVE IInv'
    BY <2>2, JoinsStep, LeavesStep, StartsSendStep, EndsSendStep, FailsSendStep DEF EventLoop
  <2>3. ASSUME NEW c \in Connection, Viewer(c) PROVE IInv'
    BY <2>3, OpensStep, ClosesStep, ReadsStep DEF Viewer
  <2>4. ASSUME NEW short \in BOOLEAN, Arrives(short) PROVE IInv'
    BY <2>4, ArrivesStep
  <2>5. CASE UNCHANGED vars
    BY <2>5 DEF vars, network, broadcast, IInv, TypeOK, Counted, Gathering, Served, Living,
       Owed, Bounded, Attached
  <2>. QED
    BY <2>1, <2>2, <2>3, <2>4, <2>5 DEF Next
<1>. QED
  BY <1>1, InitIInv, PTL DEF Spec

-----------------------------------------------------------------------------

\* The server keeps its types: no more samples are counted than datagrams came
\* (udp_server.py:126-140), and the socket keeps its bound.
THEOREM TypeCorrect == Spec => []TypeOK
<1>1. IInv => TypeOK
  BY DEF IInv
<1>. QED
  BY <1>1, Inductive, PTL

\* From the moment it joins, an attached viewer is owed every counted sample in
\* order, whoever comes, goes or fails during a broadcast (udp_server.py:88-115).
THEOREM NothingIsMissed == Spec => []OwedEverySample
<1>1. IInv => OwedEverySample
  BY DEF IInv, Served, Owed, OwedEverySample
<1>. QED
  BY <1>1, Inductive, PTL

\* One viewer that does not read holds the broadcast (udp_server.py:140), so no
\* viewer gets ahead of it by more than what a connection may owe.
THEOREM HeldTogether == Spec => []NobodyRunsAhead
<1>1. ASSUME IInv, NEW c \in Connection, Attached(c)
      PROVE  current.sample <= seen[c].sample + HighWater + 1
  <2>1. /\ current.sample \in Nat /\ seen[c].sample \in Nat /\ Len(transit[c]) \in Nat
    BY <1>1, Typed DEF IInv
  <2>2. /\ seen[c].sample + Len(transit[c])
             = current.sample - (IF c \in pending THEN 1 ELSE 0)
        /\ Len(transit[c]) <= HighWater + (IF c \in draining THEN 1 ELSE 0)
        /\ c \in pending => c \notin draining
    BY <1>1 DEF IInv, Served, Owed, Bounded, Gathering
  <2>. QED
    BY <2>1, <2>2, UdpServerAssumption
<1>2. IInv => NobodyRunsAhead
  BY <1>1 DEF NobodyRunsAhead
<1>. QED
  BY <1>2, Inductive, PTL

-----------------------------------------------------------------------------
(* The server implements the relay.  Datagrams are numbered as they arrive,*)
(* and their numbers grow from a viewer to the socket.                     *)

Arriving ==
  /\ current.datagram <= arrived
  /\ \A i \in 1..Len(socket) :
       current.datagram < socket[i].datagram /\ socket[i].datagram <= arrived
  /\ \A i, j \in 1..Len(socket) : i < j => socket[i].datagram < socket[j].datagram

\* A client whose send has not started has not got the current sample yet.
InOrder(c) ==
  /\ seen[c].datagram <= current.datagram
  /\ \A i \in 1..Len(transit[c]) :
       /\ seen[c].datagram < transit[c][i].datagram
       /\ transit[c][i].datagram <= current.datagram
  /\ \A i, j \in 1..Len(transit[c]) :
       i < j => transit[c][i].datagram < transit[c][j].datagram
  /\ c \in pending =>
       /\ seen[c].datagram < current.datagram
       /\ \A i \in 1..Len(transit[c]) : transit[c][i].datagram < current.datagram

OInv == Arriving /\ \A c \in Connection : InOrder(c)

LEMMA InitOInv == Init => OInv
<1>. SUFFICES ASSUME Init PROVE OInv
  OBVIOUS
<1>1. Len(<<>>) = 0
  BY EmptySeq
<1>2. Arriving
  BY <1>1 DEF Init, Arriving, Nothing
<1>3. ASSUME NEW c \in Connection PROVE InOrder(c)
  BY <1>1 DEF Init, InOrder, Nothing
<1>. QED
  BY <1>2, <1>3 DEF OInv

LEMMA ArrivesOrder ==
  ASSUME IInv, OInv, NEW short \in BOOLEAN, Arrives(short)
  PROVE  OInv'
<1>. DEFINE e == [datagram |-> arrived + 1, short |-> short]
            D == [datagram : 0..MaxDatagrams, short : BOOLEAN]
<1>1. /\ arrived \in Nat /\ arrived' = arrived + 1 /\ arrived < MaxDatagrams
      /\ current.datagram \in Nat /\ current' = current
      /\ socket \in Seq(D) /\ Len(socket) \in Nat
  BY Typed DEF IInv, Arrives, broadcast
<1>2. e \in D /\ e.datagram = arrived + 1
  BY <1>1, UdpServerAssumption
<1>3. \A i \in 1..Len(socket) : socket[i].datagram \in Nat
  <2>1. \A d \in D : d.datagram \in Nat
    BY UdpServerAssumption
  <2>. HIDE DEF D
  <2>. QED
    BY <1>1, <2>1, ElementOfSeq
<1>4. socket' = socket \/ socket' = Append(socket, e)
  BY <1>1 DEF Arrives
<1>5. /\ current.datagram <= arrived
      /\ \A i \in 1..Len(socket) :
           current.datagram < socket[i].datagram /\ socket[i].datagram <= arrived
      /\ \A i, j \in 1..Len(socket) : i < j => socket[i].datagram < socket[j].datagram
  BY DEF OInv, Arriving
<1>. HIDE DEF e, D
<1>6. Arriving'
  <2>1. CASE socket' = socket
    BY <1>1, <1>3, <1>5, <2>1 DEF Arriving
  <2>2. CASE socket' = Append(socket, e)
    <3>1. /\ Len(Append(socket, e)) = Len(socket) + 1
          /\ \A i \in 1..Len(socket) : Append(socket, e)[i] = socket[i]
          /\ Append(socket, e)[Len(socket) + 1] = e
      BY <1>1, <1>2, Appended
    <3>2. \A i \in 1..Len(socket') :
            \/ i \in 1..Len(socket) /\ socket'[i] = socket[i]
            \/ i = Len(socket) + 1 /\ socket'[i].datagram = arrived + 1
      BY <1>1, <1>2, <2>2, <3>1
    <3>3. ASSUME NEW i \in 1..Len(socket')
          PROVE  current.datagram < socket'[i].datagram /\ socket'[i].datagram <= arrived + 1
      BY <1>1, <1>3, <1>5, <3>2
    <3>4. ASSUME NEW i \in 1..Len(socket'), NEW j \in 1..Len(socket'), i < j
          PROVE  socket'[i].datagram < socket'[j].datagram
      <4>1. i \in 1..Len(socket) /\ socket'[i] = socket[i]
        BY <1>1, <2>2, <3>1, <3>2, <3>4
      <4>2. \/ j \in 1..Len(socket) /\ socket'[j] = socket[j]
            \/ socket'[j].datagram = arrived + 1
        BY <3>2
      <4>. QED
        BY <1>1, <1>3, <1>5, <3>4, <4>1, <4>2
    <3>. QED
      BY <1>1, <1>5, <3>3, <3>4 DEF Arriving
  <2>. QED
    BY <1>4, <2>1, <2>2
<1>7. ASSUME NEW c \in Connection PROVE InOrder(c)'
  BY DEF OInv, InOrder, Arrives, broadcast
<1>. QED
  BY <1>6, <1>7 DEF OInv

\* What the socket keeps stays in order behind the datagram that was taken.
LEMMA ReceivedOrder ==
  ASSUME IInv, OInv, NEW short \in BOOLEAN, Receives(short)
  PROVE  /\ current.datagram < Head(socket).datagram
         /\ Head(socket).datagram <= arrived
         /\ \A i \in 1..Len(socket') :
              /\ current.datagram < socket'[i].datagram
              /\ Head(socket).datagram < socket'[i].datagram
              /\ socket'[i].datagram <= arrived
         /\ \A i, j \in 1..Len(socket') : i < j => socket'[i].datagram < socket'[j].datagram
<1>1. /\ Len(socket) \in Nat /\ Len(socket') = Len(socket) - 1
      /\ Head(socket) = socket[1] /\ 1 \in 1..Len(socket)
      /\ \A i \in 1..Len(socket') : socket'[i] = socket[i + 1] /\ i + 1 \in 1..Len(socket)
  BY ReceivedOne
<1>2. /\ \A i \in 1..Len(socket) :
           current.datagram < socket[i].datagram /\ socket[i].datagram <= arrived
      /\ \A i, j \in 1..Len(socket) : i < j => socket[i].datagram < socket[j].datagram
  BY DEF OInv, Arriving
<1>3. \A i \in 1..Len(socket') : 1 < i + 1
  BY <1>1
<1>4. \A i, j \in 1..Len(socket') : i < j => i + 1 < j + 1
  BY <1>1
<1>. QED
  BY <1>1, <1>2, <1>3, <1>4

LEMMA RejectsOrder ==
  ASSUME IInv, OInv, Rejects
  PROVE  OInv'
<1>1. Arriving'
  BY ReceivedOrder DEF OInv, Arriving, Rejects, broadcast
<1>2. ASSUME NEW c \in Connection PROVE InOrder(c)'
  BY DEF OInv, InOrder, Rejects, broadcast
<1>. QED
  BY <1>1, <1>2 DEF OInv

LEMMA AcceptsOrder ==
  ASSUME IInv, OInv, Accepts
  PROVE  OInv'
<1>1. /\ current'.datagram = Head(socket).datagram
      /\ current.datagram < Head(socket).datagram
      /\ UNCHANGED <<arrived, transit, seen>>
  BY ReceivedOrder DEF Accepts
<1>2. Arriving'
  BY <1>1, ReceivedOrder DEF Arriving, Accepts
<1>3. /\ current.datagram \in Nat /\ current'.datagram \in Int
      /\ current.datagram < current'.datagram
  <2>1. Head(socket).datagram \in Nat
    <3>1. Head(socket).datagram \in 0..MaxDatagrams
      BY ReceivedOne DEF Accepts
    <3>. QED
      BY <3>1, UdpServerAssumption
  <2>. QED
    BY <1>1, <2>1, Typed DEF IInv
<1>4. ASSUME NEW c \in Connection PROVE InOrder(c)'
  <2>1. /\ seen[c].datagram \in Nat
        /\ \A i \in 1..Len(transit[c]) : transit[c][i].datagram \in Nat
    BY Typed DEF IInv
  <2>. QED
    BY <1>1, <1>3, <2>1 DEF OInv, InOrder
<1>. QED
  BY <1>2, <1>4 DEF OInv

LEMMA ReadsOrder ==
  ASSUME IInv, OInv, NEW c \in Connection, Reads(c)
  PROVE  OInv'
<1>. DEFINE t == transit[c]
<1>1. /\ Head(t) = t[1] /\ 1 \in 1..Len(t)
      /\ Len(Tail(t)) = Len(t) - 1 /\ Len(t) \in Nat
      /\ \A i \in 1..Len(Tail(t)) : Tail(t)[i] = t[i + 1] /\ i + 1 \in 1..Len(t)
  BY Typed, HeadTail DEF IInv, Reads
<1>2. Arriving'
  BY DEF OInv, Arriving, Reads, network, broadcast
<1>3. ASSUME NEW d \in Connection, d # c PROVE InOrder(d)'
  BY <1>3 DEF IInv, TypeOK, OInv, InOrder, Reads, broadcast
<1>4. /\ transit'[c] = Tail(t) /\ seen'[c] = t[1]
      /\ current' = current /\ pending' = pending
  BY <1>1 DEF IInv, TypeOK, Reads, broadcast
<1>5. /\ \A i \in 1..Len(t) : t[i].datagram <= current.datagram
      /\ \A i, j \in 1..Len(t) : i < j => t[i].datagram < t[j].datagram
      /\ c \in pending => \A i \in 1..Len(t) : t[i].datagram < current.datagram
  BY DEF OInv, InOrder
<1>. HIDE DEF t
<1>6. /\ \A i \in 1..Len(Tail(t)) : 1 < i + 1
      /\ \A i, j \in 1..Len(Tail(t)) : i < j => i + 1 < j + 1
  BY <1>1
<1>7. /\ \A i \in 1..Len(Tail(t)) :
           t[1].datagram < Tail(t)[i].datagram /\ Tail(t)[i].datagram <= current.datagram
      /\ \A i, j \in 1..Len(Tail(t)) :
           i < j => Tail(t)[i].datagram < Tail(t)[j].datagram
      /\ c \in pending => \A i \in 1..Len(Tail(t)) : Tail(t)[i].datagram < current.datagram
  BY <1>1, <1>5, <1>6
<1>8. InOrder(c)'
  BY <1>1, <1>4, <1>5, <1>7 DEF InOrder
<1>. QED
  BY <1>2, <1>3, <1>8 DEF OInv

LEMMA StartsSendOrder ==
  ASSUME IInv, OInv, NEW c \in Connection, StartsSend(c)
  PROVE  OInv'
<1>. DEFINE t == transit[c]
<1>1. /\ t \in Seq(Message) /\ current \in Message
      /\ current.datagram \in Nat /\ seen[c].datagram \in Nat
      /\ \A i \in 1..Len(t) : t[i].datagram \in Nat
  BY Typed DEF IInv
<1>2. /\ Len(t) \in Nat
      /\ Len(Append(t, current)) = Len(t) + 1
      /\ \A i \in 1..Len(t) : Append(t, current)[i] = t[i]
      /\ Append(t, current)[Len(t) + 1] = current
  BY <1>1, Appended
<1>3. Arriving'
  BY DEF OInv, Arriving, StartsSend, network
<1>4. ASSUME NEW d \in Connection, d # c PROVE InOrder(d)'
  BY <1>4 DEF IInv, TypeOK, OInv, InOrder, StartsSend, Write
<1>5. /\ transit'[c] = Append(t, current) /\ seen' = seen
      /\ current' = current /\ c \notin pending'
  BY DEF IInv, TypeOK, StartsSend, Write
<1>6. /\ seen[c].datagram < current.datagram
      /\ \A i \in 1..Len(t) : t[i].datagram < current.datagram
      /\ \A i \in 1..Len(t) : seen[c].datagram < t[i].datagram
      /\ \A i, j \in 1..Len(t) : i < j => t[i].datagram < t[j].datagram
  BY DEF OInv, InOrder, StartsSend
<1>. HIDE DEF t
<1>7. \A i \in 1..Len(Append(t, current)) :
        \/ i \in 1..Len(t) /\ Append(t, current)[i] = t[i]
        \/ i = Len(t) + 1 /\ Append(t, current)[i] = current
  BY <1>2
<1>8. /\ \A i \in 1..Len(Append(t, current)) :
           /\ seen[c].datagram < Append(t, current)[i].datagram
           /\ Append(t, current)[i].datagram <= current.datagram
      /\ \A i, j \in 1..Len(Append(t, current)) :
           i < j => Append(t, current)[i].datagram < Append(t, current)[j].datagram
  <2>1. ASSUME NEW i \in 1..Len(Append(t, current))
        PROVE  /\ seen[c].datagram < Append(t, current)[i].datagram
               /\ Append(t, current)[i].datagram <= current.datagram
    BY <1>1, <1>6, <1>7
  <2>2. ASSUME NEW i \in 1..Len(Append(t, current)), NEW j \in 1..Len(Append(t, current)),
               i < j
        PROVE  Append(t, current)[i].datagram < Append(t, current)[j].datagram
    <3>1. i \in 1..Len(t) /\ Append(t, current)[i] = t[i]
      <4>1. i # Len(t) + 1
        BY <1>2, <2>2
      <4>. QED
        BY <1>7, <4>1
    <3>2. \/ j \in 1..Len(t) /\ Append(t, current)[j] = t[j]
          \/ Append(t, current)[j] = current
      BY <1>7
    <3>3. t[i].datagram < current.datagram
      BY <1>6, <3>1
    <3>4. CASE j \in 1..Len(t) /\ Append(t, current)[j] = t[j]
      <4>1. t[i].datagram < t[j].datagram
        BY <1>6, <2>2, <3>1, <3>4
      <4>. QED
        BY <3>1, <3>4, <4>1
    <3>5. CASE Append(t, current)[j] = current
      BY <3>1, <3>3, <3>5
    <3>. QED
      BY <3>2, <3>4, <3>5
  <2>. QED
    BY <2>1, <2>2
<1>9. InOrder(c)'
  BY <1>1, <1>5, <1>6, <1>8 DEF InOrder
<1>. QED
  BY <1>3, <1>4, <1>9 DEF OInv

LEMMA JoinsOrder ==
  ASSUME IInv, OInv, NEW c \in Connection, Joins(c)
  PROVE  OInv'
<1>1. Arriving'
  BY DEF OInv, Arriving, Joins, network, broadcast
<1>2. ASSUME NEW d \in Connection, d # c PROVE InOrder(d)'
  BY <1>2 DEF IInv, TypeOK, OInv, InOrder, Joins, broadcast
<1>3. /\ transit[c] = <<>> /\ c \notin pending /\ Len(<<>>) = 0
      /\ seen'[c] = current /\ current.datagram \in Nat
  BY Typed, EmptySeq DEF IInv, TypeOK, Served, Living, Joins
<1>4. InOrder(c)'
  BY <1>3 DEF InOrder, Joins, broadcast
<1>. QED
  BY <1>1, <1>2, <1>4 DEF OInv

LEMMA ClosesOrder ==
  ASSUME IInv, OInv, NEW c \in Connection, Closes(c)
  PROVE  OInv'
<1>1. Arriving'
  BY DEF OInv, Arriving, Closes, network, broadcast
<1>2. ASSUME NEW d \in Connection PROVE InOrder(d)'
  BY EmptySeq DEF IInv, TypeOK, OInv, InOrder, Closes, broadcast
<1>. QED
  BY <1>1, <1>2 DEF OInv

\* The other steps only take clients out of the snapshot.
LEMMA OthersOrder ==
  ASSUME OInv, UNCHANGED <<network, current, transit, seen>>, pending' \subseteq pending
  PROVE  OInv'
BY DEF OInv, Arriving, InOrder, network

THEOREM InOrderThroughout == Spec => [](IInv /\ OInv)
<1>1. IInv /\ OInv /\ [Next]_vars => OInv'
  <2>. SUFFICES ASSUME IInv, OInv, [Next]_vars PROVE OInv'
    OBVIOUS
  <2>1. CASE UdpLoop
    <3>1. CASE Gathered
      BY <3>1, OthersOrder DEF Gathered
    <3>. QED
      BY <2>1, <3>1, RejectsOrder, AcceptsOrder DEF UdpLoop
  <2>2. ASSUME NEW c \in Connection, EventLoop(c) PROVE OInv'
    <3>1. Leaves(c) \/ EndsSend(c) \/ FailsSend(c) => OInv'
      BY OthersOrder DEF Leaves, EndsSend, FailsSend, broadcast
    <3>. QED
      BY <2>2, <3>1, JoinsOrder, StartsSendOrder DEF EventLoop
  <2>3. ASSUME NEW c \in Connection, Viewer(c) PROVE OInv'
    <3>1. Opens(c) => OInv'
      BY OthersOrder DEF Opens, broadcast
    <3>. QED
      BY <2>3, <3>1, ClosesOrder, ReadsOrder DEF Viewer
  <2>4. ASSUME NEW short \in BOOLEAN, Arrives(short) PROVE OInv'
    BY <2>4, ArrivesOrder
  <2>5. CASE UNCHANGED vars
    BY <2>5, OthersOrder DEF vars, network, broadcast
  <2>. QED
    BY <2>1, <2>2, <2>3, <2>4, <2>5 DEF Next
<1>. QED
  BY <1>1, InitOInv, Inductive, PTL DEF Spec

\* A step of the relay that brings viewer c the message m.
LEMMA Delivers ==
  ASSUME TypeOK, NEW c \in Connection, NEW m \in Message,
         seen' = [seen EXCEPT ![c] = m], UNCHANGED arrived,
         seen[c].datagram < m.datagram, m.datagram <= arrived
  PROVE  Views!Next
<1>1. seen \in [Connection -> Message]
  BY DEF TypeOK
<1>2. shown' = [shown EXCEPT ![c] = m.datagram]
  BY <1>1 DEF shown
<1>3. m.datagram \in (shown[c] + 1)..arrived
  BY Typed, MessageFields DEF shown
<1>4. Views!Deliver(c)
  BY <1>2, <1>3 DEF Views!Deliver
<1>. QED
  BY <1>4 DEF Views!Next

\* The server implements the relay: every viewer gets datagrams in the order in
\* which they reached the host, never one from before the last (udp_server.py:96-140).
THEOREM ServerRelays == Spec => RelaysDatagrams
<1>1. Init => Views!Init
  BY DEF Init, Views!Init, Nothing, shown
<1>2. IInv /\ OInv /\ [Next]_vars => [Views!Next]_<<arrived, shown>>
  <2>. SUFFICES ASSUME IInv, OInv, [Next]_vars
                PROVE  Views!Next \/ UNCHANGED <<arrived, shown>>
    OBVIOUS
  <2>1. CASE UNCHANGED <<arrived, seen>>
    BY <2>1 DEF shown
  <2>2. CASE \E short \in BOOLEAN : Arrives(short)
    <3>1. arrived' = arrived + 1 /\ UNCHANGED seen
      BY <2>2 DEF Arrives
    <3>2. UNCHANGED shown
      BY <3>1 DEF shown
    <3>. QED
      BY <3>1, <3>2 DEF Views!Next, Views!Produce
  <2>3. ASSUME NEW c \in Connection, Reads(c)
        PROVE  Views!Next
    <3>1. Head(transit[c]) = transit[c][1] /\ Head(transit[c]) \in Message
          /\ 1 \in 1..Len(transit[c])
      BY <2>3, Typed, HeadTail DEF IInv, Reads
    <3>2. /\ seen[c].datagram < Head(transit[c]).datagram
          /\ Head(transit[c]).datagram <= current.datagram
          /\ current.datagram <= arrived
      BY <3>1 DEF OInv, InOrder, Arriving
    <3>3. Head(transit[c]).datagram <= arrived
      BY <3>1, <3>2, Typed, MessageFields DEF IInv
    <3>. QED
      BY <2>3, <3>1, <3>2, <3>3, Delivers DEF IInv, Reads, network
  <2>4. ASSUME NEW c \in Connection, Joins(c)
        PROVE  Views!Next \/ UNCHANGED <<arrived, shown>>
    <3>1. /\ seen[c] = Nothing /\ seen' = [seen EXCEPT ![c] = current]
          /\ UNCHANGED arrived /\ current \in Message /\ current.datagram \in Nat
          /\ current.datagram <= arrived /\ seen \in [Connection -> Message]
      BY <2>4, Typed
         DEF IInv, TypeOK, Served, Living, Joins, network, OInv, Arriving
    <3>2. CASE current.datagram = 0
      <4>1. UNCHANGED shown
        BY <3>1, <3>2 DEF Nothing, shown
      <4>. QED
        BY <3>1, <4>1
    <3>3. CASE current.datagram # 0
      <4>1. seen[c].datagram < current.datagram
        BY <3>1, <3>3 DEF Nothing
      <4>. QED
        BY <3>1, <4>1, Delivers DEF IInv
    <3>. QED
      BY <3>2, <3>3
  <2>. QED
    BY <2>1, <2>2, <2>3, <2>4
       DEF Next, UdpLoop, EventLoop, Viewer, Rejects, Accepts, Gathered, Leaves, StartsSend,
           EndsSend, FailsSend, Opens, Closes, vars, network
<1>. QED
  BY <1>1, <1>2, InOrderThroughout, PTL DEF Spec, RelaysDatagrams, Views!Spec

-----------------------------------------------------------------------------
(* The viewer.                                                             *)

\* What every connection starts with is measured anew: as long as a calibration
\* is under way nothing is shown, and its sums hold messages of this connection.
Calibrated ==
  /\ active => ~hasOrientation /\ count < CalibrationSamples
  /\ active /\ websocket # 0 => inputs \subseteq {websocket}
  /\ ~active /\ websocket # 0 => biasOf = {websocket}
  /\ hasOrientation => websocket # 0

\* The node's clock gains nothing on the browser's, from one sample on its way
\* to the next and from the last of them to now; a restart only sets it back.
Gains(from, to) == to.timestamp - from.timestamp <= to.at - from.at
Now == [timestamp |-> node, at |-> clock]
Previous == [timestamp |-> previousTimestamp, at |-> previousAt]
NoGain ==
  /\ node <= clock /\ sample.at <= clock
  /\ Gains(sample, Now) /\ Gains(relayed, sample)
  /\ previousTimestamp # Null => Gains(Previous, relayed)

\* The reference of the time step: it is set with the orientation.
Referenced ==
  /\ hasOrientation <=> previousTimestamp # Null
  /\ hasOrientation => previousBrowserTime >= since
  /\ previousBrowserTime <= clock /\ since <= clock

ViewerIInv == ViewerTypeOK /\ OneSocket /\ Calibrated /\ NoGain /\ Referenced

LEMMA ViewerInitIInv == ViewerInit => ViewerIInv
<1> SUFFICES ASSUME ViewerInit PROVE ViewerIInv
  OBVIOUS
<1> USE ViewerAssumption DEF ViewerInit, Time, Socket, Sample, Null
<1>1. ViewerTypeOK
  <2>1. 0 \in 0..(Scale * MaxTime)
    OBVIOUS
  <2>2. clock \in Time /\ sample \in Sample /\ relayed \in Sample
    OBVIOUS
  <2>3. sock \in [Socket -> {"none", "connecting", "open", "closing", "closed"}]
    OBVIOUS
  <2>4. 0 \in 0..CalibrationSamples /\ 0 \in Time
    OBVIOUS
  <2>5. QED
    BY <2>1, <2>2, <2>3, <2>4, Zenon DEF ViewerTypeOK
<1>2. OneSocket /\ Calibrated
  BY DEF OneSocket, Live, Calibrated
<1>3. NoGain /\ Referenced
  BY DEF NoGain, Gains, Now, Previous, Referenced
<1>4. QED
  BY <1>1, <1>2, <1>3 DEF ViewerIInv

\* A product with Scale keeps the order.
LEMMA Scaled ==
  ASSUME NEW x \in Nat, NEW y \in Nat, x <= y
  PROVE  /\ Scale * x \in Nat /\ Scale * y \in Nat
         /\ Scale * x <= Scale * y /\ x <= Scale * x
         /\ x > 0 => Scale * x > 0
<1> USE ViewerAssumption
<1>1. Scale * x \in Nat /\ Scale * y \in Nat /\ Scale * (y - x) \in Nat /\ (Scale - 1) * x \in Nat
  OBVIOUS
<1>2. Scale * y = Scale * x + Scale * (y - x) /\ Scale * x = x + (Scale - 1) * x
  OBVIOUS
<1>3. QED
  BY <1>1, <1>2

\* A time step is a number of the range of dt, and only the browser's clock or a
\* missing reference makes it zero.
LEMMA Steps ==
  ASSUME ViewerTypeOK, Referenced, previousTimestamp # Null, NEW m \in Sample
  PROVE  /\ Step(m) \in 0..(Scale * MaxTime)
         /\ Step(m) = 0 /\ ~NoReference(m) => BrowserTime(m) = clock
<1> USE ViewerAssumption DEF Time, Null
<1> DEFINE delta == m.timestamp - previousTimestamp
<1>1. delta \in Int /\ delta <= MaxTime
  BY DEF ViewerTypeOK, Sample
<1>2. clock - previousBrowserTime \in Nat /\ clock - previousBrowserTime <= MaxTime
  BY DEF ViewerTypeOK, Referenced
<1>3. CASE delta \in 1..(MicrosLimit - 1)
  <2>1. delta \in Nat /\ delta > 0 /\ Scale * delta <= Scale * MaxTime /\ Scale * delta > 0
        /\ delta <= Scale * delta /\ Scale * delta \in Nat /\ Scale * MaxTime \in Nat
    BY <1>1, <1>3, Scaled
  <2>2. Step(m) \in {delta, Scale * delta}
    BY <1>3 DEF Step
  <2>3. QED
    BY <2>1, <2>2
<1>4. CASE delta \notin 1..(MicrosLimit - 1)
  <2>1. Step(m) = Scale * (clock - previousBrowserTime)
    BY <1>1, <1>4 DEF Step
  <2>2. BrowserTime(m) = clock
    BY <1>4 DEF BrowserTime
  <2>3. QED
    BY <1>2, <2>1, <2>2, Scaled
<1>5. QED
  BY <1>3, <1>4

\* What one message does to the estimate, whichever of its two branches it takes.
LEMMA UpdatesStep ==
  ASSUME ViewerTypeOK, Referenced, NEW m \in Sample, Updates(m), UNCHANGED clock
  PROVE  /\ dt' \in 0..(Scale * MaxTime)
         /\ previousTimestamp' \in Time /\ previousAt' \in Time /\ previousTimestamp' # Null
         /\ previousBrowserTime' \in Time /\ since' \in Time /\ sinceAt' \in Time
         /\ total' \in Nat
         /\ hasOrientation' /\ Referenced'
<1> USE ViewerAssumption DEF Time, Null
<1>1. m.timestamp \in Time /\ m.at \in Time
  BY DEF Sample
<1>2. previousBrowserTime' \in {clock, previousBrowserTime} /\ since' \in {clock, since}
  BY DEF Updates, BrowserTime
<1>3. NoReference(m) => previousBrowserTime' = clock /\ dt' = 0
  BY DEF Updates, BrowserTime
<1>4. ~NoReference(m) => dt' = Step(m) /\ previousTimestamp # Null
  BY DEF Updates, NoReference
<1>5. dt' \in 0..(Scale * MaxTime) /\ (dt' = 0 => previousBrowserTime' = clock)
  <2>1. 0 \in 0..(Scale * MaxTime)
    BY Scaled
  <2>2. ~NoReference(m) => dt' \in 0..(Scale * MaxTime) /\ (dt' = 0 => BrowserTime(m) = clock)
    BY <1>4, Steps
  <2>3. QED
    BY <1>3, <2>1, <2>2 DEF Updates
<1>6. previousBrowserTime' >= since'
  <2>1. CASE hasOrientation /\ dt' > 0
    BY <1>2, <2>1 DEF Updates, Referenced, ViewerTypeOK
  <2>2. CASE ~hasOrientation
    BY <1>3, <2>2 DEF Updates, Referenced, NoReference, ViewerTypeOK
  <2>3. CASE ~(dt' > 0)
    <3>1. dt' = 0
      BY <1>5, <2>3, Scaled
    <3>2. QED
      BY <1>5, <2>3, <3>1 DEF Updates, ViewerTypeOK
  <2>4. QED
    BY <2>1, <2>2, <2>3
<1>7. sinceAt' \in Time /\ total' \in Nat
  <2>1. dt' \in Nat
    BY <1>5, Scaled
  <2>2. CASE hasOrientation /\ dt' > 0
    BY <2>1, <2>2 DEF Updates, ViewerTypeOK
  <2>3. CASE ~(hasOrientation /\ dt' > 0)
    BY <1>1, <2>3 DEF Updates
  <2>4. QED
    BY <2>2, <2>3
<1>8. QED
  BY <1>1, <1>2, <1>5, <1>6, <1>7 DEF Updates, Referenced, ViewerTypeOK

\* The steps outside the page leave it alone, and keep the samples in order.
LEMMA TelemetryStep ==
  ViewerIInv /\ (Tick \/ Restart \/ Takes \/ Misses) => ViewerIInv'
<1> SUFFICES ASSUME ViewerIInv, Tick \/ Restart \/ Takes \/ Misses PROVE ViewerIInv'
  OBVIOUS
<1> USE ViewerAssumption DEF ViewerIInv, calibration, estimate
<1>0. UNCHANGED <<sock, websocket, connected, calibration, estimate>>
  BY DEF Tick, Restart, Takes, Misses
<1>1. /\ clock' \in Time /\ node' \in Time /\ sample' \in Sample /\ relayed' \in Sample
      /\ clock' >= clock
  BY DEF Tick, Restart, Takes, Misses, ViewerTypeOK, NoGain, Time, Sample
<1>2. ViewerTypeOK'
  BY <1>0, <1>1 DEF ViewerTypeOK
<1>3. NoGain'
  <2> USE <1>0 DEF NoGain, Gains, Now, Previous, ViewerTypeOK, Time, Sample, Null
  <2>1. CASE Tick
    BY <2>1 DEF Tick
  <2>2. CASE Restart
    BY <2>2 DEF Restart
  <2>3. CASE Takes
    BY <2>3 DEF Takes
  <2>4. CASE Misses
    BY <2>4 DEF Misses
  <2>5. QED
    BY <2>1, <2>2, <2>3, <2>4
<1>4. OneSocket' /\ Calibrated'
  BY <1>0 DEF OneSocket, Live, Calibrated
<1>5. Referenced'
  BY <1>0, <1>1 DEF Referenced, ViewerTypeOK, Time
<1>6. QED
  BY <1>2, <1>3, <1>4, <1>5

\* The button, and the events of a socket: a page has at most one socket that is
\* not closed, so every event is one of that socket.
LEMMA SocketStep ==
  ASSUME ViewerIInv,
         \/ User
         \/ \E k \in Socket : OnOpen(k) \/ OnClose(k)
  PROVE  ViewerIInv'
<1> USE ViewerAssumption DEF ViewerIInv, telemetry, calibration, estimate
<1>0. UNCHANGED telemetry
  BY DEF User, Connect, Disconnect, OnOpen, OnClose
<1>1. CASE \E accepted \in BOOLEAN : Connect(accepted)
  <2>1. PICK accepted \in BOOLEAN, k \in Socket :
          /\ websocket = 0 /\ ResetEstimate /\ ResetCalibration /\ connected' = FALSE
          /\ IF accepted
             THEN sock' = [sock EXCEPT ![k] = "connecting"] /\ websocket' = k
             ELSE UNCHANGED <<sock, websocket>>
    BY <1>1 DEF Connect
  <2>2. /\ sock' \in [Socket -> {"none", "connecting", "open", "closing", "closed"}]
        /\ websocket' \in {0} \union Socket
    BY <2>1 DEF ViewerTypeOK
  <2>3. ViewerTypeOK'
    <3>1. 0 \in 0..CalibrationSamples
      OBVIOUS
    <3>2. QED
      BY <1>0, <2>1, <2>2, <3>1 DEF ViewerTypeOK, ResetEstimate, ResetCalibration
  <2>4. OneSocket'
    BY <2>1 DEF OneSocket, Live, ViewerTypeOK, Socket
  <2>5. Calibrated' /\ NoGain' /\ Referenced'
    BY <1>0, <2>1 DEF Calibrated, NoGain, Gains, Now, Previous, Referenced, ResetEstimate,
       ResetCalibration, ViewerTypeOK
  <2>6. QED
    BY <2>3, <2>4, <2>5
<1>2. CASE Disconnect
  <2>1. ViewerTypeOK' /\ OneSocket'
    BY <1>0, <1>2 DEF Disconnect, KeepSocket, ViewerTypeOK, OneSocket, Live
  <2>2. Calibrated' /\ NoGain' /\ Referenced'
    BY <1>0, <1>2 DEF Disconnect, KeepSocket, Calibrated, NoGain, Gains, Now, Previous,
       Referenced
  <2>3. QED
    BY <2>1, <2>2
<1>3. ASSUME NEW k \in Socket, OnOpen(k) PROVE ViewerIInv'
  <2>1. websocket = k /\ k # 0
    BY <1>3 DEF OnOpen, OneSocket, Live, Socket
  <2>2. ViewerTypeOK' /\ OneSocket'
    BY <1>0, <1>3, <2>1 DEF OnOpen, ViewerTypeOK, OneSocket, Live
  <2>3. Calibrated' /\ NoGain' /\ Referenced'
    BY <1>0, <1>3 DEF OnOpen, Calibrated, NoGain, Gains, Now, Previous, Referenced
  <2>4. QED
    BY <2>2, <2>3
<1>4. ASSUME NEW k \in Socket, OnClose(k) PROVE ViewerIInv'
  <2>1. websocket = k
    BY <1>4 DEF OnClose, OneSocket, Live
  <2>2. OneSocket'
    BY <1>4, <2>1 DEF OnClose, ViewerTypeOK, OneSocket, Live
  <2>3. ViewerTypeOK'
    BY <1>0, <1>4 DEF OnClose, ResetEstimate, ViewerTypeOK
  <2>4. Calibrated' /\ NoGain' /\ Referenced'
    BY <1>0, <1>4 DEF OnClose, ResetEstimate, Calibrated, NoGain, Gains, Now, Previous,
       Referenced, ViewerTypeOK
  <2>5. QED
    BY <2>2, <2>3, <2>4
<1>5. QED
  BY <1>1, <1>2, <1>3, <1>4 DEF User

\* A message of the one open socket, sample or heartbeat.
LEMMA MessageStep ==
  ASSUME ViewerIInv, NEW k \in Socket, OnSample(k) \/ OnHeartbeat(k)
  PROVE  ViewerIInv'
<1> USE ViewerAssumption DEF ViewerIInv
<1>1. PICK m \in Sample, zero \in BOOLEAN :
        /\ OnMessage(k, m, zero) /\ relayed' = m
        /\ m = sample \/ m = relayed
  BY DEF OnSample, OnHeartbeat, ViewerTypeOK
<1>2. websocket = k /\ k # 0
  BY <1>1 DEF OnMessage, OneSocket, Live, Socket
<1>3. UNCHANGED <<clock, node, sample, sock, websocket>> /\ connected' = TRUE
  BY <1>1 DEF OnMessage
<1>4. OneSocket'
  BY <1>1, <1>2, <1>3 DEF OnMessage, OneSocket, Live
<1>5. CASE Calibrates(k, zero)
  <2> USE DEF Calibrates, Weight, Unfinished, ResetEstimate, estimate
  <2>1. active /\ ~hasOrientation /\ count + 1 \in 0..CalibrationSamples /\ inputs' = {k}
    <3>1. active /\ ~hasOrientation /\ count < CalibrationSamples /\ inputs \subseteq {k}
      BY <1>2, <1>5 DEF Calibrated
    <3>2. count + 1 \in 0..CalibrationSamples
      BY <3>1 DEF ViewerTypeOK
    <3>3. inputs' = {k}
      BY <1>5, <3>1
    <3>4. QED
      BY <3>1, <3>2, <3>3
  <2>2. count' \in 0..CalibrationSamples /\ active' \in BOOLEAN /\ biasOf' \subseteq Socket
    BY <1>5, <2>1 DEF ViewerTypeOK
  <2>3. /\ previousTimestamp' \in {Null, previousTimestamp} /\ hasOrientation' = FALSE
        /\ UNCHANGED <<previousBrowserTime, dt, previousAt, since, sinceAt, total>>
        /\ previousTimestamp = Null
    BY <1>5, <2>1 DEF Referenced, ViewerTypeOK
  <2>4. ViewerTypeOK'
    BY <1>1, <1>3, <2>1, <2>2, <2>3 DEF ViewerTypeOK
  <2>5. Calibrated'
    BY <1>2, <1>3, <1>5, <2>1, <2>2, <2>3 DEF Calibrated, ViewerTypeOK
  <2>6. NoGain' /\ Referenced'
    BY <1>1, <1>3, <2>3 DEF NoGain, Gains, Now, Previous, Referenced, Sample, Time
  <2>7. QED
    BY <1>4, <2>4, <2>5, <2>6
<1>6. CASE Updates(m)
  <2>1. UNCHANGED calibration /\ ~active /\ previousTimestamp' = m.timestamp /\ previousAt' = m.at
    BY <1>6 DEF Updates
  <2>2. Referenced' /\ hasOrientation' = TRUE
    BY <1>3, <1>6, UpdatesStep DEF Updates
  <2>3. ViewerTypeOK'
    BY <1>1, <1>3, <1>6, <2>1, UpdatesStep DEF ViewerTypeOK, calibration, Updates
  <2>4. Calibrated'
    BY <1>2, <1>3, <2>1 DEF Calibrated, calibration
  <2>5. NoGain'
    BY <1>1, <1>3, <2>1 DEF NoGain, Gains, Now, Previous, ViewerTypeOK, Sample, Time
  <2>6. QED
    BY <1>4, <2>2, <2>3, <2>4, <2>5
<1>7. QED
  BY <1>1, <1>5, <1>6 DEF OnMessage

LEMMA ViewerStepIInv == ViewerIInv /\ [ViewerNext]_viewerVars => ViewerIInv'
<1> SUFFICES ASSUME ViewerIInv, [ViewerNext]_viewerVars PROVE ViewerIInv'
  OBVIOUS
<1>1. CASE UNCHANGED viewerVars
  BY <1>1 DEF viewerVars, telemetry, calibration, estimate, ViewerIInv, ViewerTypeOK, OneSocket, Live,
     Calibrated, NoGain, Gains, Now, Previous, Referenced
<1>2. CASE Tick \/ Restart \/ Takes \/ Misses
  BY <1>2, TelemetryStep
<1>3. CASE User \/ \E k \in Socket : OnOpen(k) \/ OnClose(k)
  BY <1>3, SocketStep
<1>4. CASE \E k \in Socket : OnSample(k) \/ OnHeartbeat(k)
  BY <1>4, MessageStep
<1>5. QED
  BY <1>1, <1>2, <1>3, <1>4 DEF ViewerNext

THEOREM ViewerInductive == ViewerSpec => []ViewerIInv
  BY ViewerInitIInv, ViewerStepIInv, PTL DEF ViewerSpec

-----------------------------------------------------------------------------

\* The variables of the page keep their types; in particular the counter of the
\* calibration never passes its end, and a time step is never negative
\* (app.js:203-270).
THEOREM ViewerTypeCorrect == ViewerSpec => []ViewerTypeOK
  BY ViewerInductive, PTL DEF ViewerIInv

\* However the button is used while a socket is being opened or closed, there is
\* one socket at most and the status is that one's (app.js:313-364).
THEOREM NeverTwoSockets == ViewerSpec => []OneSocket
  BY ViewerInductive, PTL DEF ViewerIInv

\* What is shown was calibrated in full during the connection that shows it
\* (app.js:185-222, 320-332).
THEOREM CalibratedBeforeShown == ViewerSpec => []ShownIsCalibrated
<1>1. ViewerIInv => ShownIsCalibrated
  BY DEF ViewerIInv, Calibrated, ShownIsCalibrated, ViewerTypeOK
<1>2. QED
  BY <1>1, ViewerInductive, PTL

\* The samples a page gets are ordered by the time they were taken, and what it
\* has integrated is covered by the two clocks it looks at.
Elapsed == (previousBrowserTime - since) + (previousAt - sinceAt)
Integrated ==
  /\ relayed.at <= sample.at
  /\ previousTimestamp # Null => previousAt <= relayed.at
  /\ hasOrientation => sinceAt <= previousAt /\ total <= Scale * Elapsed

LEMMA Distributes ==
  ASSUME NEW x \in Nat, NEW y \in Nat
  PROVE  Scale * (x + y) = Scale * x + Scale * y /\ Scale * x \in Nat /\ Scale * y \in Nat
<1>1. Scale \in Nat
  BY ViewerAssumption
<1>2. QED
  BY <1>1

\* A time step is taken from the timestamps, and then no longer than the time
\* between the samples, or from the browser's clock, which is then read anew.
LEMMA StepSource ==
  ASSUME ViewerIInv, NEW m \in {sample, relayed}, ~NoReference(m)
  PROVE  \/ /\ m.timestamp - previousTimestamp \in 1..(MicrosLimit - 1)
            /\ previousAt <= m.at /\ Step(m) <= Scale * (m.at - previousAt)
            /\ BrowserTime(m) = previousBrowserTime
         \/ /\ m.timestamp - previousTimestamp \notin 1..(MicrosLimit - 1)
            /\ Step(m) = Scale * (clock - previousBrowserTime)
            /\ BrowserTime(m) = clock
<1> USE ViewerAssumption DEF ViewerIInv, Time, Null
<1> DEFINE delta == m.timestamp - previousTimestamp
<1>1. m \in Sample /\ previousTimestamp \in Time
  BY DEF NoReference, ViewerTypeOK
<1>2. delta \in Int /\ delta <= m.at - previousAt /\ m.at - previousAt \in Int
  BY <1>1 DEF NoReference, NoGain, Gains, Previous, ViewerTypeOK, Sample
<1>3. CASE delta \in 1..(MicrosLimit - 1)
  <2>1. Step(m) \in {delta, Scale * delta}
    BY <1>3 DEF Step
  <2>2. m.at - previousAt \in Nat
    BY <1>2, <1>3
  <2>3. /\ delta <= Scale * delta /\ Scale * delta <= Scale * (m.at - previousAt)
        /\ Scale * delta \in Nat /\ Scale * (m.at - previousAt) \in Nat
    BY <1>2, <1>3, <2>2, Scaled
  <2>4. Step(m) <= Scale * (m.at - previousAt)
    BY <1>2, <2>1, <2>3
  <2>5. previousAt <= m.at
    BY <1>1, <2>2 DEF ViewerTypeOK, Sample
  <2>6. BrowserTime(m) = previousBrowserTime
    BY <1>3 DEF BrowserTime
  <2>7. QED
    BY <1>3, <2>4, <2>5, <2>6
<1>4. CASE delta \notin 1..(MicrosLimit - 1)
  <2>1. Step(m) = Scale * (clock - previousBrowserTime)
    BY <1>2, <1>4 DEF Step
  <2>2. BrowserTime(m) = clock
    BY <1>4 DEF BrowserTime
  <2>3. QED
    BY <1>4, <2>1, <2>2
<1>5. QED
  BY <1>3, <1>4

\* What one sample adds is what one of the two clocks has moved on.
LEMMA UpdatesIntegrated ==
  ASSUME ViewerIInv, Integrated, NEW m \in {sample, relayed}, Updates(m),
         UNCHANGED clock
  PROVE  sinceAt' <= previousAt' /\ total' <= Scale * Elapsed'
<1> USE ViewerAssumption DEF ViewerIInv, Time, Null
<1>1. m \in Sample /\ previousTimestamp' = m.timestamp /\ previousAt' = m.at
  BY DEF Updates, ViewerTypeOK
<1>2. previousTimestamp # Null => previousAt <= m.at
  BY DEF Integrated, ViewerTypeOK, Sample
<1>3. CASE hasOrientation /\ dt' > 0
  <2>1. ~NoReference(m) /\ dt' = Step(m) /\ previousBrowserTime' = BrowserTime(m)
    BY <1>3 DEF Updates
  <2>2. /\ total' = total + dt' /\ since' = since /\ sinceAt' = sinceAt
    BY <1>3 DEF Updates
  <2> DEFINE a == previousBrowserTime - since
             b == previousAt - sinceAt
             c == clock - previousBrowserTime
             d == m.at - previousAt
  <2>3. a \in Nat /\ b \in Nat /\ c \in Nat /\ d \in Nat
    <3>1. previousTimestamp # Null
      BY <2>1 DEF NoReference
    <3>2. since <= previousBrowserTime /\ previousBrowserTime <= clock /\ sinceAt <= previousAt
      BY <1>3 DEF Referenced, Integrated
    <3>3. QED
      BY <1>1, <1>2, <3>1, <3>2 DEF ViewerTypeOK, Sample
  <2>4. total \in Nat /\ total <= Scale * (a + b)
    BY <1>3 DEF ViewerTypeOK, Integrated, Elapsed
  <2>5. sinceAt' <= previousAt'
    BY <1>1, <2>2, <2>3 DEF ViewerTypeOK, Sample
  <2>6. /\ Scale * ((a + b) + c) = Scale * (a + b) + Scale * c
        /\ Scale * ((a + b) + d) = Scale * (a + b) + Scale * d
        /\ Scale * (a + b) \in Nat /\ Scale * c \in Nat /\ Scale * d \in Nat
    <3>1. a + b \in Nat
      BY <2>3
    <3> HIDE DEF a, b, c, d
    <3>2. QED
      BY <2>3, <3>1, Distributes
  <2>7. /\ Scale * (((a + b) + c) + d) = Scale * ((a + b) + c) + Scale * d
        /\ Scale * ((a + b) + c) \in Nat
    <3>1. (a + b) + c \in Nat
      BY <2>3
    <3> HIDE DEF a, b, c, d
    <3>2. QED
      BY <2>3, <3>1, Distributes
  <2>8. CASE BrowserTime(m) = previousBrowserTime /\ Step(m) <= Scale * d
    <3>1. Elapsed' = (a + b) + d
      BY <1>1, <2>1, <2>2, <2>8 DEF Elapsed, ViewerTypeOK, Sample
    <3>2. Step(m) \in Nat
      <4>1. 0..(Scale * MaxTime) \subseteq Nat
        BY Scaled
      <4>2. QED
        BY <1>1, <2>1, <4>1, Steps DEF NoReference
    <3> HIDE DEF a, b, c, d
    <3>3. total' <= Scale * (a + b) + Scale * d
      BY <2>1, <2>2, <2>4, <2>6, <2>8, <3>2
    <3>4. QED
      BY <2>5, <2>6, <3>1, <3>3
  <2>9. CASE BrowserTime(m) = clock /\ Step(m) = Scale * c
    <3>1. Elapsed' = ((a + b) + c) + d
      BY <1>1, <2>1, <2>2, <2>9 DEF Elapsed, ViewerTypeOK, Sample
    <3> HIDE DEF a, b, c, d
    <3>2. total' <= Scale * (a + b) + Scale * c
      BY <2>1, <2>2, <2>4, <2>6, <2>9
    <3>3. total' <= Scale * (((a + b) + c) + d)
      BY <2>1, <2>2, <2>4, <2>6, <2>7, <2>9, <3>2
    <3>4. QED
      BY <2>5, <3>1, <3>3
  <2>10. QED
    BY <2>1, <2>8, <2>9, StepSource
<1>4. CASE ~(hasOrientation /\ dt' > 0)
  <2>1. total' = 0 /\ since' = clock /\ sinceAt' = m.at
    BY <1>4 DEF Updates
  <2>2. previousBrowserTime' >= since' /\ previousBrowserTime' <= clock
    BY <1>1, UpdatesStep DEF Referenced
  <2>3. Elapsed' = 0
    BY <1>1, <2>1, <2>2, UpdatesStep DEF Elapsed, ViewerTypeOK, Sample
  <2>4. QED
    BY <1>1, <2>1, <2>3 DEF Sample
<1>5. QED
  BY <1>3, <1>4

LEMMA IntegratedStep ==
  ViewerIInv /\ Integrated /\ [ViewerNext]_viewerVars => Integrated'
<1> SUFFICES ASSUME ViewerIInv, Integrated, [ViewerNext]_viewerVars PROVE Integrated'
  OBVIOUS
<1> USE DEF Integrated, Elapsed, estimate, telemetry
<1>1. CASE UNCHANGED viewerVars
  BY <1>1 DEF viewerVars
<1>2. CASE Tick
  BY <1>2 DEF Tick
<1>3. CASE Restart
  BY <1>3 DEF Restart
<1>4. CASE Takes
  BY <1>4 DEF Takes, ViewerIInv, ViewerTypeOK, NoGain, Sample, Time
<1>5. CASE Misses
  BY <1>5 DEF Misses, ViewerIInv, ViewerTypeOK, Sample, Time
<1>6. ASSUME NEW accepted \in BOOLEAN, Connect(accepted) PROVE Integrated'
  BY <1>6 DEF Connect, ResetEstimate
<1>7. CASE Disconnect
  BY <1>7 DEF Disconnect
<1>8. ASSUME NEW k \in Socket, OnOpen(k) PROVE Integrated'
  BY <1>8 DEF OnOpen
<1>9. ASSUME NEW k \in Socket, OnClose(k) PROVE Integrated'
  BY <1>9 DEF OnClose, ResetEstimate
<1>10. ASSUME NEW k \in Socket, OnSample(k) \/ OnHeartbeat(k) PROVE Integrated'
  <2>1. PICK m \in {sample, relayed}, zero \in BOOLEAN :
          OnMessage(k, m, zero) /\ relayed' = m
    BY <1>10 DEF OnSample, OnHeartbeat
  <2>2. UNCHANGED <<clock, sample>>
    BY <2>1 DEF OnMessage
  <2>3. m.at <= sample.at /\ relayed.at <= m.at
    BY DEF ViewerIInv, ViewerTypeOK, Sample, Time
  <2>4. CASE Calibrates(k, zero)
    <3>1. ~hasOrientation /\ previousTimestamp = Null
      BY <2>4 DEF Calibrates, ViewerIInv, Calibrated, Referenced
    <3>2. hasOrientation' = FALSE /\ previousTimestamp' = Null
      BY <2>4, <3>1 DEF Calibrates, ResetEstimate, ViewerIInv, ViewerTypeOK
    <3>3. QED
      BY <2>1, <2>2, <2>3, <3>2
  <2>5. CASE Updates(m)
    <3>1. sinceAt' <= previousAt' /\ total' <= Scale * Elapsed'
      BY <2>2, <2>5, UpdatesIntegrated
    <3>2. previousAt' <= relayed'.at /\ relayed'.at <= sample'.at
      BY <2>1, <2>2, <2>3, <2>5 DEF Updates, ViewerIInv, ViewerTypeOK, Sample, Time
    <3>3. QED
      BY <3>1, <3>2
  <2>6. QED
    BY <2>1, <2>4, <2>5 DEF OnMessage
<1>11. QED
  BY <1>1, <1>2, <1>3, <1>4, <1>5, <1>6, <1>7, <1>8, <1>9, <1>10 DEF ViewerNext, User

\* The rates of turn are integrated over a moment twice at most, although a step
\* that falls back on the browser's clock measures from where that was read last
\* and not from the last message (app.js:233-257).
THEOREM TimeCountsTwice == ViewerSpec => []CountsTimeTwiceAtMost
<1>1. ViewerInit => Integrated
  BY DEF ViewerInit, Integrated
<1>2. Integrated => CountsTimeTwiceAtMost
  BY DEF Integrated, Elapsed, CountsTimeTwiceAtMost
<1>3. QED
  BY <1>1, <1>2, IntegratedStep, ViewerInductive, PTL DEF ViewerSpec

\* A difference of timestamps that is taken for a time step is no longer than
\* the time between the samples, whichever unit is guessed (app.js:233-257).
THEOREM StepsAreNotTooLong == ViewerSpec => StepNotTooLong
<1>1. ASSUME ViewerIInv, ViewerNext, dt' > 0, previousTimestamp' \notin {previousTimestamp, Null}
      PROVE  \/ dt' <= Scale * (previousAt' - previousAt)
             \/ previousTimestamp' < previousTimestamp
             \/ previousTimestamp' - previousTimestamp >= MicrosLimit
  <2> USE ViewerAssumption DEF ViewerIInv, Time, Null
  <2>1. PICK m \in {sample, relayed} : Updates(m)
    BY <1>1 DEF ViewerNext, User, Tick, Restart, Takes, Misses, Connect, Disconnect, OnOpen, OnClose,
       OnSample, OnHeartbeat, OnMessage, Calibrates, ResetEstimate, estimate
  <2> DEFINE delta == m.timestamp - previousTimestamp
  <2>2. m \in Sample /\ previousTimestamp' = m.timestamp /\ previousAt' = m.at
    BY <1>1, <2>1 DEF Updates, ViewerTypeOK
  <2>3. ~NoReference(m)
    BY <1>1, <2>1, <2>2 DEF Updates
  <2>4. dt' = Step(m) /\ previousTimestamp \in Time
    BY <1>1, <2>1, <2>3 DEF Updates, NoReference, ViewerTypeOK
  <2>5. delta \in Int /\ delta <= m.at - previousAt /\ m.at - previousAt \in Int
    BY <1>1, <2>1, <2>2, <2>3, <2>4 DEF NoReference, NoGain, Gains, Previous, ViewerTypeOK, Sample
  <2>6. CASE delta \in 1..(MicrosLimit - 1)
    <3>1. Step(m) \in {delta, Scale * delta}
      BY <2>6 DEF Step
    <3>2. /\ delta <= Scale * delta /\ Scale * delta <= Scale * (m.at - previousAt)
          /\ Scale * delta \in Nat /\ Scale * (m.at - previousAt) \in Nat
      BY <2>5, <2>6, Scaled
    <3>3. QED
      BY <2>2, <2>4, <2>6, <3>1, <3>2
  <2>7. CASE delta \notin 1..(MicrosLimit - 1)
    BY <2>2, <2>3, <2>4, <2>5, <2>7 DEF NoReference, Sample
  <2>8. QED
    BY <2>6, <2>7
<1>2. ViewerIInv /\ [ViewerNext]_viewerVars
      => [dt' > 0 /\ previousTimestamp' \notin {previousTimestamp, Null}
            => \/ dt' <= Scale * (previousAt' - previousAt)
               \/ previousTimestamp' < previousTimestamp
               \/ previousTimestamp' - previousTimestamp >= MicrosLimit]_viewerVars
  BY <1>1
<1>3. QED
  BY <1>2, ViewerInductive, PTL DEF ViewerSpec, StepNotTooLong
=============================================================================
