-------------------------- MODULE RendezvousProof --------------------------
(***************************************************************************)
(* Proofs about Rendezvous, for all sets of hosts and clients, every bound *)
(* on the lobbies and every capacity of the manager's channel.             *)
(***************************************************************************)
EXTENDS Rendezvous, TLAPS

(***************************************************************************)
(* The inductive invariant.                                                *)
(***************************************************************************)

\* c is a client that has joined, and h the host of the lobby it has joined.
Pair(c, h) ==
  /\ c \in Client /\ ccode[c] \in Code
  /\ cpc[c] # "start"
  /\ h \in Host /\ session[ccode[c]].host = h

\* c is a client that has asked for the lobby with code k.
Asked(c, k) == c \in Client /\ cpc[c] # "start" /\ ccode[c] = k

\* What travels is true: a join has its client's code, an address is sent to
\* the counterpart of its owner.
NetIsTrue ==
  \A m \in net :
     /\ m.kind = "create" => m.src \in Host
     /\ m.kind = "join" => Asked(m.src, m.code)
     /\ m.kind = "addr" => Pair(m.dst, m.addr) \/ Pair(m.addr, m.dst)

\* The manager has at most one join to answer, the one udp_handler awaits; and
\* a lobby is created once, before which it has neither host nor client.
ChannelIsTrue ==
  /\ \A i \in DOMAIN channel :
        /\ channel[i].kind = "CreateLobby" =>
              /\ channel[i].addr \in Host
              /\ channel[i].code <= lobbies
              /\ session[channel[i].code].host = None
        /\ channel[i].kind = "JoinLobby" =>
              /\ Asked(channel[i].addr, channel[i].code)
              /\ upc = "response" /\ response = "pending"
              /\ joiner = channel[i].addr
  /\ \A i, j \in DOMAIN channel :
        channel[i].kind = channel[j].kind /\ channel[i].code = channel[j].code
           => i = j

\* The answer udp_handler has, and what it has passed to the responders, is
\* the host of the joiner's lobby.
AnswerIsTrue ==
  /\ upc = "response" =>
        /\ joiner \in Client
        /\ response \notin {"pending", "dropped"} => Pair(joiner, response)
  /\ \A r \in responders : Pair(r.client, r.host)

\* A lobby with a client has a host, and a host's lobby has been drawn; a timer
\* runs for joined lobbies only.
LobbiesAreTrue ==
  /\ \A k \in Code :
        /\ session[k].host \in Host \union {None}
        /\ session[k].host # None => k <= lobbies
        /\ session[k].client # None => session[k].host # None
  /\ \A k \in timers : session[k].client # None

\* Whoever is done has its counterpart.
PeersAreTrue ==
  /\ \A c \in Client : cpc[c] = "done" => Pair(c, chost[c])
  /\ \A h \in Host : hpc[h] = "done" => Pair(hpeer[h], h)

IInv ==
  /\ TypeOK /\ NetIsTrue /\ ChannelIsTrue /\ AnswerIsTrue /\ LobbiesAreTrue
  /\ PeersAreTrue /\ KeptAliveUntilJoined

(***************************************************************************)
(* What never changes.                                                     *)
(***************************************************************************)

\* A client that has asked goes on asking for the same lobby, and a lobby that
\* has a host keeps it.
Lasting ==
  /\ \A c \in Client :
        cpc[c] # "start" => cpc'[c] # "start" /\ ccode'[c] = ccode[c]
  /\ \A k \in Code :
        session[k].host # None => session'[k].host = session[k].host

\* The first message in the manager's channel, and what is left of the channel
\* without it.
LEMMA ChannelHead ==
  ASSUME TypeOK, channel # <<>>
  PROVE  /\ Head(channel) = channel[1] /\ 1 \in DOMAIN channel
         /\ Head(channel) \in Message
         /\ Tail(channel) \in Seq(Message) /\ Len(Tail(channel)) <= ChanCap
         /\ \A i \in DOMAIN Tail(channel) :
               i + 1 \in DOMAIN channel /\ Tail(channel)[i] = channel[i + 1]
         /\ DOMAIN Tail(channel) \subseteq Nat \ {0}
<1>1. channel \in Seq(Message) /\ Len(channel) <= ChanCap /\ ChanCap \in Nat
  BY RendezvousAssumption DEF TypeOK
<1> QED
  BY <1>1

\* No action of the server or of a peer takes back what was established.
LEMMA LastingStep == IInv /\ [Next]_vars => Lasting
<1> SUFFICES ASSUME IInv, [Next]_vars PROVE Lasting
  OBVIOUS
<1> USE DEF Lasting, serverVars, clientVars
<1>1. ASSUME HandlerCreate PROVE Lasting
  <2>1. /\ channel # <<>> /\ Head(channel).kind = "CreateLobby"
        /\ cpc' = cpc /\ ccode' = ccode
        /\ session' = [session EXCEPT ![Head(channel).code] =
             [host |-> Head(channel).addr, client |-> None, shutdown |-> TRUE]]
    BY <1>1 DEF HandlerCreate
  <2>2. session[Head(channel).code].host = None
    BY <2>1, ChannelHead DEF IInv, ChannelIsTrue
  <2> QED
    BY <2>1, <2>2 DEF IInv, TypeOK
<1>2. ASSUME HandlerJoin PROVE Lasting
  <2>1. cpc' = cpc /\ ccode' = ccode
    BY <1>2 DEF HandlerJoin
  <2>2. ASSUME NEW k \in Code PROVE session'[k].host = session[k].host
    BY <1>2 DEF HandlerJoin, Known, IInv, TypeOK
  <2> QED
    BY <2>1, <2>2
<1>3. ASSUME NEW c \in Client, NEW k \in Code \union {BadCode}, ClientJoin(c, k)
      PROVE  Lasting
  BY <1>3 DEF ClientJoin, IInv, TypeOK
<1>4. ASSUME NEW c \in Client, NEW m \in net, ClientRecv(c, m)
      PROVE  Lasting
  BY <1>4 DEF ClientRecv, IInv, TypeOK
<1>5. ASSUME UNCHANGED <<cpc, ccode, session>> PROVE Lasting
  BY <1>5
<1>6. ASSUME NEW m, Udp(m) PROVE UNCHANGED <<cpc, ccode, session>>
  BY <1>6 DEF Udp, UdpCreate, UdpJoin
<1>7. ASSUME \/ UdpResponse
             \/ \E r \in responders : Respond(r)
             \/ \E k \in Code : KeepAlive(k) \/ Shutdown(k)
             \/ \E h \in Host : \/ HostCreate(h)
                                \/ \E m \in net \intersect ToPeer :
                                      HostFirst(h, m) \/ HostRecv(h, m)
      PROVE  UNCHANGED <<cpc, ccode, session>>
  BY <1>7 DEF UdpResponse, Respond, KeepAlive, Shutdown, HostCreate, HostFirst,
              HostRecv
<1>8. UNCHANGED vars => UNCHANGED <<cpc, ccode, session>>
  BY DEF vars
<1> QED
  BY <1>1, <1>2, <1>3, <1>4, <1>5, <1>6, <1>7, <1>8 DEF Next, Handler

\* So a pair stays a pair, and a request a request.
LEMMA LastingFacts ==
  ASSUME Lasting, LobbiesAreTrue
  PROVE  /\ \A c, h : Pair(c, h) => Pair(c, h)'
         /\ \A c, k : Asked(c, k) => Asked(c, k)'
BY RendezvousAssumption DEF Lasting, Pair, Asked, Addr

(***************************************************************************)
(* Each part of the invariant is kept; one step per action that can        *)
(* disturb it.                                                             *)
(***************************************************************************)

\* The messages the manager is sent, and the datagrams, are of their types.
LEMMA MessageTypes ==
  /\ \A k \in Code, a \in Addr :
        [kind |-> "CreateLobby", code |-> k, addr |-> a] \in Message
  /\ \A k \in Code \union {BadCode}, a \in Addr :
        [kind |-> "JoinLobby", code |-> k, addr |-> a] \in Message
  /\ \A m \in ToServer : m.src \in Addr
  /\ \A m \in ToServer : m.kind = "join" => m.code \in Code \union {BadCode}
  /\ \A m \in ToPeer : m.kind = "code" => m.code \in Code
  /\ \A m \in ToPeer : m.kind = "addr" => m.addr \in Addr
  /\ \A m \in Message : /\ m.addr \in Addr
                        /\ m.kind \in {"CreateLobby", "JoinLobby"}
                        /\ m.code \in Code \union {BadCode}
                        /\ m.kind = "CreateLobby" => m.code \in Code
BY DEF Message, ToServer, ToPeer

\* Each datagram the programs send is one.
LEMMA DatagramTypes ==
  /\ \A a \in Addr : [src |-> a, kind |-> "create"] \in ToServer
  /\ \A a \in Addr, k \in Code \union {BadCode} :
        [src |-> a, kind |-> "join", code |-> k] \in ToServer
  /\ \A a \in Addr, k \in Code : [dst |-> a, kind |-> "code", code |-> k] \in ToPeer
  /\ \A a \in Addr : [dst |-> a, kind |-> "zero"] \in ToPeer
  /\ \A a, b \in Addr : [dst |-> a, kind |-> "addr", addr |-> b] \in ToPeer
BY DEF ToServer, ToPeer

\* Every step keeps the types.
LEMMA TypeStep == IInv /\ [Next]_vars => TypeOK'
<1> SUFFICES ASSUME IInv, [Next]_vars PROVE TypeOK'
  OBVIOUS
<1> USE RendezvousAssumption DEF IInv, TypeOK, serverVars, hostVars, clientVars
<1>1. ASSUME NEW m \in net \intersect ToServer, UdpCreate(m) PROVE TypeOK'
  <2>1. lobbies + 1 \in Code /\ lobbies + 1 \in 0..MaxLobby /\ m.src \in Addr
    BY <1>1, MessageTypes DEF UdpCreate, Code
  <2>2. /\ Append(channel, [kind |-> "CreateLobby", code |-> lobbies + 1,
                            addr |-> m.src]) \in Seq(Message)
        /\ Len(channel') <= ChanCap
    BY <1>1, <2>1, MessageTypes DEF UdpCreate
  <2>3. net' \subseteq ToServer \union ToPeer
    BY <1>1, <2>1, DatagramTypes DEF UdpCreate, Transmit
  <2> QED
    BY <1>1, <2>1, <2>2, <2>3 DEF UdpCreate
<1>2. ASSUME NEW m \in net \intersect ToServer, UdpJoin(m) PROVE TypeOK'
  <2>1. m.src \in Addr /\ m.code \in Code \union {BadCode}
    BY <1>2, MessageTypes DEF UdpJoin
  <2> DEFINE msg == [kind |-> "JoinLobby", code |-> m.code, addr |-> m.src]
  <2>2. msg \in Message
    BY <2>1, MessageTypes
  <2> HIDE DEF msg
  <2>3. Append(channel, msg) \in Seq(Message) /\ Len(Append(channel, msg)) <= ChanCap
    BY <1>2, <2>2 DEF UdpJoin
  <2> USE DEF msg
  <2> QED
    BY <1>2, <2>1, <2>3 DEF UdpJoin
<1>3. CASE UdpResponse
  <2>1. response # "dropped" => Responder \in [client : Addr, host : Addr]
    BY <1>3 DEF UdpResponse, Responder, AnswerIsTrue, Pair, Addr
  <2>2. responders' \subseteq [client : Addr, host : Addr]
    BY <1>3, <2>1 DEF UdpResponse
  <2> QED
    BY <1>3, <2>2 DEF UdpResponse
<1>4. ASSUME NEW r \in responders, Respond(r) PROVE TypeOK'
  <2>1. net' \subseteq ToServer \union ToPeer
    BY <1>4, DatagramTypes DEF Respond, Transmit
  <2> QED
    BY <1>4, <2>1 DEF Respond
<1>5. CASE HandlerCreate
  <2>1. /\ Head(channel).code \in Code /\ Head(channel).addr \in Addr
        /\ channel' \in Seq(Message) /\ Len(channel') <= ChanCap
    BY <1>5, ChannelHead, MessageTypes DEF HandlerCreate
  <2> QED
    BY <1>5, <2>1 DEF HandlerCreate
<1>6. CASE HandlerJoin
  <2>1. /\ Head(channel).addr \in Addr
        /\ channel' \in Seq(Message) /\ Len(channel') <= ChanCap
    BY <1>6, ChannelHead, MessageTypes DEF HandlerJoin
  <2>2. response' \in Addr \union {"pending", "dropped"}
    BY <1>6 DEF HandlerJoin, Answer, Known
  <2>3. session' \in [Code -> [host : Addr \union {None},
                               client : Addr \union {None}, shutdown : BOOLEAN]]
    BY <1>6, <2>1 DEF HandlerJoin, Known
  <2>4. timers' \subseteq Code
    BY <1>6 DEF HandlerJoin, TimersAfterJoin, Known
  <2> QED
    BY <1>6, <2>1, <2>2, <2>3, <2>4 DEF HandlerJoin
<1>7. ASSUME NEW k \in Code, KeepAlive(k) PROVE TypeOK'
  <2>1. net' \subseteq ToServer \union ToPeer
    BY <1>7, DatagramTypes DEF KeepAlive, Transmit
  <2> QED
    BY <1>7, <2>1 DEF KeepAlive
<1>8. ASSUME NEW k \in Code, Shutdown(k) PROVE TypeOK'
  BY <1>8 DEF Shutdown
<1>9. ASSUME NEW h \in Host, HostCreate(h) PROVE TypeOK'
  <2>1. net' \subseteq ToServer \union ToPeer
    BY <1>9, DatagramTypes DEF HostCreate, Transmit, Addr
  <2> QED
    BY <1>9, <2>1 DEF HostCreate
<1>10. ASSUME NEW h \in Host, NEW m \in net \intersect ToPeer,
              HostFirst(h, m) \/ HostRecv(h, m)
       PROVE  TypeOK'
  <2>1. CASE HostFirst(h, m)
    BY <2>1, MessageTypes DEF HostFirst
  <2>2. CASE HostRecv(h, m)
    BY <2>2, MessageTypes DEF HostRecv
  <2> QED
    BY <1>10, <2>1, <2>2
<1>11. ASSUME NEW c \in Client, NEW k \in Code \union {BadCode}, ClientJoin(c, k)
       PROVE  TypeOK'
  <2>1. net' \subseteq ToServer \union ToPeer
    BY <1>11, DatagramTypes DEF ClientJoin, Transmit, Addr
  <2> QED
    BY <1>11, <2>1 DEF ClientJoin
<1>12. ASSUME NEW c \in Client, NEW m \in net \intersect ToPeer, ClientRecv(c, m)
       PROVE  TypeOK'
  BY <1>12, MessageTypes DEF ClientRecv
<1>13. CASE UNCHANGED vars
  BY <1>13 DEF vars
<1> QED
  BY <1>1, <1>2, <1>3, <1>4, <1>5, <1>6, <1>7, <1>8, <1>9, <1>10, <1>11, <1>12,
     <1>13
  DEF Next, Udp, Handler

\* A datagram that is in the network after a step was there before, or has
\* just been sent by one of the four senders.
LEMMA NetStep == IInv /\ [Next]_vars => NetIsTrue'
<1> SUFFICES ASSUME IInv, [Next]_vars, NEW m \in net'
             PROVE  (/\ m.kind = "create" => m.src \in Host
                     /\ m.kind = "join" => Asked(m.src, m.code)
                     /\ m.kind = "addr" => Pair(m.dst, m.addr) \/ Pair(m.addr, m.dst))'
  BY DEF NetIsTrue
<1> USE DEF IInv, serverVars, hostVars, clientVars
<1>1. /\ \A c, h : Pair(c, h) => Pair(c, h)'
      /\ \A c, k : Asked(c, k) => Asked(c, k)'
  BY LastingStep, LastingFacts
<1>2. CASE m \in net
  BY <1>1, <1>2 DEF NetIsTrue
<1>3. CASE m.kind \in {"code", "zero"}
  BY <1>3
<1>4. ASSUME NEW r \in responders, Respond(r), m \notin net, m.kind # "zero"
      PROVE  m.kind = "addr" /\ (Pair(m.dst, m.addr) \/ Pair(m.addr, m.dst))'
  <2>1. \/ m = [dst |-> r.client, kind |-> "addr", addr |-> r.host]
        \/ m = [dst |-> r.host, kind |-> "addr", addr |-> r.client]
    BY <1>4 DEF Respond, Transmit
  <2>2. Pair(r.client, r.host)'
    BY <1>1 DEF AnswerIsTrue
  <2>3. CASE m = [dst |-> r.client, kind |-> "addr", addr |-> r.host]
    <3>1. m.kind = "addr" /\ m.dst = r.client /\ m.addr = r.host
      BY <2>3
    <3> QED
      BY <2>2, <3>1 DEF Pair
  <2>4. CASE m = [dst |-> r.host, kind |-> "addr", addr |-> r.client]
    <3>1. m.kind = "addr" /\ m.dst = r.host /\ m.addr = r.client
      BY <2>4
    <3> QED
      BY <2>2, <3>1 DEF Pair
  <2> QED
    BY <2>1, <2>3, <2>4
<1>5. ASSUME NEW h \in Host, HostCreate(h), m \notin net
      PROVE  m.kind = "create" /\ m.src \in Host
  BY <1>5 DEF HostCreate, Transmit
<1>6. ASSUME NEW c \in Client, NEW k \in Code \union {BadCode}, ClientJoin(c, k),
             m \notin net
      PROVE  m.kind = "join" /\ Asked(m.src, m.code)'
  <2>1. /\ m.kind = "join" /\ m.src = c /\ m.code = k
        /\ cpc'[c] = "await_host" /\ ccode'[c] = k
    BY <1>6 DEF ClientJoin, Transmit, TypeOK
  <2> QED
    BY <2>1 DEF Asked
<1>7. ASSUME NEW x \in net \intersect ToServer, Udp(x), m \notin net
      PROVE  m.kind = "code"
  BY <1>7 DEF Udp, UdpCreate, UdpJoin, Transmit
<1>8. ASSUME NEW k \in Code, KeepAlive(k), m \notin net
      PROVE  m.kind = "zero"
  BY <1>8 DEF KeepAlive, Transmit
<1>9. ASSUME \/ UdpResponse
             \/ Handler
             \/ \E k \in Code : Shutdown(k)
             \/ \E h \in Host, x \in net \intersect ToPeer :
                   HostFirst(h, x) \/ HostRecv(h, x)
             \/ \E c \in Client, x \in net \intersect ToPeer : ClientRecv(c, x)
             \/ UNCHANGED vars
      PROVE  m \in net
  BY <1>9 DEF UdpResponse, Handler, HandlerCreate, HandlerJoin, Shutdown,
              HostFirst, HostRecv, ClientRecv, vars
<1> QED
  BY <1>2, <1>3, <1>4, <1>5, <1>6, <1>7, <1>8, <1>9 DEF Next

\* The channel gets a create with a fresh code, or the only join, and loses its
\* head.
LEMMA ChannelStep == IInv /\ [Next]_vars => ChannelIsTrue'
<1> SUFFICES ASSUME IInv, [Next]_vars PROVE ChannelIsTrue'
  OBVIOUS
<1> USE RendezvousAssumption DEF IInv, serverVars, hostVars, clientVars
<1>1. \A c, k : Asked(c, k) => Asked(c, k)'
  BY LastingStep, LastingFacts
<1>2. channel \in Seq(Message) /\ lobbies \in Nat /\ TypeOK
  BY DEF TypeOK
<1>3. ASSUME NEW m \in net \intersect ToServer, UdpCreate(m) PROVE ChannelIsTrue'
  <2> DEFINE new == [kind |-> "CreateLobby", code |-> lobbies + 1, addr |-> m.src]
  <2>1. /\ upc = "recv_from" /\ lobbies' = lobbies + 1
        /\ UNCHANGED <<upc, session, response, joiner>>
        /\ channel' = Append(channel, new)
        /\ m.src \in Host /\ lobbies + 1 \in Code
    BY <1>3 DEF UdpCreate, NetIsTrue, Code, TypeOK
  <2>2. session[lobbies + 1].host = None
    BY <1>2, <2>1 DEF LobbiesAreTrue
  <2>3. /\ DOMAIN channel' = 1..(Len(channel) + 1) /\ DOMAIN channel = 1..Len(channel)
        /\ \A i \in 1..Len(channel) : channel'[i] = channel[i]
        /\ channel'[Len(channel) + 1] = new
        /\ Len(channel) \in Nat
    BY <1>2, <2>1
  <2>4. \A i \in 1..Len(channel) :
           /\ channel[i].kind = "CreateLobby" /\ channel[i].addr \in Host
           /\ channel[i].code \in Nat /\ channel[i].code <= lobbies
           /\ session[channel[i].code].host = None
    BY <1>2, <2>1, <2>3, MessageTypes DEF ChannelIsTrue, Code
  <2>5. /\ new.kind = "CreateLobby" /\ new.code = lobbies + 1
        /\ new.addr = m.src
    OBVIOUS
  <2> HIDE DEF new
  <2>6. ASSUME NEW i \in DOMAIN channel'
        PROVE  /\ channel'[i].kind = "CreateLobby" /\ channel'[i].addr \in Host
               /\ channel'[i].code <= lobbies'
               /\ session'[channel'[i].code].host = None
    <3>1. CASE i \in 1..Len(channel)
      BY <1>2, <2>1, <2>3, <2>4, <3>1
    <3>2. CASE i = Len(channel) + 1
      BY <1>2, <2>1, <2>2, <2>3, <2>5, <3>2
    <3> QED
      BY <2>3, <3>1, <3>2
  <2>7. ASSUME NEW i \in DOMAIN channel', NEW j \in DOMAIN channel',
               channel'[i].kind = channel'[j].kind,
               channel'[i].code = channel'[j].code
        PROVE  i = j
    <3>1. CASE i \in 1..Len(channel) /\ j \in 1..Len(channel)
      BY <2>3, <2>7, <3>1 DEF ChannelIsTrue
    <3>2. CASE i = Len(channel) + 1 \/ j = Len(channel) + 1
      BY <1>2, <2>3, <2>4, <2>5, <2>7, <3>2
    <3> QED
      BY <2>3, <3>1, <3>2
  <2> QED
    BY <2>6, <2>7 DEF ChannelIsTrue
<1>4. ASSUME NEW m \in net \intersect ToServer, UdpJoin(m) PROVE ChannelIsTrue'
  <2> DEFINE new == [kind |-> "JoinLobby", code |-> m.code, addr |-> m.src]
  <2>1. /\ upc = "recv_from" /\ upc' = "response" /\ response' = "pending"
        /\ joiner' = m.src /\ lobbies' = lobbies /\ session' = session
        /\ channel' = Append(channel, new)
        /\ Asked(m.src, m.code)
    BY <1>4 DEF UdpJoin, NetIsTrue
  <2>2. /\ DOMAIN channel' = 1..(Len(channel) + 1) /\ DOMAIN channel = 1..Len(channel)
        /\ \A i \in 1..Len(channel) : channel'[i] = channel[i]
        /\ channel'[Len(channel) + 1] = new
        /\ Len(channel) \in Nat
    BY <1>2, <2>1
  <2>3. \A i \in 1..Len(channel) : channel[i].kind = "CreateLobby"
    BY <1>2, <2>1, <2>2, MessageTypes DEF ChannelIsTrue
  <2> QED
    BY <1>1, <1>2, <2>1, <2>2, <2>3 DEF ChannelIsTrue
<1>5. CASE HandlerCreate
  <2>1. /\ channel # <<>> /\ Head(channel).kind = "CreateLobby"
        /\ channel' = Tail(channel)
        /\ UNCHANGED <<upc, response, joiner, lobbies>>
    BY <1>5 DEF HandlerCreate
  <2>2. \A k \in Code : k # Head(channel).code => session'[k] = session[k]
    BY <1>5 DEF HandlerCreate, TypeOK
  <2>3. ASSUME NEW i \in DOMAIN channel'
        PROVE  /\ i + 1 \in DOMAIN channel /\ channel'[i] = channel[i + 1]
               /\ i + 1 # 1 /\ channel[i + 1] \in Message
    BY <1>2, <2>1, ChannelHead
  <2>4. ASSUME NEW i \in DOMAIN channel', channel'[i].kind = "CreateLobby"
        PROVE  /\ channel'[i].code \in Code
               /\ channel'[i].code # Head(channel).code
    BY <1>2, <2>1, <2>3, <2>4, ChannelHead, MessageTypes DEF ChannelIsTrue
  <2>5. ASSUME NEW i \in DOMAIN channel', NEW j \in DOMAIN channel',
               channel'[i].kind = channel'[j].kind,
               channel'[i].code = channel'[j].code
        PROVE  i = j
    <3>1. i \in Nat /\ j \in Nat
      BY <1>2, <2>1, ChannelHead
    <3>2. i + 1 = j + 1
      BY <2>3, <2>5 DEF ChannelIsTrue
    <3> QED
      BY <3>1, <3>2
  <2> QED
    BY <1>1, <2>1, <2>2, <2>3, <2>4, <2>5 DEF ChannelIsTrue
<1>6. CASE HandlerJoin
  <2>1. /\ channel # <<>> /\ Head(channel).kind = "JoinLobby"
        /\ channel' = Tail(channel)
        /\ UNCHANGED <<upc, joiner, lobbies>>
    BY <1>6 DEF HandlerJoin
  <2>2. \A k \in Code : session'[k].host = session[k].host
    BY <1>6 DEF HandlerJoin, Known, TypeOK
  <2>3. ASSUME NEW i \in DOMAIN channel'
        PROVE  /\ i + 1 \in DOMAIN channel /\ channel'[i] = channel[i + 1]
               /\ i + 1 # 1 /\ channel[i + 1] \in Message
    BY <1>2, <2>1, ChannelHead
  <2>4. ASSUME NEW i \in DOMAIN channel'
        PROVE  channel'[i].kind = "CreateLobby" /\ channel'[i].code \in Code
    <3>1. /\ i + 1 \in DOMAIN channel /\ i + 1 # 1
          /\ 1 \in DOMAIN channel /\ channel[1].kind = "JoinLobby"
      BY <1>2, <2>1, <2>3, ChannelHead
    <3>2. ASSUME channel[i + 1].kind = "JoinLobby" PROVE FALSE
      <4>1. channel[i + 1].addr = joiner /\ channel[1].addr = joiner
        BY <3>1, <3>2 DEF ChannelIsTrue
      <4>2. channel[i + 1].code = ccode[joiner] /\ channel[1].code = ccode[joiner]
        BY <3>1, <3>2, <4>1 DEF ChannelIsTrue, Asked
      <4> QED
        BY <3>1, <3>2, <4>2 DEF ChannelIsTrue
    <3> QED
      BY <2>3, <3>2, MessageTypes
  <2>5. ASSUME NEW i \in DOMAIN channel', NEW j \in DOMAIN channel',
               channel'[i].kind = channel'[j].kind,
               channel'[i].code = channel'[j].code
        PROVE  i = j
    <3>1. i \in Nat /\ j \in Nat
      BY <1>2, <2>1, ChannelHead
    <3>2. i + 1 = j + 1
      BY <2>3, <2>5 DEF ChannelIsTrue
    <3> QED
      BY <3>1, <3>2
  <2>6. ASSUME NEW i \in DOMAIN channel'
        PROVE  /\ channel'[i].addr \in Host /\ channel'[i].code <= lobbies'
               /\ session'[channel'[i].code].host = None
    <3>1. /\ channel[i + 1].addr \in Host /\ channel[i + 1].code <= lobbies
          /\ session[channel[i + 1].code].host = None
      BY <2>3, <2>4 DEF ChannelIsTrue
    <3> QED
      BY <2>1, <2>2, <2>3, <2>4, <3>1
  <2> QED
    BY <2>4, <2>5, <2>6 DEF ChannelIsTrue
<1>7. CASE UdpResponse
  <2>1. \A i \in DOMAIN channel : channel[i].kind # "JoinLobby"
    BY <1>7 DEF UdpResponse, ChannelIsTrue
  <2> QED
    BY <1>7, <2>1 DEF UdpResponse, ChannelIsTrue
<1>8. ASSUME UNCHANGED <<channel, lobbies, session, upc, response, joiner>>
      PROVE  ChannelIsTrue'
  BY <1>1, <1>8 DEF ChannelIsTrue
<1>9. ASSUME \/ \E r \in responders : Respond(r)
             \/ \E k \in Code : KeepAlive(k) \/ Shutdown(k)
             \/ \E h \in Host :
                   \/ HostCreate(h)
                   \/ \E m \in net \intersect ToPeer :
                         HostFirst(h, m) \/ HostRecv(h, m)
             \/ \E c \in Client :
                   \/ \E k \in Code \union {BadCode} : ClientJoin(c, k)
                   \/ \E m \in net \intersect ToPeer : ClientRecv(c, m)
             \/ UNCHANGED vars
      PROVE  UNCHANGED <<channel, lobbies, session, upc, response, joiner>>
  BY <1>9 DEF Respond, KeepAlive, Shutdown, HostCreate, HostFirst, HostRecv,
              ClientJoin, ClientRecv, vars
<1> QED
  BY <1>3, <1>4, <1>5, <1>6, <1>7, <1>8, <1>9 DEF Next, Udp, Handler

\* An answer is the host the manager finds under the joiner's code; the rest of
\* the server only passes it on.
LEMMA AnswerStep == IInv /\ [Next]_vars => AnswerIsTrue'
<1> SUFFICES ASSUME IInv, [Next]_vars PROVE AnswerIsTrue'
  OBVIOUS
<1> USE RendezvousAssumption DEF IInv, serverVars, hostVars, clientVars
<1>1. \A c, h : Pair(c, h) => Pair(c, h)'
  BY LastingStep, LastingFacts
<1>2. ASSUME NEW m \in net \intersect ToServer, UdpJoin(m) PROVE AnswerIsTrue'
  BY <1>1, <1>2 DEF UdpJoin, NetIsTrue, Asked, AnswerIsTrue
<1>3. CASE UdpResponse
  <2>1. upc' = "recv_from"
    BY <1>3 DEF UdpResponse
  <2>2. response # "dropped" => Pair(Responder.client, Responder.host)
    BY <1>3 DEF UdpResponse, Responder, AnswerIsTrue
  <2>3. \A r \in responders' : Pair(r.client, r.host)
    BY <1>3, <2>2 DEF UdpResponse, AnswerIsTrue
  <2> QED
    BY <1>1, <2>1, <2>3 DEF AnswerIsTrue
<1>4. ASSUME NEW r \in responders, Respond(r) PROVE AnswerIsTrue'
  BY <1>1, <1>4 DEF Respond, AnswerIsTrue
<1>5. CASE HandlerJoin
  <2> DEFINE k == Head(channel).code
  <2>1. /\ upc' = upc /\ joiner' = joiner /\ responders' = responders
        /\ response' = Answer(k)
    BY <1>5 DEF HandlerJoin
  <2>2. Asked(joiner, k)
    BY <1>5, ChannelHead DEF HandlerJoin, ChannelIsTrue
  <2>3. response' \notin {"pending", "dropped"} => Pair(joiner, response')
    BY <2>1, <2>2 DEF Answer, Known, Asked, Pair, LobbiesAreTrue
  <2>4. response' \notin {"pending", "dropped"} => Pair(joiner, response)'
    BY <1>1, <2>1, <2>3 DEF Pair
  <2> QED
    BY <1>1, <2>1, <2>2, <2>4 DEF AnswerIsTrue, Asked
<1>6. ASSUME UNCHANGED <<upc, joiner, response, responders>> PROVE AnswerIsTrue'
  BY <1>1, <1>6 DEF AnswerIsTrue, Pair
<1>7. ASSUME \/ \E m \in net \intersect ToServer : UdpCreate(m)
             \/ HandlerCreate
             \/ \E k \in Code : KeepAlive(k) \/ Shutdown(k)
             \/ \E h \in Host :
                   \/ HostCreate(h)
                   \/ \E m \in net \intersect ToPeer :
                         HostFirst(h, m) \/ HostRecv(h, m)
             \/ \E c \in Client :
                   \/ \E k \in Code \union {BadCode} : ClientJoin(c, k)
                   \/ \E m \in net \intersect ToPeer : ClientRecv(c, m)
             \/ UNCHANGED vars
      PROVE  UNCHANGED <<upc, joiner, response, responders>>
  BY <1>7 DEF UdpCreate, HandlerCreate, KeepAlive, Shutdown, HostCreate,
              HostFirst, HostRecv, ClientJoin, ClientRecv, vars
<1> QED
  BY <1>2, <1>3, <1>4, <1>5, <1>6, <1>7 DEF Next, Udp, Handler

\* The manager gives a lobby its host when it is created, a client when it is
\* joined, and a timer only then.
LEMMA LobbiesStep == IInv /\ [Next]_vars => LobbiesAreTrue'
<1> SUFFICES ASSUME IInv, [Next]_vars PROVE LobbiesAreTrue'
  OBVIOUS
<1> USE RendezvousAssumption DEF IInv, serverVars, hostVars, clientVars
<1>1. lobbies \in Nat /\ TypeOK
  BY DEF TypeOK
<1>2. ASSUME NEW m \in net \intersect ToServer, UdpCreate(m) PROVE LobbiesAreTrue'
  <2>1. UNCHANGED <<session, timers>> /\ lobbies' = lobbies + 1
    BY <1>2 DEF UdpCreate
  <2>2. \A k \in Code : k <= lobbies => k <= lobbies'
    BY <1>1, <2>1 DEF Code
  <2> QED
    BY <2>1, <2>2 DEF LobbiesAreTrue
<1>3. CASE HandlerCreate
  <2> DEFINE k == Head(channel).code
  <2>1. /\ k \in Code /\ Head(channel).addr \in Host /\ k <= lobbies
        /\ session[k].host = None
    BY <1>1, <1>3, ChannelHead, MessageTypes DEF HandlerCreate, ChannelIsTrue
  <2>2. k \notin timers /\ Head(channel).addr # None
    BY <2>1 DEF LobbiesAreTrue, Addr
  <2>3. /\ session'[k].host = Head(channel).addr /\ session'[k].client = None
        /\ \A j \in Code \ {k} : session'[j] = session[j]
        /\ lobbies' = lobbies /\ timers' = timers /\ timers \subseteq Code
    BY <1>3, <2>1 DEF HandlerCreate, TypeOK
  <2> HIDE DEF k
  <2>4. \A j \in timers' : session'[j].client # None
    BY <2>2, <2>3 DEF LobbiesAreTrue
  <2> QED
    BY <2>1, <2>2, <2>3, <2>4 DEF LobbiesAreTrue
<1>4. CASE HandlerJoin
  <2> DEFINE k == Head(channel).code
             a == Head(channel).addr
  <2>1. a # None
    BY <1>1, <1>4, ChannelHead, MessageTypes DEF HandlerJoin
  <2>2. CASE ~Known(k)
    BY <1>4, <2>2 DEF HandlerJoin, TimersAfterJoin, LobbiesAreTrue
  <2>3. CASE Known(k)
    <3>1. /\ \A j \in Code : session'[j].host = session[j].host
          /\ \A j \in Code \ {k} : session'[j] = session[j]
          /\ session'[k].client = a /\ session[k].host # None
          /\ timers' \subseteq timers \union {k} /\ timers \subseteq Code
          /\ lobbies' = lobbies /\ k \in Code
      BY <1>4, <2>3 DEF HandlerJoin, Known, TimersAfterJoin, TypeOK
    <3> HIDE DEF k, a
    <3>2. \A j \in timers' : session'[j].client # None
      BY <2>1, <3>1 DEF LobbiesAreTrue
    <3>3. \A j \in Code : session'[j].client # None => session[j].host # None
      BY <2>1, <3>1 DEF LobbiesAreTrue
    <3> QED
      BY <3>1, <3>2, <3>3 DEF LobbiesAreTrue
  <2> QED
    BY <2>2, <2>3
<1>5. ASSUME NEW k \in Code, Shutdown(k) PROVE LobbiesAreTrue'
  BY <1>5 DEF Shutdown, LobbiesAreTrue
<1>6. ASSUME UNCHANGED <<session, lobbies, timers>> PROVE LobbiesAreTrue'
  BY <1>6 DEF LobbiesAreTrue
<1>7. ASSUME \/ \E m \in net \intersect ToServer : UdpJoin(m)
             \/ UdpResponse
             \/ \E r \in responders : Respond(r)
             \/ \E k \in Code : KeepAlive(k)
             \/ \E h \in Host :
                   \/ HostCreate(h)
                   \/ \E m \in net \intersect ToPeer :
                         HostFirst(h, m) \/ HostRecv(h, m)
             \/ \E c \in Client :
                   \/ \E k \in Code \union {BadCode} : ClientJoin(c, k)
                   \/ \E m \in net \intersect ToPeer : ClientRecv(c, m)
             \/ UNCHANGED vars
      PROVE  UNCHANGED <<session, lobbies, timers>>
  BY <1>7 DEF UdpJoin, UdpResponse, Respond, KeepAlive, HostCreate, HostFirst,
              HostRecv, ClientJoin, ClientRecv, vars
<1> QED
  BY <1>2, <1>3, <1>4, <1>5, <1>6, <1>7 DEF Next, Udp, Handler

\* A peer is done with an address the network has, and of a pair the host is the
\* side that is a host.
LEMMA PeersStep == IInv /\ [Next]_vars => PeersAreTrue'
<1> SUFFICES ASSUME IInv, [Next]_vars PROVE PeersAreTrue'
  OBVIOUS
<1> USE RendezvousAssumption DEF IInv, serverVars, hostVars, clientVars
<1>1. \A c, h : Pair(c, h) => Pair(c, h)'
  BY LastingStep, LastingFacts
<1>2. ASSUME NEW c \in Client, NEW m \in net \intersect ToPeer, ClientRecv(c, m)
      PROVE  PeersAreTrue'
  <2>1. Pair(c, m.addr)
    BY <1>2 DEF ClientRecv, NetIsTrue, Pair
  <2>2. /\ chost'[c] = m.addr /\ UNCHANGED <<hpc, hpeer>>
        /\ \A d \in Client \ {c} : chost'[d] = chost[d] /\ cpc'[d] = cpc[d]
    BY <1>2 DEF ClientRecv, TypeOK
  <2>3. ASSUME NEW d \in Client, cpc'[d] = "done" PROVE Pair(d, chost'[d])
    BY <2>1, <2>2, <2>3 DEF PeersAreTrue
  <2>4. ASSUME NEW d \in Client, cpc'[d] = "done" PROVE Pair(d, chost[d])'
    BY <1>1, <2>3, <2>4 DEF Pair
  <2>5. ASSUME NEW h \in Host, hpc'[h] = "done" PROVE Pair(hpeer[h], h)'
    BY <1>1, <2>2, <2>5 DEF PeersAreTrue, Pair
  <2> QED
    BY <2>4, <2>5 DEF PeersAreTrue
<1>3. ASSUME NEW h \in Host, NEW m \in net \intersect ToPeer, HostRecv(h, m)
      PROVE  PeersAreTrue'
  <2>1. Pair(m.addr, h)
    BY <1>3 DEF HostRecv, NetIsTrue, Pair
  <2>2. /\ hpeer'[h] = m.addr /\ UNCHANGED <<cpc, chost>>
        /\ \A g \in Host \ {h} : hpeer'[g] = hpeer[g] /\ hpc'[g] = hpc[g]
    BY <1>3 DEF HostRecv, TypeOK
  <2>3. ASSUME NEW g \in Host, hpc'[g] = "done" PROVE Pair(hpeer'[g], g)
    BY <2>1, <2>2, <2>3 DEF PeersAreTrue
  <2>4. ASSUME NEW g \in Host, hpc'[g] = "done" PROVE Pair(hpeer[g], g)'
    BY <1>1, <2>3, <2>4 DEF Pair
  <2>5. ASSUME NEW c \in Client, cpc'[c] = "done" PROVE Pair(c, chost[c])'
    BY <1>1, <2>2, <2>5 DEF PeersAreTrue, Pair
  <2> QED
    BY <2>4, <2>5 DEF PeersAreTrue
<1>4. ASSUME UNCHANGED <<hpeer, chost>>,
             \A h \in Host : hpc'[h] = "done" => hpc[h] = "done",
             \A c \in Client : cpc'[c] = "done" => cpc[c] = "done"
      PROVE  PeersAreTrue'
  BY <1>1, <1>4 DEF PeersAreTrue, Pair
<1>5. ASSUME NEW h \in Host,
             HostCreate(h) \/ \E m \in net \intersect ToPeer : HostFirst(h, m)
      PROVE  PeersAreTrue'
  BY <1>4, <1>5 DEF HostCreate, HostFirst, TypeOK
<1>6. ASSUME NEW c \in Client, NEW k \in Code \union {BadCode}, ClientJoin(c, k)
      PROVE  PeersAreTrue'
  BY <1>4, <1>6 DEF ClientJoin, TypeOK
<1>7. ASSUME \/ \E m \in net \intersect ToServer : Udp(m)
             \/ UdpResponse
             \/ \E r \in responders : Respond(r)
             \/ Handler
             \/ \E k \in Code : KeepAlive(k) \/ Shutdown(k)
             \/ UNCHANGED vars
      PROVE  UNCHANGED <<hpc, hpeer, cpc, chost>>
  BY <1>7 DEF Udp, UdpCreate, UdpJoin, UdpResponse, Respond, Handler,
              HandlerCreate, HandlerJoin, KeepAlive, Shutdown, vars
<1> QED
  BY <1>2, <1>3, <1>4, <1>5, <1>6, <1>7 DEF Next

\* keep_alive starts with the lobby's code, and only a timer, which only a join
\* starts, ends it.
LEMMA KeptStep == IInv /\ [Next]_vars => KeptAliveUntilJoined'
<1> SUFFICES ASSUME IInv, [Next]_vars PROVE KeptAliveUntilJoined'
  OBVIOUS
<1> USE RendezvousAssumption DEF IInv, serverVars, hostVars, clientVars
<1>1. lobbies \in Nat /\ TypeOK
  BY DEF TypeOK
<1>2. ASSUME NEW m \in net \intersect ToServer, UdpCreate(m)
      PROVE  KeptAliveUntilJoined'
  <2>1. m.src # None
    BY MessageTypes
  <2>2. /\ lobbies' = lobbies + 1 /\ session' = session
        /\ lobbies + 1 \in Code /\ keep'[lobbies + 1] = m.src
        /\ \A k \in Code : k # lobbies + 1 => keep'[k] = keep[k]
    BY <1>2 DEF UdpCreate, TypeOK, Code
  <2>3. \A k \in Code : k <= lobbies + 1 => k <= lobbies \/ k = lobbies + 1
    BY <1>1 DEF Code
  <2> QED
    BY <2>1, <2>2, <2>3 DEF KeptAliveUntilJoined
<1>3. CASE HandlerCreate
  <2>1. /\ Head(channel).code \in Code
        /\ session[Head(channel).code].host = None
    BY <1>1, <1>3, ChannelHead, MessageTypes DEF HandlerCreate, ChannelIsTrue
  <2>2. session[Head(channel).code].client = None
    BY <2>1 DEF LobbiesAreTrue
  <2>3. \A k \in Code : session'[k].client = session[k].client
    BY <1>3, <2>1, <2>2 DEF HandlerCreate, TypeOK
  <2> QED
    BY <1>3, <2>3 DEF HandlerCreate, KeptAliveUntilJoined
<1>4. CASE HandlerJoin
  <2>1. Head(channel).addr # None
    BY <1>1, <1>4, ChannelHead, MessageTypes DEF HandlerJoin
  <2>2. \A k \in Code : session'[k].client = None => session[k].client = None
    BY <1>4, <2>1 DEF HandlerJoin, Known, TypeOK
  <2> QED
    BY <1>4, <2>2 DEF HandlerJoin, KeptAliveUntilJoined
<1>5. ASSUME NEW k \in Code, Shutdown(k) PROVE KeptAliveUntilJoined'
  <2>1. session[k].client # None
    BY <1>5 DEF Shutdown, LobbiesAreTrue
  <2> QED
    BY <1>5, <2>1 DEF Shutdown, KeptAliveUntilJoined, TypeOK
<1>6. ASSUME UNCHANGED <<session, lobbies, keep>> PROVE KeptAliveUntilJoined'
  BY <1>6 DEF KeptAliveUntilJoined
<1>7. ASSUME \/ \E m \in net \intersect ToServer : UdpJoin(m)
             \/ UdpResponse
             \/ \E r \in responders : Respond(r)
             \/ \E k \in Code : KeepAlive(k)
             \/ \E h \in Host :
                   \/ HostCreate(h)
                   \/ \E m \in net \intersect ToPeer :
                         HostFirst(h, m) \/ HostRecv(h, m)
             \/ \E c \in Client :
                   \/ \E k \in Code \union {BadCode} : ClientJoin(c, k)
                   \/ \E m \in net \intersect ToPeer : ClientRecv(c, m)
             \/ UNCHANGED vars
      PROVE  UNCHANGED <<session, lobbies, keep>>
  BY <1>7 DEF UdpJoin, UdpResponse, Respond, KeepAlive, HostCreate, HostFirst,
              HostRecv, ClientJoin, ClientRecv, vars
<1> QED
  BY <1>2, <1>3, <1>4, <1>5, <1>6, <1>7 DEF Next, Udp, Handler

(***************************************************************************)
(* The theorems.                                                           *)
(***************************************************************************)

\* The server with nothing received and the peers before their first datagram
\* satisfy the invariant.
LEMMA IInvInit == Init => IInv
<1> SUFFICES ASSUME Init PROVE IInv
  OBVIOUS
<1> USE RendezvousAssumption
<1>1. TypeOK
  <2>1. session \in [Code -> [host : Addr \union {None}, client : Addr \union {None},
                              shutdown : BOOLEAN]]
    BY DEF Init, NoLobby
  <2>2. <<>> \in Seq(Message) /\ Len(<<>>) <= ChanCap
    OBVIOUS
  <2> QED
    BY <2>1, <2>2 DEF Init, TypeOK
<1>2. NetIsTrue /\ AnswerIsTrue /\ PeersAreTrue
  BY DEF Init, NetIsTrue, AnswerIsTrue, PeersAreTrue
<1>3. ChannelIsTrue
  BY DEF Init, ChannelIsTrue
<1>4. LobbiesAreTrue /\ KeptAliveUntilJoined
  BY DEF Init, LobbiesAreTrue, NoLobby, KeptAliveUntilJoined, Code
<1> QED
  BY <1>1, <1>2, <1>3, <1>4 DEF IInv

\* The inductive invariant holds in every state: of the server's tasks and the
\* peers, with datagrams lost, repeated and reordered, for any number of them.
THEOREM Invariance == Spec => []IInv
<1>1. IInv /\ [Next]_vars => IInv'
  BY TypeStep, NetStep, ChannelStep, AnswerStep, LobbiesStep, PeersStep, KeptStep
  DEF IInv
<1> QED
  BY IInvInit, <1>1, PTL DEF Spec

\* The variables of the server and of the peers keep their types; the manager's
\* channel never holds more than its capacity.
THEOREM TypeCorrect == Spec => []TypeOK
<1>1. IInv => TypeOK
  BY DEF IInv
<1> QED
  BY Invariance, <1>1, PTL

\* listen_to_relay and request_host_addr return the address of the real
\* counterpart, whatever the network does with the datagrams.
THEOREM PartnerCorrect == Spec => []RightPartner
<1>1. IInv => RightPartner
  BY DEF IInv, PeersAreTrue, Pair, RightPartner, Code, BadCode
<1> QED
  BY Invariance, <1>1, PTL

\* A lobby nobody has joined is kept alive by its task.
THEOREM KeptAlive == Spec => []KeptAliveUntilJoined
<1>1. IInv => KeptAliveUntilJoined
  BY DEF IInv
<1> QED
  BY Invariance, <1>1, PTL

\* A client that has asked for a lobby never asks for another, and the host of a
\* lobby is never replaced: RelayManager::handler inserts a session once.
THEOREM NothingTakenBack == Spec => [][Lasting]_vars
<1>1. IInv /\ [Next]_vars => Lasting
  BY LastingStep
<1>2. IInv /\ [Next]_vars => [Lasting]_vars
  BY <1>1
<1> QED
  BY Invariance, <1>2, PTL DEF Spec
=============================================================================
