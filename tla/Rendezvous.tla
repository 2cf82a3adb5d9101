----------------------------- MODULE Rendezvous -----------------------------
(***************************************************************************)
(* rendezvous_stun_server (lib.rs, udp/parser.rs) and the half of the peer *)
(* that talks to it (listen_to_relay and request_host_addr of              *)
(* peer/src/main.rs).  A host creates a lobby and shows its code; a client *)
(* joins with the code; the server tells each the other's address.         *)
(*                                                                         *)
(* The server runs udp_handler, the manager task (RelayManager::handler)   *)
(* behind a channel, one keep_alive task per lobby, a shutdown timer per   *)
(* joined lobby and a responder task per join.  Datagrams may be lost,     *)
(* duplicated and reordered; nobody acknowledges or repeats any.           *)
(*                                                                         *)
(* An operator A_Fault just before A is A with a bug a programmer could    *)
(* have made.  No specification uses it: putting it in A's place shows     *)
(* that a property below can fail.                                         *)
(***************************************************************************)
EXTENDS Naturals, Sequences

CONSTANTS
  Host, Client,   \* addresses
  None,           \* no address
  MaxLobby,       \* bound: how many lobbies the server ever creates
  ChanCap         \* capacity of the manager's channel: 50

Code    == 1..MaxLobby
BadCode == 0                \* a code no lobby has
Addr    == Host \union Client

ASSUME RendezvousAssumption ==
  /\ Host \intersect Client = {} /\ None \notin Addr
  /\ {MaxLobby, ChanCap} \subseteq Nat \ {0}

VARIABLES
  \* server
  upc,        \* udp_handler: at recv_from, or awaiting response_rx
  joiner,     \* relay_observed_addr while it awaits
  response,   \* the oneshot: pending, dropped, or the host's address
  channel,    \* MessageType queue to the manager
  lobbies,    \* how many codes have been drawn
  session,    \* RelayManager.session, by code
  keep,       \* keep_alive tasks: code -> address, None when not running
  timers,     \* codes whose shutdown timer is running
  responders, \* spawned tasks that will send the two addresses
  \* peers
  hpc, hcode, hpeer,   \* listen_to_relay: phase, share code, result
  cpc, ccode, chost,   \* request_host_addr: phase, --code, result
  net                  \* datagrams in flight

serverVars == <<upc, joiner, response, channel, lobbies, session, keep, timers,
                responders>>
hostVars   == <<hpc, hcode, hpeer>>
clientVars == <<cpc, ccode, chost>>
vars == <<upc, joiner, response, channel, lobbies, session, keep, timers,
          responders, hpc, hcode, hpeer, cpc, ccode, chost, net>>

\* Datagrams to the server.  The echoes of the peers are left out: udp_handler
\* drops them.  No peer sends an empty datagram, which udp_handler would take for
\* the kind of the one before it, still in buf[0].
ToServer == [src : Addr, kind : {"create"}]
            \union [src : Addr, kind : {"join"}, code : Code \union {BadCode}]

\* Datagrams to a peer: a code, the byte 0, or an address as text.
ToPeer == [dst : Addr, kind : {"code"}, code : Code]
          \union [dst : Addr, kind : {"zero"}]
          \union [dst : Addr, kind : {"addr"}, addr : Addr]

NoLobby == [host |-> None, client |-> None, shutdown |-> FALSE]

Message == [kind : {"CreateLobby"}, code : Code, addr : Addr]
           \union [kind : {"JoinLobby"}, code : Code \union {BadCode}, addr : Addr]

TypeOK ==
  /\ upc \in {"recv_from", "response"}
  /\ joiner \in Addr \union {None}
  /\ response \in Addr \union {"pending", "dropped"}
  /\ channel \in Seq(Message) /\ Len(channel) <= ChanCap
  /\ lobbies \in 0..MaxLobby
  /\ session \in [Code -> [host : Addr \union {None}, client : Addr \union {None},
                          shutdown : BOOLEAN]]
  /\ keep \in [Code -> Addr \union {None}]
  /\ timers \subseteq Code
  /\ responders \subseteq [client : Addr, host : Addr]
  /\ hpc \in [Host -> {"start", "await_code", "await_peer", "done", "panicked"}]
  /\ hcode \in [Host -> Code \union {BadCode}]
  /\ hpeer \in [Host -> Addr \union {None}]
  /\ cpc \in [Client -> {"start", "await_host", "done"}]
  /\ ccode \in [Client -> Code \union {BadCode}]
  /\ chost \in [Client -> Addr \union {None}]
  /\ net \subseteq ToServer \union ToPeer

Init ==
  /\ upc = "recv_from" /\ joiner = None /\ response = "pending"
  /\ channel = <<>> /\ lobbies = 0
  /\ session = [k \in Code |-> NoLobby]
  /\ keep = [k \in Code |-> None]
  /\ timers = {} /\ responders = {}
  /\ hpc = [h \in Host |-> "start"] /\ hcode = [h \in Host |-> BadCode]
  /\ hpeer = [h \in Host |-> None]
  /\ cpc = [c \in Client |-> "start"] /\ ccode = [c \in Client |-> BadCode]
  /\ chost = [c \in Client |-> None]
  /\ net = {}

\* send_to: any of the datagrams may be lost on the way.  Those that are not
\* stay in net, so they may arrive in any order and more than once.
Transmit(datagrams) ==
  \E arriving \in SUBSET datagrams : net' = net \union arriving

(***************************************************************************)
(* udp_handler.                                                            *)
(***************************************************************************)

\* LOBBY_CREATE: draw a code, tell the manager, tell the host, start
\* keep_alive.  The awaits after the manager's are no steps of their own:
\* udp_handler takes no other datagram before the last of them has returned, and
\* what the manager does with the new lobby touches neither the code on its way
\* nor the task that is about to start.
UdpCreate(m) ==
  /\ upc = "recv_from"
  /\ m.kind = "create"
  /\ lobbies < MaxLobby /\ Len(channel) < ChanCap
  /\ LET k == lobbies + 1
     IN  /\ lobbies' = k
         /\ channel' = Append(channel,
              [kind |-> "CreateLobby", code |-> k, addr |-> m.src])
         /\ Transmit({[dst |-> m.src, kind |-> "code", code |-> k]})
         /\ keep' = [keep EXCEPT ![k] = m.src]
  /\ UNCHANGED <<upc, joiner, response, session, timers, responders, hostVars,
                 clientVars>>

\* LOBBY_JOIN: ask the manager and await its answer; no other datagram is
\* handled meanwhile.
UdpJoin(m) ==
  /\ upc = "recv_from"
  /\ m.kind = "join"
  /\ Len(channel) < ChanCap
  /\ channel' = Append(channel,
       [kind |-> "JoinLobby", code |-> m.code, addr |-> m.src])
  /\ upc' = "response" /\ joiner' = m.src /\ response' = "pending"
  /\ UNCHANGED net
  /\ UNCHANGED <<lobbies, session, keep, timers, responders, hostVars,
                 clientVars>>

\* Fault: the responder is given the host for the client.
Responder_HostTwice == [client |-> response, host |-> response]

\* What the spawned task captures: relay_observed_addr and host_info.
Responder == [client |-> joiner, host |-> response]

\* response_rx.await: the host's address spawns a responder; a dropped sender
\* (unknown code) means silence.
UdpResponse ==
  /\ upc = "response"
  /\ response # "pending"
  /\ responders' = IF response = "dropped"
                   THEN responders
                   ELSE responders \union {Responder}
  /\ upc' = "recv_from" /\ joiner' = None /\ response' = "pending"
  /\ UNCHANGED <<channel, lobbies, session, keep, timers, hostVars, clientVars,
                 net>>

\* The spawned task: five bytes 0 to the client, then each side's address to
\* the other.
Respond(r) ==
  /\ responders' = responders \ {r}
  /\ Transmit({[dst |-> r.client, kind |-> "zero"],
               [dst |-> r.client, kind |-> "addr", addr |-> r.host],
               [dst |-> r.host, kind |-> "addr", addr |-> r.client]})
  /\ UNCHANGED <<upc, joiner, response, channel, lobbies, session, keep, timers,
                 hostVars, clientVars>>

(***************************************************************************)
(* RelayManager.                                                           *)
(***************************************************************************)

\* Fault: the shutdown timer starts with the lobby.
HandlerCreate_Timer ==
  /\ channel # <<>> /\ Head(channel).kind = "CreateLobby"
  /\ session' = [session EXCEPT ![Head(channel).code] =
       [host |-> Head(channel).addr, client |-> None, shutdown |-> FALSE]]
  /\ timers' = timers \union {Head(channel).code}
  /\ channel' = Tail(channel)
  /\ UNCHANGED <<upc, joiner, response, lobbies, keep, responders, hostVars,
                 clientVars, net>>

HandlerCreate ==
  /\ channel # <<>> /\ Head(channel).kind = "CreateLobby"
  /\ session' = [session EXCEPT ![Head(channel).code] =
       [host |-> Head(channel).addr, client |-> None, shutdown |-> TRUE]]
  /\ channel' = Tail(channel)
  /\ UNCHANGED <<upc, joiner, response, lobbies, keep, timers, responders,
                 hostVars, clientVars, net>>

Known(k) == k \in Code /\ session[k].host # None

\* Fault: an unknown code is kept for later, its sender not dropped.
Answer_Park(k) == IF Known(k) THEN session[k].host ELSE "pending"

\* Fault: an unknown code is answered with no address at all.
Answer_Blank(k) == IF Known(k) THEN session[k].host ELSE None

\* What response_rx sees: the host's address, or the sender dropped.
Answer(k) == IF Known(k) THEN session[k].host ELSE "dropped"

\* Fault: the shutdown channel is taken but never used.
TimersAfterJoin_Lost(k) == timers

\* The shutdown timer starts with the first join of a known code.
TimersAfterJoin(k) ==
  IF Known(k) /\ session[k].shutdown THEN timers \union {k} ELSE timers

HandlerJoin ==
  /\ channel # <<>> /\ Head(channel).kind = "JoinLobby"
  /\ LET k == Head(channel).code
     IN  /\ response' = Answer(k)
         /\ session' = IF Known(k)
                       THEN [session EXCEPT ![k].client = Head(channel).addr,
                                            ![k].shutdown = FALSE]
                       ELSE session
         /\ timers' = TimersAfterJoin(k)
  /\ channel' = Tail(channel)
  /\ UNCHANGED <<upc, joiner, lobbies, keep, responders, hostVars, clientVars,
                 net>>

\* keep_alive: every second a byte 0 to the host.
KeepAlive(k) ==
  /\ keep[k] # None
  /\ Transmit({[dst |-> keep[k], kind |-> "zero"]})
  /\ UNCHANGED <<serverVars, hostVars, clientVars>>

\* Five seconds after the join the timer fires and keep_alive ends.
Shutdown(k) ==
  /\ k \in timers
  /\ timers' = timers \ {k}
  /\ keep' = [keep EXCEPT ![k] = None]
  /\ UNCHANGED <<upc, joiner, response, channel, lobbies, session, responders,
                 hostVars, clientVars, net>>

(***************************************************************************)
(* The peers.                                                              *)
(***************************************************************************)
HostCreate(h) ==
  /\ hpc[h] = "start"
  /\ hpc' = [hpc EXCEPT ![h] = "await_code"]
  /\ Transmit({[src |-> h, kind |-> "create"]})
  /\ UNCHANGED <<serverVars, hcode, hpeer, clientVars>>

\* The first datagram must be the code: anything else fails the expect().
HostFirst(h, m) ==
  /\ m.dst = h /\ hpc[h] = "await_code"
  /\ hcode' = IF m.kind = "code" THEN [hcode EXCEPT ![h] = m.code] ELSE hcode
  /\ hpc' = [hpc EXCEPT ![h] =
               IF m.kind = "code" THEN "await_peer" ELSE "panicked"]
  /\ UNCHANGED net
  /\ UNCHANGED <<serverVars, hpeer, clientVars>>

\* Then an address, from whomever, is the result; the rest is only echoed.
HostRecv(h, m) ==
  /\ m.dst = h /\ hpc[h] = "await_peer"
  /\ m.kind = "addr"
  /\ hpeer' = [hpeer EXCEPT ![h] = m.addr]
  /\ hpc' = [hpc EXCEPT ![h] = "done"]
  /\ UNCHANGED <<serverVars, hcode, clientVars, net>>

\* The user types a code some host has shown, or mistypes it.
ClientJoin(c, k) ==
  /\ cpc[c] = "start"
  /\ k \in {hcode[h] : h \in Host} \union {BadCode}
  /\ cpc' = [cpc EXCEPT ![c] = "await_host"]
  /\ ccode' = [ccode EXCEPT ![c] = k]
  /\ Transmit({[src |-> c, kind |-> "join", code |-> k]})
  /\ UNCHANGED <<serverVars, hostVars, chost>>

\* A byte 0 is only echoed; an address is the result.  Text that is no address
\* would end the client with an error, but nobody sends it any: the server sends
\* addresses, and a host's first datagrams through the reliable layer begin with
\* a byte 0.
ClientRecv(c, m) ==
  /\ m.dst = c /\ cpc[c] = "await_host"
  /\ m.kind = "addr"
  /\ chost' = [chost EXCEPT ![c] = m.addr]
  /\ cpc' = [cpc EXCEPT ![c] = "done"]
  /\ UNCHANGED <<serverVars, hostVars, ccode, net>>

Udp(m) == UdpCreate(m) \/ UdpJoin(m)
Handler == HandlerCreate \/ HandlerJoin

Next ==
  \/ \E m \in net \intersect ToServer : Udp(m)
  \/ UdpResponse
  \/ \E r \in responders : Respond(r)
  \/ Handler
  \/ \E k \in Code : KeepAlive(k) \/ Shutdown(k)
  \/ \E h \in Host :
        \/ HostCreate(h)
        \/ \E m \in net \intersect ToPeer :
              HostFirst(h, m) \/ HostRecv(h, m)
  \/ \E c \in Client :
        \/ \E k \in Code \union {BadCode} : ClientJoin(c, k)
        \/ \E m \in net \intersect ToPeer : ClientRecv(c, m)

Spec == Init /\ [][Next]_vars

\* The server's tasks are polled by the runtime, its timers fire, and what is
\* in net arrives.
Fairness ==
  /\ WF_vars(UdpResponse) /\ WF_vars(Handler)
  /\ WF_vars(\E r \in responders : Respond(r))
  /\ WF_vars(\E m \in net \intersect ToServer : Udp(m))
  /\ \A k \in Code : WF_vars(Shutdown(k))
  /\ \A h \in Host : WF_vars(\E m \in net \intersect ToPeer :
                               HostFirst(h, m) \/ HostRecv(h, m))
  /\ \A c \in Client : WF_vars(\E m \in net \intersect ToPeer : ClientRecv(c, m))

FairSpec == Spec /\ Fairness

(***************************************************************************)
(* Properties.                                                             *)
(***************************************************************************)

\* Whoever leaves the rendezvous has the address of its real counterpart: a
\* client the host whose lobby has its code, a host a client that joined with
\* the code of one of this host's lobbies.
RightPartner ==
  /\ \A c \in Client : cpc[c] = "done" =>
        ccode[c] # BadCode /\ chost[c] = session[ccode[c]].host
  /\ \A h \in Host : hpc[h] = "done" =>
        \E c \in Client : /\ hpeer[h] = c /\ ccode[c] # BadCode
                          /\ session[ccode[c]].host = h

\* A host whose lobby nobody has joined is kept alive: its NAT mapping towards
\* the server must not expire before the client's address is sent to it.
KeptAliveUntilJoined ==
  \A k \in Code : k <= lobbies /\ session[k].client = None => keep[k] # None

\* udp_handler, which awaits the manager inside its receive loop, always gets
\* back to the socket: also for codes nobody knows.
HandlerReturns == upc = "response" ~> upc = "recv_from"

\* A joined lobby stops being kept alive.
KeepAliveEnds ==
  \A k \in Code : session[k].client # None ~> keep[k] = None

(***************************************************************************)
(* What documents of the code say, and the code does not do.               *)
(***************************************************************************)

\* readme.md:25: the host creates a session on the server, which in return
\* gets it a UUID code; so it does not die of another datagram.
HostGetsCode == \A h \in Host : hpc[h] # "panicked"
=============================================================================
