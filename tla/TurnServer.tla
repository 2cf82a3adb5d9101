----------------------------- MODULE TurnServer -----------------------------
(***************************************************************************)
(* turn_server/src/lib.rs and main.rs: the relay.  One thread runs         *)
(* io_uring_loop, each shard has a thread running Shard::run, the gRPC     *)
(* runtime runs create_session, and the kernel works on the ring.  They    *)
(* meet in the control channel, the shards' spsc queues, the out channel   *)
(* and the submission and completion queues.                               *)
(*                                                                         *)
(* A pool buffer travels kernel -> completion queue -> shard queue -> out  *)
(* channel -> submission queue -> kernel -> completion queue and back, and *)
(* nothing but the protocol between the threads keeps it from being in two *)
(* of these places at once.                                                *)
(*                                                                         *)
(* An operator A_Fault just before A is A with a bug a programmer could    *)
(* have made.  No specification uses it: putting it in A's place shows     *)
(* that a property below can fail.                                         *)
(***************************************************************************)
EXTENDS Naturals, Sequences, FiniteSets, Tokens

CONSTANTS
  Endpoint,      \* client addresses
  NoAddr,        \* 0.0.0.0:0, an empty address, a zeroed byte
  Requests,      \* the sessions a controller may ask for
  MaxRequests,   \* bound: how many create_session calls are made
  ControlCap,    \* capacity of the control channel: 1024
  PoolSize,      \* POOL_SIZE, the number of buffers
  BufSize,       \* BUFFER_SIZE, in cells
  Lens,          \* the datagram lengths clients use, in cells
  ShardNum,      \* SHARD_NUM
  SqCap,         \* entries of the submission queue
  QueueCap,      \* what a shard queue holds
  OutCap         \* capacity of the out channel

Buffer == 0..(PoolSize - 1)
Shard  == 0..(ShardNum - 1)
Addr   == Endpoint \union {NoAddr}

\* Session { host_addr, peer_addr }
Session == [host_addr : Endpoint, peer_addr : Endpoint]

NoSession == [host_addr |-> NoAddr, peer_addr |-> NoAddr]
NoShard   == ShardNum

ASSUME TurnAssumption ==
  /\ NoAddr \notin Endpoint
  /\ Requests \subseteq Session
  /\ {MaxRequests, ControlCap, PoolSize, BufSize, ShardNum, SqCap, QueueCap, OutCap}
        \subseteq Nat \ {0}
  /\ PoolSize <= IndexRange /\ PoolSize <= SqCap
  /\ Lens \subseteq 0..BufSize

VARIABLES
  requests,           \* every session create_session has put on control_tx
  taken,              \* how many of them the loop has taken from control_rx
  endpoint_to_shard,  \* ShardRouter
  next_shard,
  queue,              \* queue[s]: the spsc queue into shard s
  table,              \* table[s][a]: session_table[session_id[a]] of shard s
  out,                \* tx_out -> sqe_rx
  sq,                 \* submission queue: entries the kernel has not taken
  visible,            \* how many of them the published tail covers
  cached,             \* slots that push() believes are in use
  awake,              \* the kernel's SQPOLL thread is polling
  inflight,           \* operations the kernel is working on
  cq,                 \* completion queue
  ready,              \* completions the loop saw at its last cq.sync()
  memory,             \* BufferPool.memory, by buffer
  slot,               \* the address in the buffer's live MsgHdrSlot
  timestamp,          \* the buffer's PacketTiming: which marks it has
  pc,                 \* phase of io_uring_loop
  pushed,             \* pushed > 0
  wire,               \* history: datagrams that left the relay
  lost                \* history: where a buffer fell out of circulation

routerVars == <<endpoint_to_shard, next_shard>>
ringVars   == <<sq, visible, cached, awake, inflight, cq>>
poolVars   == <<memory, slot, timestamp>>
vars == <<requests, taken, endpoint_to_shard, next_shard, queue, table, out,
          sq, visible, cached, awake, inflight, cq, ready, memory, slot,
          timestamp, pc, pushed, wire, lost>>

Sqe    == [op : {"recv", "send"}, idx : Buffer]
Cqe    == [user_data : {EncodeToken(op, b) : op \in {"recv", "send"}, b \in Buffer},
           len : 0..BufSize, more : BOOLEAN]
Packet == [buf_idx : Buffer, len : 0..BufSize, src : Addr]
Cells  == [1..BufSize -> Addr]
Lost   == {"no", "unknown_src", "queue_full", "no_session", "no_route", "out_full",
           "sq_full"}

TypeOK ==
  /\ requests \in Seq(Requests)
  /\ taken \in 0..Len(requests)
  /\ endpoint_to_shard \in [Addr -> Shard \union {NoShard}]
  /\ next_shard \in Shard
  /\ queue \in [Shard -> Seq(Session \union Packet)]
  /\ table \in [Shard -> [Addr -> Session \union {NoSession}]]
  /\ out \in Seq([dst : Addr, len : 0..BufSize, idx : Buffer])
  /\ sq \in Seq(Sqe)
  /\ visible \in 0..Len(sq)
  /\ cached \in Len(sq)..SqCap
  /\ awake \in BOOLEAN
  /\ inflight \subseteq [op : {"recv", "send", "notif"}, idx : Buffer, dst : Addr]
  /\ cq \in Seq(Cqe)
  /\ ready \in 0..Len(cq)
  /\ memory \in [Buffer -> Cells]
  /\ slot \in [Buffer -> Addr]
  /\ timestamp \in [Buffer -> {"none", "recv", "sent"}]
  /\ pc \in {"control", "send", "sync", "cq", "panicked"}
  /\ pushed \in BOOLEAN
  /\ wire \subseteq [dst : Addr, data : Cells]
  /\ lost \in [Buffer -> Lost]

(***************************************************************************)
(* The loop has registered the pool, popped every index off the free list, *)
(* posted a receive for each, published them and submitted.  The kernel    *)
(* may have taken the first k of them before sync() read the head back.    *)
(***************************************************************************)
Init ==
  /\ requests = <<>> /\ taken = 0
  /\ endpoint_to_shard = [a \in Addr |-> NoShard]
  /\ next_shard = 0
  /\ queue = [s \in Shard |-> <<>>]
  /\ table = [s \in Shard |-> [a \in Addr |-> NoSession]]
  /\ out = <<>>
  /\ \E k \in 0..PoolSize :
        /\ sq = [i \in 1..(PoolSize - k) |->
                   [op |-> "recv", idx |-> PoolSize - k - i]]
        /\ inflight = {[op |-> "recv", idx |-> PoolSize - i, dst |-> NoAddr] :
                         i \in 1..k}
        /\ visible = PoolSize - k /\ cached = PoolSize - k
  /\ awake = TRUE /\ cq = <<>> /\ ready = 0
  /\ memory = [b \in Buffer |-> [i \in 1..BufSize |-> NoAddr]]
  /\ slot = [b \in Buffer |-> NoAddr]
  /\ timestamp = [b \in Buffer |-> "none"]
  /\ pc = "control" /\ pushed = FALSE
  /\ wire = {} /\ lost = [b \in Buffer |-> "no"]

(***************************************************************************)
(* gRPC: create_session parses both addresses, waits for room in the       *)
(* control channel, queues the session and answers success.                *)
(***************************************************************************)
CreateSession(r) ==
  /\ Len(requests) < MaxRequests
  /\ Len(requests) - taken < ControlCap
  /\ requests' = Append(requests, r)
  /\ UNCHANGED <<taken, routerVars, queue, table, out, ringVars, ready,
                 poolVars, pc, pushed, wire, lost>>

(***************************************************************************)
(* io_uring_loop, phase 1: drain control_rx.  The session goes to the next *)
(* shard in turn; the result of enqueue is ignored.                        *)
(***************************************************************************)

\* Producer::enqueue on the queue of shard s: a full queue refuses.
Enqueue(s, m) ==
  [queue EXCEPT ![s] = IF Len(@) < QueueCap THEN Append(@, m) ELSE @]

\* Fault: the endpoints are routed to the shard after the one that was told.
ControlMsg_WrongShard ==
  /\ pc = "control"
  /\ taken < Len(requests)
  /\ LET r == requests[taken + 1]
     IN  /\ queue' = Enqueue(next_shard, r)
         /\ endpoint_to_shard' =
              [endpoint_to_shard EXCEPT ![r.host_addr] = (next_shard + 1) % ShardNum,
                                        ![r.peer_addr] = (next_shard + 1) % ShardNum]
  /\ next_shard' = (next_shard + 1) % ShardNum
  /\ taken' = taken + 1
  /\ UNCHANGED <<requests, table, out, ringVars, ready, poolVars, pc, pushed,
                 wire, lost>>

ControlMsg ==
  /\ pc = "control"
  /\ taken < Len(requests)
  /\ LET r == requests[taken + 1]
     IN  /\ queue' = Enqueue(next_shard, r)
         /\ endpoint_to_shard' =
              [endpoint_to_shard EXCEPT ![r.host_addr] = next_shard,
                                        ![r.peer_addr] = next_shard]
  /\ next_shard' = (next_shard + 1) % ShardNum
  /\ taken' = taken + 1
  /\ UNCHANGED <<requests, table, out, ringVars, ready, poolVars, pc, pushed,
                 wire, lost>>

ControlDone ==
  /\ pc = "control"
  /\ taken = Len(requests)
  /\ pc' = "send" /\ pushed' = FALSE
  /\ UNCHANGED <<requests, taken, routerVars, queue, table, out, ringVars,
                 ready, poolVars, wire, lost>>

(***************************************************************************)
(* Phase 2: drain sqe_rx, then publish what was pushed.  push() compares   *)
(* its own tail with the head it last read; a full queue drops the entry   *)
(* (post_recv_sqe and post_send_sqe only log it).                          *)
(***************************************************************************)
\* Fault: push_unchecked.
Push_Unchecked(op, b) ==
  /\ sq' = Append(sq, [op |-> op, idx |-> b])
  /\ cached' = cached + 1
  /\ UNCHANGED lost

Push(op, b) ==
  /\ sq' = IF cached < SqCap THEN Append(sq, [op |-> op, idx |-> b]) ELSE sq
  /\ cached' = IF cached < SqCap THEN cached + 1 ELSE cached
  /\ lost' = IF cached < SqCap THEN lost ELSE [lost EXCEPT ![b] = "sq_full"]

\* post_recv_sqe, which release() calls: a new slot without an address.
PostRecv(b) ==
  /\ slot' = [slot EXCEPT ![b] = NoAddr]
  /\ Push("recv", b)

\* post_send_sqe: a new slot addressed to dst.  The length is not used.
PostSend(b, dst) ==
  /\ slot' = [slot EXCEPT ![b] = dst]
  /\ Push("send", b)

\* mark_recv_for starts a new PacketTiming.
MarkRecv(b) == [timestamp EXCEPT ![b] = "recv"]

\* Fault: the marks are never set.
MarkSend_Missing(b) == timestamp

\* mark_shard_done_at and mark_send_sqe_at complete it, if there is one.
MarkSend(b) == [timestamp EXCEPT ![b] = IF @ = "none" THEN @ ELSE "sent"]

\* mark_shard_done_at, post_send_sqe, mark_send_sqe_at.
SendMsg ==
  /\ pc = "send"
  /\ out # <<>>
  /\ LET e == Head(out)
     IN  /\ timestamp' = MarkSend(e.idx)
         /\ PostSend(e.idx, e.dst)
  /\ out' = Tail(out)
  /\ pushed' = TRUE
  /\ UNCHANGED <<requests, taken, routerVars, queue, table, visible, awake,
                 inflight, cq, ready, memory, pc, wire>>

\* sq.sync() after a push: store the tail, then load the head; the kernel may
\* take entries in between.
PublishTail ==
  /\ pc = "send"
  /\ out = <<>> /\ pushed
  /\ visible' = Len(sq)
  /\ pc' = "sync"
  /\ UNCHANGED <<requests, taken, routerVars, queue, table, out, sq, cached,
                 awake, inflight, cq, ready, poolVars, pushed, wire, lost>>

\* ... then, pushed or not, cq.sync().
SyncDone ==
  /\ \/ pc = "sync" /\ cached' = Len(sq)
     \/ pc = "send" /\ out = <<>> /\ ~pushed /\ UNCHANGED cached
  /\ ready' = Len(cq)
  /\ pc' = IF cq = <<>> THEN "control" ELSE "cq"
  /\ UNCHANGED <<requests, taken, routerVars, queue, table, out, sq, visible,
                 awake, inflight, cq, poolVars, pushed, wire, lost>>

(***************************************************************************)
(* Phase 3: the completions seen at cq.sync(), one by one.                 *)
(***************************************************************************)
NextCqe ==
  /\ cq' = Tail(cq)
  /\ ready' = ready - 1

\* decode_token of a completion.
Op(c)  == DecodeOp(c.user_data)
Idx(c) == DecodeIdx(c.user_data)

\* ShardRouter::route.  A packet of an unknown client, and one for a full
\* queue, is dropped with its buffer.
Route(packet) ==
  LET s   == endpoint_to_shard[packet.src]
      why == CASE s = NoShard -> "unknown_src"
               [] s # NoShard /\ Len(queue[s]) = QueueCap -> "queue_full"
               [] OTHER -> "no"
  IN  /\ lost' = [lost EXCEPT ![packet.buf_idx] = why]
      /\ queue' = IF s = NoShard THEN queue ELSE Enqueue(s, packet)

\* mark_recv_for, get_peer_addr and route.
HandleRecv ==
  /\ pc = "cq"
  /\ Op(Head(cq)) = "recv"
  /\ NextCqe
  /\ LET b == Idx(Head(cq))
     IN  /\ timestamp' = MarkRecv(b)
         /\ Route([buf_idx |-> b, len |-> Head(cq).len, src |-> slot[b]])
  /\ pc' = IF ready = 1 THEN "control" ELSE "cq"
  /\ UNCHANGED <<requests, taken, routerVars, table, out, sq, visible, cached,
                 awake, inflight, memory, slot, pushed, wire>>

\* Fault: the buffer is reused at the first completion of its send already.
HandleSendMore_Release ==
  /\ pc = "cq"
  /\ Op(Head(cq)) = "send" /\ Head(cq).more
  /\ NextCqe
  /\ PostRecv(Idx(Head(cq)))
  /\ pc' = IF ready = 1 THEN "control" ELSE "cq"
  /\ UNCHANGED <<requests, taken, routerVars, queue, table, out, visible,
                 awake, inflight, memory, timestamp, pushed, wire>>

\* The first completion of a zero-copy send: more is set, nothing happens.
HandleSendMore ==
  /\ pc = "cq"
  /\ Op(Head(cq)) = "send" /\ Head(cq).more
  /\ NextCqe
  /\ pc' = IF ready = 1 THEN "control" ELSE "cq"
  /\ UNCHANGED <<requests, taken, routerVars, queue, table, out, sq, visible,
                 cached, awake, inflight, poolVars, pushed, wire, lost>>

\* The last one: release() posts a receive, take_recv_for() removes the
\* timing, and unwrapping a mark that is missing panics.
HandleSendLast ==
  /\ pc = "cq"
  /\ Op(Head(cq)) = "send" /\ ~Head(cq).more
  /\ NextCqe
  /\ LET b == Idx(Head(cq))
     IN  /\ PostRecv(b)
         /\ timestamp' = [timestamp EXCEPT ![b] = "none"]
         /\ pc' = CASE timestamp[b] = "recv" -> "panicked"
                    [] timestamp[b] # "recv" /\ ready = 1 -> "control"
                    [] OTHER -> "cq"
  /\ UNCHANGED <<requests, taken, routerVars, queue, table, out, visible,
                 awake, inflight, memory, pushed, wire>>

(***************************************************************************)
(* Shard::run: one message at a time.                                      *)
(***************************************************************************)

\* Fault: the packet goes back to its sender.
RouteTo_Echo(session, src) ==
  IF src \in {session.host_addr, session.peer_addr} THEN src ELSE NoAddr

\* Session::route_to
RouteTo(session, src) ==
  CASE src = session.host_addr -> session.peer_addr
    [] src # session.host_addr /\ src = session.peer_addr -> session.host_addr
    [] OTHER -> NoAddr

\* Fault: only the host is entered.
AddSession_HostOnly(s) ==
  /\ queue[s] # <<>>
  /\ Head(queue[s]) \in Session
  /\ LET r == Head(queue[s])
     IN  table' = [table EXCEPT ![s][r.host_addr] = r]
  /\ queue' = [queue EXCEPT ![s] = Tail(@)]
  /\ UNCHANGED <<requests, taken, routerVars, out, ringVars, ready, poolVars,
                 pc, pushed, wire, lost>>

\* Fault: a host the shard already knows keeps its old session.
AddSession_KeepOld(s) ==
  /\ queue[s] # <<>>
  /\ Head(queue[s]) \in Session
  /\ LET r == Head(queue[s])
     IN  table' = IF table[s][r.host_addr] # NoSession
                  THEN table
                  ELSE [table EXCEPT ![s][r.host_addr] = r, ![s][r.peer_addr] = r]
  /\ queue' = [queue EXCEPT ![s] = Tail(@)]
  /\ UNCHANGED <<requests, taken, routerVars, out, ringVars, ready, poolVars,
                 pc, pushed, wire, lost>>

\* A new session id is entered for both endpoints, over an older one.
AddSession(s) ==
  /\ queue[s] # <<>>
  /\ Head(queue[s]) \in Session
  /\ LET r == Head(queue[s])
     IN  table' = [table EXCEPT ![s][r.host_addr] = r, ![s][r.peer_addr] = r]
  /\ queue' = [queue EXCEPT ![s] = Tail(@)]
  /\ UNCHANGED <<requests, taken, routerVars, out, ringVars, ready, poolVars,
                 pc, pushed, wire, lost>>

\* handle_packet: no session, one that does not name the sender, and a full out
\* channel all drop the packet, and the buffer with it.
HandlePacket(s) ==
  /\ queue[s] # <<>>
  /\ Head(queue[s]) \in Packet
  /\ LET p   == Head(queue[s])
         dst == RouteTo(table[s][p.src], p.src)
         why == CASE table[s][p.src] = NoSession -> "no_session"
                  [] table[s][p.src] # NoSession /\ dst = NoAddr -> "no_route"
                  [] dst # NoAddr /\ Len(out) = OutCap -> "out_full"
                  [] OTHER -> "no"
     IN  /\ lost' = [lost EXCEPT ![p.buf_idx] = why]
         /\ out' = IF why = "no"
                   THEN Append(out, [dst |-> dst, len |-> p.len, idx |-> p.buf_idx])
                   ELSE out
  /\ queue' = [queue EXCEPT ![s] = Tail(@)]
  /\ UNCHANGED <<requests, taken, routerVars, table, ringVars, ready, poolVars,
                 pc, pushed, wire>>

(***************************************************************************)
(* The kernel and the network.                                             *)
(***************************************************************************)

\* The SQPOLL thread takes the oldest published entry and reads its msghdr.
KernelTake ==
  /\ awake /\ visible > 0
  /\ LET e == Head(sq)
     IN  inflight' = inflight \union
                       {[op |-> e.op, idx |-> e.idx, dst |-> slot[e.idx]]}
  /\ sq' = Tail(sq)
  /\ visible' = visible - 1
  /\ UNCHANGED <<requests, taken, routerVars, queue, table, out, cached, awake,
                 cq, ready, poolVars, pc, pushed, wire, lost>>

\* setup_sqpoll(2): after two idle milliseconds the thread goes to sleep.  It
\* would be woken by submit(), which the loop does not call; what wakes it is
\* its own work on a completion.
KernelSleep ==
  /\ awake /\ visible = 0
  /\ awake' = FALSE
  /\ UNCHANGED <<requests, taken, routerVars, queue, table, out, sq, visible,
                 cached, inflight, cq, ready, poolVars, pc, pushed, wire, lost>>

\* A completion carries the token of its entry.
Complete(op, b, n, more) ==
  cq' = Append(cq, [user_data |-> EncodeToken(op, b), len |-> n, more |-> more])

\* A datagram of n cells from src lands in b; src = NoAddr is a failed receive.
KernelRecv(e, src, n) ==
  /\ e.op = "recv"
  /\ n \in IF src = NoAddr THEN {0} ELSE Lens
  /\ memory' = [memory EXCEPT ![e.idx] =
                  [i \in 1..BufSize |-> IF i <= n THEN src ELSE @[i]]]
  /\ slot' = [slot EXCEPT ![e.idx] = src]
  /\ Complete("recv", e.idx, n, FALSE)
  /\ inflight' = inflight \ {e}
  /\ awake' = TRUE
  /\ UNCHANGED <<requests, taken, routerVars, queue, table, out, sq, visible,
                 cached, ready, timestamp, pc, pushed, wire, lost>>

\* sendmsg accepted: the first completion; the buffer is still in use.
KernelSend(e) ==
  /\ e.op = "send"
  /\ Complete("send", e.idx, BufSize, TRUE)
  /\ inflight' = (inflight \ {e}) \union {[e EXCEPT !.op = "notif"]}
  /\ UNCHANGED <<requests, taken, routerVars, queue, table, out, sq, visible,
                 cached, awake, ready, poolVars, pc, pushed, wire, lost>>

\* sendmsg refused: one completion, nothing sent.
KernelSendFail(e) ==
  /\ e.op = "send"
  /\ Complete("send", e.idx, 0, FALSE)
  /\ inflight' = inflight \ {e}
  /\ UNCHANGED <<requests, taken, routerVars, queue, table, out, sq, visible,
                 cached, awake, ready, poolVars, pc, pushed, wire, lost>>

\* The network card has read the buffer: iov_len is BUFFER_SIZE whatever was
\* received, so the whole buffer leaves.
KernelNotif(e) ==
  /\ e.op = "notif"
  /\ wire' = wire \union {[dst |-> e.dst, data |-> memory[e.idx]]}
  /\ Complete("send", e.idx, 0, FALSE)
  /\ inflight' = inflight \ {e}
  /\ awake' = TRUE
  /\ UNCHANGED <<requests, taken, routerVars, queue, table, out, sq, visible,
                 cached, ready, poolVars, pc, pushed, lost>>

Loop ==
  \/ ControlMsg \/ ControlDone \/ SendMsg \/ PublishTail \/ SyncDone
  \/ HandleRecv \/ HandleSendMore \/ HandleSendLast

Next ==
  \/ \E r \in Requests : CreateSession(r)
  \/ Loop
  \/ \E s \in Shard : AddSession(s) \/ HandlePacket(s)
  \/ KernelTake \/ KernelSleep
  \/ \E e \in inflight :
        \/ \E src \in Addr, n \in Lens \union {0} : KernelRecv(e, src, n)
        \/ KernelSend(e) \/ KernelSendFail(e) \/ KernelNotif(e)

Spec == Init /\ [][Next]_vars

\* The loop and the shards spin and never block; the kernel works off what its
\* polling thread has taken, and takes what is published while that is awake.
\* Nobody has to send a datagram or ask for a session.
Fairness ==
  /\ WF_vars(Loop)
  /\ \A s \in Shard : WF_vars(AddSession(s) \/ HandlePacket(s))
  /\ WF_vars(KernelTake)
  /\ \A b \in Buffer :
        WF_vars(\E e \in inflight : e.idx = b /\ (KernelSend(e) \/ KernelNotif(e)))

FairSpec == Spec /\ Fairness

(***************************************************************************)
(* Properties.                                                             *)
(***************************************************************************)

\* Where buffer b is at the moment, one element per occurrence.  A completion
\* that announces another one (more) does not carry the buffer.
Places(b) ==
  {<<"sq", i>> : i \in {j \in DOMAIN sq : sq[j].idx = b}}
  \union {<<"kernel", e.op>> : e \in {x \in inflight : x.idx = b}}
  \union {<<"cq", i>> : i \in {j \in DOMAIN cq : Idx(cq[j]) = b /\ ~cq[j].more}}
  \union {<<"out", i>> : i \in {j \in DOMAIN out : out[j].idx = b}}
  \union UNION {{<<"shard", s, i>> : i \in
                   {j \in DOMAIN queue[s] : /\ queue[s][j] \in Packet
                                           /\ queue[s][j].buf_idx = b}} :
                 s \in Shard}

\* A buffer that has not been lost is in exactly one place, and a lost one in
\* none: no thread and no kernel operation ever works on a buffer, or on the
\* msghdr in live_slots, that another one holds.
OneOwner ==
  \A b \in Buffer :
     Cardinality(Places(b)) = IF lost[b] = "no" THEN 1 ELSE 0

\* The unwraps of the timing marks in the Send branch never panic: a buffer's
\* last send completion always finds the marks of this very send.
NoPanic == pc # "panicked"

\* b carries a datagram that has neither left nor been dropped.
Holding(b) ==
  \/ \E i \in DOMAIN cq : cq[i].user_data = EncodeToken("recv", b) /\ slot[b] # NoAddr
  \/ \E s \in Shard : \E i \in DOMAIN queue[s] :
        queue[s][i] \in Packet /\ queue[s][i].buf_idx = b
  \/ \E i \in DOMAIN out : out[i].idx = b
  \/ \E i \in DOMAIN sq : sq[i] = [op |-> "send", idx |-> b]
  \/ \E e \in inflight : e.idx = b /\ e.op # "recv"

AbstractRelay == INSTANCE Relay WITH
  Client   <- Endpoint,
  NoClient <- NoAddr,
  Slot     <- Buffer,
  sessions <- {{requests[i].host_addr, requests[i].peer_addr} :
                 i \in 1..Len(requests)},
  held     <- [b \in Buffer |-> IF Holding(b) THEN memory[b][1] ELSE NoAddr],
  relayed  <- {<<w.data[1], w.dst>> : w \in wire}

\* Through all its queues and threads, the relay forwards each accepted
\* datagram at most once, and only to the other endpoint of a session of the
\* client whose bytes it carries.
ImplementsRelay == AbstractRelay!RelaySpec

\* The last session among the requests the loop has taken that names a.
Newest(a) ==
  LET named == {i \in 1..taken : a \in {requests[i].host_addr,
                                        requests[i].peer_addr}}
  IN  IF named = {}
      THEN NoSession
      ELSE requests[CHOOSE i \in named : \A j \in named : j <= i]

\* The session shard s will use for a packet of a that stands at position n
\* of its queue: the last one queued before it, or else the table's.
InForce(s, a, n) ==
  LET before == {i \in 1..(n - 1) : /\ queue[s][i] \in Session
                                    /\ a \in {queue[s][i].host_addr,
                                              queue[s][i].peer_addr}}
  IN  IF before = {}
      THEN table[s][a]
      ELSE queue[s][CHOOSE i \in before : \A j \in before : j <= i]

\* The router and the shards agree without a lock: a packet routed now finds,
\* when its shard gets to it, the newest session of its sender.
RouterAgreesWithShard ==
  \A a \in Endpoint :
     LET s == endpoint_to_shard[a]
     IN  IF s = NoShard
         THEN Newest(a) = NoSession
         ELSE InForce(s, a, Len(queue[s]) + 1) = Newest(a)

\* A packet that reached a shard is never dropped there: its session is known
\* and names its sender, and the out channel, larger than the pool, has room.
ShardNeverDrops ==
  \A b \in Buffer : lost[b] \notin {"no_session", "no_route", "out_full"}

\* A session that was answered with success: true becomes known to a shard.
SessionInstalled ==
  \A i \in 1..MaxRequests :
     (taken < i /\ i <= Len(requests)) ~>
        /\ i <= Len(requests)
        /\ \E s \in Shard : table[s][requests[i].host_addr] = requests[i]

(***************************************************************************)
(* What comments and documents of the code say, and the code does not do.  *)
(***************************************************************************)

\* lib.rs:749: when the kernel has finished sending, the buffer is registered
\* for receiving again.
Reregistered ==
  [][HandleSendLast => \E i \in DOMAIN sq' :
        sq'[i] = [op |-> "recv", idx |-> Idx(Head(cq))]]_vars

\* lib.rs:714-716: the loop submits, in SQPOLL mode with submit(); so what is
\* pushed on the submission queue gets to the kernel.
PushedIsTaken ==
  \A b \in Buffer :
     (\E i \in DOMAIN sq : sq[i].idx = b) ~> (\E e \in inflight : e.idx = b)

\* readme.md:44: the relay relays the packets between the peers; so a relayed
\* datagram has no byte that its sender did not put there.
RelayedIntact ==
  \A w \in wire : \A i \in 1..BufSize : w.data[i] = w.data[1]
=============================================================================
