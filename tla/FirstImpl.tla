----------------------------- MODULE FirstImpl -----------------------------
(***************************************************************************)
(* turn_server/src/bin/first_impl.rs: the first relay.  One session, known *)
(* to shard 0 from the start; shard_for sends every packet there, so the   *)
(* three other shards wait for ever and are left out.  The threads that    *)
(* matter are io_uring_loop and shard 0, and they wait for each other: the *)
(* loop blocks while the shard's channel is full, the shard blocks while   *)
(* the out channel is full, which only the loop empties.                   *)
(*                                                                         *)
(* The ring has no polling thread: the kernel takes entries only inside    *)
(* submit().                                                               *)
(*                                                                         *)
(* An operator A_Fault just before A is A with a bug a programmer could    *)
(* have made.  No specification uses it: putting it in A's place shows     *)
(* that a property below can fail.                                         *)
(***************************************************************************)
EXTENDS Naturals, Sequences, FiniteSets, Tokens

CONSTANTS
  Endpoint,     \* client addresses
  NoAddr,       \* 0.0.0.0:0
  HostAddr,     \* 127.0.0.1:9001
  PeerAddr,     \* 127.0.0.1:9002
  PoolSize,     \* POOL_SIZE
  MaxBatch,     \* MAX_SQE_BATCH
  Lens          \* the datagram lengths clients use

Buffer == 0..(PoolSize - 1)
Addr   == Endpoint \union {NoAddr}

ASSUME FirstAssumption ==
  /\ {HostAddr, PeerAddr} \subseteq Endpoint /\ NoAddr \notin Endpoint
  /\ {PoolSize, MaxBatch} \subseteq Nat \ {0}
  /\ PoolSize <= IndexRange
  /\ Lens \subseteq Nat

\* Fault: as many entries as buffers.
SqCap_Pool == PoolSize

\* Entries of the ring: 2048 for 1024 buffers.
SqCap == 2 * PoolSize

\* Fault: a channel of one place.
ChanCap_One == 1

\* Capacity of the shard's channel and of the out channel: 1024.
ChanCap == PoolSize

VARIABLES
  queue,       \* the channel into shard 0
  out,         \* tx_out -> sqe_rx
  sq,          \* submission queue: entries the kernel has not taken
  visible,     \* how many of them the published tail covers
  cached,      \* slots that push() believes are in use
  inflight,    \* operations the kernel is working on
  cq,          \* completion queue
  completed,   \* the loop's copy of what it found there
  memory,      \* whose bytes the buffer starts with
  slot,        \* the address in the buffer's live MsgHdrSlot
  timestamp,   \* the marks in the buffer's PacketTiming, {} when it has none
  pc,          \* phase of io_uring_loop
  pushed,      \* entries pushed in this round
  wire,        \* history: datagrams that left the relay
  lost         \* history: where a buffer fell out of circulation

ringVars == <<sq, visible, cached, inflight, cq>>
poolVars == <<memory, slot, timestamp>>
vars == <<queue, out, sq, visible, cached, inflight, cq, completed, memory,
          slot, timestamp, pc, pushed, wire, lost>>

Cqe  == [user_data : {EncodeToken(op, b) : op \in {"recv", "send"}, b \in Buffer},
         more : BOOLEAN]
Done == [op : {"recv", "send"}, idx : Buffer, more : BOOLEAN]

TypeOK ==
  /\ queue \in Seq([buf_idx : Buffer, src : Addr]) /\ Len(queue) <= ChanCap
  /\ out \in Seq([dst : Addr, idx : Buffer]) /\ Len(out) <= ChanCap
  /\ sq \in Seq([op : {"recv", "send"}, idx : Buffer])
  /\ visible \in 0..Len(sq)
  /\ cached \in Len(sq)..SqCap
  /\ inflight \subseteq [op : {"recv", "send", "notif"}, idx : Buffer, dst : Addr]
  /\ cq \in Seq(Cqe) /\ completed \in Seq(Done)
  /\ memory \in [Buffer -> Addr]
  /\ slot \in [Buffer -> Addr]
  /\ timestamp \in [Buffer -> SUBSET {"recv_cqe", "shard_done", "send_sqe"}]
  /\ pc \in {"send", "reap", "idle", "process", "panicked"}
  /\ pushed \in 0..MaxBatch
  /\ wire \subseteq Addr \X Addr
  /\ lost \in [Buffer -> {"no", "no_session", "sq_full"}]

\* Every index has been popped off the free list and a receive pushed for it;
\* sync() has published them, nothing has been submitted.
Init ==
  /\ queue = <<>> /\ out = <<>>
  /\ sq = [i \in 1..PoolSize |-> [op |-> "recv", idx |-> PoolSize - i]]
  /\ visible = PoolSize /\ cached = PoolSize
  /\ inflight = {} /\ cq = <<>> /\ completed = <<>>
  /\ memory = [b \in Buffer |-> NoAddr]
  /\ slot = [b \in Buffer |-> NoAddr]
  /\ timestamp = [b \in Buffer |-> {}]
  /\ pc = "send" /\ pushed = 0
  /\ wire = {} /\ lost = [b \in Buffer |-> "no"]

(***************************************************************************)
(* The buffer pool.                                                        *)
(***************************************************************************)

\* push() compares its tail with the head it last read; a refused entry is
\* only logged.
Push(op, b) ==
  /\ sq' = IF cached < SqCap THEN Append(sq, [op |-> op, idx |-> b]) ELSE sq
  /\ cached' = IF cached < SqCap THEN cached + 1 ELSE cached
  /\ lost' = IF cached < SqCap THEN lost ELSE [lost EXCEPT ![b] = "sq_full"]

\* post_recv_sqe and post_send_sqe: a new slot, then the entry.
PostRecv(b) ==
  /\ slot' = [slot EXCEPT ![b] = NoAddr]
  /\ Push("recv", b)

PostSend(b, dst) ==
  /\ slot' = [slot EXCEPT ![b] = dst]
  /\ Push("send", b)

\* mark_shard_done_at and mark_send_sqe_at change a timing that exists.
Mark(marks, m) == IF marks = {} THEN marks ELSE marks \union {m}

(***************************************************************************)
(* io_uring_loop.                                                          *)
(***************************************************************************)

\* Fault: the batch has no limit.
SendMsg_NoLimit ==
  /\ pc = "send"
  /\ out # <<>>
  /\ LET e == Head(out)
     IN  /\ PostSend(e.idx, e.dst)
         /\ timestamp' = [timestamp EXCEPT ![e.idx] = Mark(@, "send_sqe")]
  /\ out' = Tail(out)
  /\ pushed' = pushed + 1
  /\ UNCHANGED <<queue, visible, inflight, cq, completed, memory, pc, wire>>

\* Fault: the mark is forgotten.
SendMsg_NoMark ==
  /\ pc = "send"
  /\ out # <<>> /\ pushed < MaxBatch
  /\ PostSend(Head(out).idx, Head(out).dst)
  /\ out' = Tail(out)
  /\ pushed' = pushed + 1
  /\ UNCHANGED <<queue, visible, inflight, cq, completed, memory, timestamp, pc,
                 wire>>

\* One round of the batch: a send from the out channel.
SendMsg ==
  /\ pc = "send"
  /\ out # <<>> /\ pushed < MaxBatch
  /\ LET e == Head(out)
     IN  /\ PostSend(e.idx, e.dst)
         /\ timestamp' = [timestamp EXCEPT ![e.idx] = Mark(@, "send_sqe")]
  /\ out' = Tail(out)
  /\ pushed' = pushed + 1
  /\ UNCHANGED <<queue, visible, inflight, cq, completed, memory, pc, wire>>

\* What the kernel makes of the first n entries.
Started(n) ==
  {[op |-> sq[i].op, idx |-> sq[i].idx, dst |-> slot[sq[i].idx]] : i \in 1..n}

\* After a batch: sync() publishes the tail and reads the head, then submit()
\* hands everything over.
Flush ==
  /\ pc = "send"
  /\ out = <<>> \/ pushed = MaxBatch
  /\ pushed > 0
  /\ cached' = Len(sq)
  /\ inflight' = inflight \union Started(Len(sq))
  /\ sq' = <<>> /\ visible' = 0
  /\ pc' = "reap" /\ pushed' = 0
  /\ UNCHANGED <<queue, out, cq, completed, poolVars, wire, lost>>

\* Nothing was pushed: no sync(), so what release() has pushed stays private.
NoFlush ==
  /\ pc = "send"
  /\ out = <<>> /\ pushed = 0
  /\ pc' = "reap"
  /\ UNCHANGED <<queue, out, ringVars, completed, poolVars, pushed, wire, lost>>

\* cq.sync() finds nothing: submit_and_wait(0) hands over what is published.
ReapNothing ==
  /\ pc = "reap"
  /\ cq = <<>>
  /\ inflight' = inflight \union Started(visible)
  /\ sq' = SubSeq(sq, visible + 1, Len(sq)) /\ visible' = 0
  /\ pc' = "idle"
  /\ UNCHANGED <<queue, out, cached, cq, completed, poolVars, pushed, wire, lost>>

\* The completions there are now, as the loop reads them.
Decoded ==
  [i \in DOMAIN cq |-> [op   |-> DecodeOp(cq[i].user_data),
                        idx  |-> DecodeIdx(cq[i].user_data),
                        more |-> cq[i].more]]

\* Fault: submit_and_wait(1), so an idle ring keeps the loop from the out
\* channel.
Reap_Wait ==
  /\ (pc = "reap" /\ cq # <<>>) \/ pc = "idle"
  /\ completed' = Decoded /\ cq' = <<>>
  /\ pc' = IF cq = <<>> THEN "reap" ELSE "process"
  /\ UNCHANGED <<queue, out, sq, visible, cached, inflight, poolVars, pushed,
                 wire, lost>>

\* All of them are collected before any is processed.
Reap ==
  /\ (pc = "reap" /\ cq # <<>>) \/ pc = "idle"
  /\ completed' = Decoded /\ cq' = <<>>
  /\ pc' = IF cq = <<>> THEN "send" ELSE "process"
  /\ UNCHANGED <<queue, out, sq, visible, cached, inflight, poolVars, pushed,
                 wire, lost>>

NextCompleted ==
  /\ pc = "process"
  /\ completed' = Tail(completed)
  /\ pc' = IF Len(completed) = 1 THEN "send" ELSE "process"

\* ShardRouter::route: every packet to shard 0, waiting for room there.
Route(packet) ==
  /\ Len(queue) < ChanCap
  /\ queue' = Append(queue, packet)

\* mark_recv_for, get_peer_addr, route and mark_shard_done_at.
HandleRecv ==
  /\ NextCompleted
  /\ Head(completed).op = "recv"
  /\ LET b == Head(completed).idx
     IN  /\ Route([buf_idx |-> b, src |-> slot[b]])
         /\ timestamp' = [timestamp EXCEPT ![b] = {"recv_cqe", "shard_done"}]
  /\ UNCHANGED <<out, ringVars, memory, slot, pushed, wire, lost>>

\* Fault: the buffer is reused at the first completion of its send already.
HandleSendMore_Release ==
  /\ NextCompleted
  /\ Head(completed).op = "send" /\ Head(completed).more
  /\ PostRecv(Head(completed).idx)
  /\ UNCHANGED <<queue, out, visible, inflight, cq, memory, timestamp, pushed,
                 wire>>

HandleSendMore ==
  /\ NextCompleted
  /\ Head(completed).op = "send" /\ Head(completed).more
  /\ UNCHANGED <<queue, out, ringVars, poolVars, pushed, wire, lost>>

\* The last completion of a send: release() and take_recv_for(); unwrapping a
\* mark that is missing panics.
HandleSendLast ==
  /\ pc = "process"
  /\ Head(completed).op = "send" /\ ~Head(completed).more
  /\ LET b == Head(completed).idx
     IN  /\ PostRecv(b)
         /\ timestamp' = [timestamp EXCEPT ![b] = {}]
         /\ IF timestamp[b] \in {{}, {"recv_cqe", "shard_done", "send_sqe"}}
            THEN NextCompleted
            ELSE pc' = "panicked" /\ UNCHANGED completed
  /\ UNCHANGED <<queue, out, visible, inflight, cq, memory, pushed, wire>>

(***************************************************************************)
(* Shard 0.                                                                *)
(***************************************************************************)

\* Fault: the peer's packets go back to it.
RouteTo_Echo(src) == IF src = HostAddr THEN PeerAddr ELSE src

\* Session::route_to for an endpoint of the session.
RouteTo(src) == IF src = HostAddr THEN PeerAddr ELSE HostAddr

\* handle_packet: a packet without a session is dropped with its buffer, the
\* others wait for room in the out channel.
HandlePacket ==
  /\ queue # <<>>
  /\ LET p == Head(queue)
     IN  \/ /\ p.src \in {HostAddr, PeerAddr}
            /\ Len(out) < ChanCap
            /\ out' = Append(out, [dst |-> RouteTo(p.src), idx |-> p.buf_idx])
            /\ UNCHANGED lost
         \/ /\ p.src \notin {HostAddr, PeerAddr}
            /\ lost' = [lost EXCEPT ![p.buf_idx] = "no_session"]
            /\ UNCHANGED out
  /\ queue' = Tail(queue)
  /\ UNCHANGED <<ringVars, completed, poolVars, pc, pushed, wire>>

(***************************************************************************)
(* The kernel and the network.                                             *)
(***************************************************************************)
Complete(e, op, more) ==
  cq' = Append(cq, [user_data |-> EncodeToken(op, e.idx), more |-> more])

\* A datagram of n bytes from src lands in the buffer, which keeps what it had
\* when n is 0: a send is of the whole buffer.  src = NoAddr is a failed receive.
KernelRecv(e, src, n) ==
  /\ e.op = "recv"
  /\ n \in IF src = NoAddr THEN {0} ELSE Lens
  /\ memory' = [memory EXCEPT ![e.idx] = IF n = 0 THEN @ ELSE src]
  /\ slot' = [slot EXCEPT ![e.idx] = src]
  /\ Complete(e, "recv", FALSE)
  /\ inflight' = inflight \ {e}
  /\ UNCHANGED <<queue, out, sq, visible, cached, completed, timestamp, pc,
                 pushed, wire, lost>>

\* sendmsg accepted: the first completion; the buffer is still in use.
KernelSend(e) ==
  /\ e.op = "send"
  /\ Complete(e, "send", TRUE)
  /\ inflight' = (inflight \ {e}) \union {[e EXCEPT !.op = "notif"]}
  /\ UNCHANGED <<queue, out, sq, visible, cached, completed, poolVars, pc,
                 pushed, wire, lost>>

\* sendmsg refused: one completion, nothing sent.
KernelSendFail(e) ==
  /\ e.op = "send"
  /\ Complete(e, "send", FALSE)
  /\ inflight' = inflight \ {e}
  /\ UNCHANGED <<queue, out, sq, visible, cached, completed, poolVars, pc,
                 pushed, wire, lost>>

\* The network card has read the buffer.
KernelNotif(e) ==
  /\ e.op = "notif"
  /\ wire' = wire \union {<<memory[e.idx], e.dst>>}
  /\ Complete(e, "send", FALSE)
  /\ inflight' = inflight \ {e}
  /\ UNCHANGED <<queue, out, sq, visible, cached, completed, poolVars, pc,
                 pushed, lost>>

Loop ==
  \/ SendMsg \/ Flush \/ NoFlush \/ ReapNothing \/ Reap
  \/ HandleRecv \/ HandleSendMore \/ HandleSendLast

Next ==
  \/ Loop
  \/ HandlePacket
  \/ \E e \in inflight :
        \/ \E src \in Addr, n \in Lens \union {0} : KernelRecv(e, src, n)
        \/ KernelSend(e) \/ KernelSendFail(e) \/ KernelNotif(e)

Spec == Init /\ [][Next]_vars

\* The two threads are scheduled, and the kernel completes a send it has
\* accepted.  Nobody has to send a datagram.
Fairness ==
  /\ WF_vars(Loop) /\ WF_vars(HandlePacket)
  /\ \A b \in Buffer :
        WF_vars(\E e \in inflight : e.idx = b /\ (KernelSend(e) \/ KernelNotif(e)))

FairSpec == Spec /\ Fairness

(***************************************************************************)
(* Properties.                                                             *)
(***************************************************************************)

\* Where buffer b is at the moment, one element per occurrence.
Places(b) ==
  {<<"sq", i>> : i \in {j \in DOMAIN sq : sq[j].idx = b}}
  \union {<<"kernel", e.op>> : e \in {x \in inflight : x.idx = b}}
  \union {<<"cq", i>> : i \in {j \in DOMAIN cq : DecodeIdx(cq[j].user_data) = b /\ ~cq[j].more}}
  \union {<<"vec", i>> : i \in {j \in DOMAIN completed :
                                  completed[j].idx = b /\ ~completed[j].more}}
  \union {<<"shard", i>> : i \in {j \in DOMAIN queue : queue[j].buf_idx = b}}
  \union {<<"out", i>> : i \in {j \in DOMAIN out : out[j].idx = b}}

\* A buffer is in exactly one place until a packet of a stranger takes it out
\* of circulation; and nothing else does: release() always finds room in the
\* ring, although the head that push() compares with is one batch old.
OneOwner ==
  \A b \in Buffer :
     /\ lost[b] # "sq_full"
     /\ Cardinality(Places(b)) = IF lost[b] = "no" THEN 1 ELSE 0

\* The loop and the shard block on channels towards each other, which would
\* stop the relay for good when both are full; neither ever finds one full.
NeverBlocks ==
  /\ pc = "process" /\ Head(completed).op = "recv" => Len(queue) < ChanCap
  /\ queue # <<>> => Len(out) < ChanCap

\* The unwraps in the Send branch never panic: all marks of a packet are set
\* before the last completion of its send is processed.
NoPanic == pc # "panicked"

\* What the shard has answered is handed to the kernel: nothing waits in the
\* out channel or in the ring for ever.
SendIsStarted ==
  \A b \in Buffer :
     (\E i \in DOMAIN out : out[i].idx = b) ~>
        (\E e \in inflight : e.idx = b /\ e.op = "send")

\* b carries a datagram that has neither left nor been dropped.
Holding(b) ==
  \/ \E i \in DOMAIN cq : cq[i].user_data = EncodeToken("recv", b) /\ slot[b] # NoAddr
  \/ \E i \in DOMAIN completed :
        completed[i].idx = b /\ completed[i].op = "recv" /\ slot[b] # NoAddr
  \/ \E i \in DOMAIN queue : queue[i].buf_idx = b /\ queue[i].src # NoAddr
  \/ \E i \in DOMAIN out : out[i].idx = b
  \/ \E i \in DOMAIN sq : sq[i] = [op |-> "send", idx |-> b]
  \/ \E e \in inflight : e.idx = b /\ e.op # "recv"

AbstractRelay == INSTANCE Relay WITH
  Client   <- Endpoint,
  NoClient <- NoAddr,
  Slot     <- Buffer,
  sessions <- {{HostAddr, PeerAddr}},
  held     <- [b \in Buffer |-> IF Holding(b) THEN memory[b] ELSE NoAddr],
  relayed  <- wire

\* Through all its queues, the relay forwards each accepted datagram at most
\* once, and only to the other endpoint of the session of its sender.
ImplementsRelay == AbstractRelay!RelaySpec
=============================================================================
