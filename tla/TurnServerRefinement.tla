------------------------ MODULE TurnServerRefinement ------------------------
(***************************************************************************)
(* The relay forwards what it has received, once, and to the other end of  *)
(* a session of the sender: TurnServer implements Relay.                   *)
(***************************************************************************)
EXTENDS TurnServerProof

(***************************************************************************)
(* The addresses that accompany a datagram.  memory[b][1] tells whose      *)
(* bytes buffer b begins with.                                             *)
(***************************************************************************)

\* The sessions that were asked for, and who may hear whom because of them.
Asked == {requests[i] : i \in 1..Len(requests)}
Pairs == {{requests[i].host_addr, requests[i].peer_addr} : i \in 1..Len(requests)}

\* A packet for a shard names its sender, a session for a shard was asked for.
QueueTrue ==
  \A s \in Shard : \A i \in DOMAIN queue[s] :
     /\ queue[s][i] \in Packet => /\ queue[s][i].src \in Endpoint
                                  /\ memory[queue[s][i].buf_idx][1] = queue[s][i].src
     /\ queue[s][i] \in Session => queue[s][i] \in Asked

\* A shard knows an address by a session of that address.
TableTrue ==
  \A s \in Shard, a \in Addr :
     table[s][a] # NoSession =>
        table[s][a] \in Asked /\ a \in {table[s][a].host_addr, table[s][a].peer_addr}

\* The address in a live slot is that of the sender, and later that of the
\* receiver.
SlotTrue ==
  \A b \in Buffer :
     /\ In("cq_recv", b) /\ slot[b] # NoAddr => memory[b][1] = slot[b]
     /\ In("sq_send", b) => {memory[b][1], slot[b]} \in Pairs

AnswerTrue == \A i \in DOMAIN out : {memory[out[i].idx][1], out[i].dst} \in Pairs

SendTrue == \A e \in inflight : e.op # "recv" => {memory[e.idx][1], e.dst} \in Pairs

Addressed ==
  /\ endpoint_to_shard[NoAddr] = NoShard
  /\ QueueTrue /\ TableTrue /\ SlotTrue /\ AnswerTrue /\ SendTrue

\* The inductive invariant of the refinement.
RInv == IInv /\ Addressed

(***************************************************************************)
(* Every action keeps the addresses.                                       *)
(***************************************************************************)

\* What was asked for.
LEMMA AskedPairs ==
  ASSUME IInv
  PROVE  /\ Asked \subseteq Session
         /\ \A r \in Asked : {r.host_addr, r.peer_addr} \in Pairs
         /\ \A x, y : {x, y} \in Pairs => x \in Endpoint /\ y \in Endpoint
<1>1. requests \in Seq(Requests)
  BY DEF IInv, TypeOK
<1>2. \A i \in 1..Len(requests) : requests[i] \in Session
  BY <1>1, TurnAssumption
<1>3. \A i \in 1..Len(requests) :
         requests[i].host_addr \in Endpoint /\ requests[i].peer_addr \in Endpoint
  BY <1>2 DEF Session
<1>4. ASSUME NEW x, NEW y, {x, y} \in Pairs PROVE x \in Endpoint /\ y \in Endpoint
  <2>1. PICK i \in 1..Len(requests) : {x, y} = {requests[i].host_addr, requests[i].peer_addr}
    BY <1>4 DEF Pairs
  <2>2. x \in {x, y} /\ y \in {x, y}
    OBVIOUS
  <2>3. /\ x = requests[i].host_addr \/ x = requests[i].peer_addr
        /\ y = requests[i].host_addr \/ y = requests[i].peer_addr
    BY <2>1, <2>2, ZenonT(30)
  <2>4. requests[i].host_addr \in Endpoint /\ requests[i].peer_addr \in Endpoint
    BY <1>3
  <2> QED
    BY <2>3, <2>4
<1> QED
  BY <1>2, <1>4 DEF Asked, Pairs

\* A step that touches no address.
LEMMA QuietAddressed ==
  ASSUME RInv,
         UNCHANGED <<requests, endpoint_to_shard, queue, table, memory, slot, out>>,
         \A b \in Buffer : /\ In("cq_recv", b)' => In("cq_recv", b)
                           /\ In("sq_send", b)' => In("sq_send", b),
         \A e \in inflight' : e.op # "recv" =>
            \E f \in inflight : f.op # "recv" /\ f.idx = e.idx /\ f.dst = e.dst
  PROVE  Addressed'
<1>1. Asked' = Asked /\ Pairs' = Pairs
  BY DEF Asked, Pairs
<1>2. QueueTrue' /\ TableTrue'
  BY <1>1 DEF RInv, Addressed, QueueTrue, TableTrue
<1>3. SlotTrue' /\ AnswerTrue'
  BY <1>1 DEF RInv, Addressed, SlotTrue, AnswerTrue
<1>4. SendTrue'
  BY <1>1 DEF RInv, Addressed, SendTrue
<1> QED
  BY <1>2, <1>3, <1>4 DEF RInv, Addressed

LEMMA CreateSessionAddressed ==
  ASSUME RInv, NEW r \in Requests, CreateSession(r)
  PROVE  /\ Addressed' /\ Pairs' = Pairs \union {{r.host_addr, r.peer_addr}}
         /\ UNCHANGED <<queue, out, sq, inflight, cq, memory, slot, wire>>
<1>1. /\ requests' = Append(requests, r)
      /\ UNCHANGED <<endpoint_to_shard, queue, table, out, sq, inflight, cq, memory, slot, wire>>
  BY DEF CreateSession, routerVars, ringVars, poolVars
<1>2. requests \in Seq(Requests)
  BY DEF RInv, IInv, TypeOK
<1>3. /\ Len(requests) \in Nat /\ Len(requests') = Len(requests) + 1
      /\ \A i \in 1..Len(requests) : requests'[i] = requests[i]
      /\ requests'[Len(requests) + 1] = r
  BY <1>1, <1>2
<1>4. \A i : i \in 1..(Len(requests) + 1) <=> i \in 1..Len(requests) \/ i = Len(requests) + 1
  BY <1>3
<1>5. Asked \subseteq Asked'
  BY <1>3, <1>4 DEF Asked
<1>6. Pairs' = Pairs \union {{r.host_addr, r.peer_addr}}
  BY <1>3, <1>4 DEF Pairs
<1>7. \A x \in Stage, b \in Buffer : In(x, b)' <=> In(x, b)
  BY <1>1 DEF In, Runs, Queued
<1>8. QueueTrue' /\ TableTrue'
  BY <1>1, <1>5 DEF RInv, Addressed, QueueTrue, TableTrue
<1>9. SlotTrue'
  BY <1>1, <1>6, <1>7 DEF RInv, Addressed, SlotTrue, Stage
<1>10. AnswerTrue' /\ SendTrue'
  BY <1>1, <1>6 DEF RInv, Addressed, AnswerTrue, SendTrue
<1> QED
  BY <1>1, <1>6, <1>8, <1>9, <1>10 DEF RInv, Addressed

\* What a shard's queue holds after a message was appended or taken.
LEMMA QueueGrows ==
  ASSUME RInv, NEW s \in Shard, NEW m \in Message,
         queue' = [queue EXCEPT ![s] = Append(queue[s], m)], UNCHANGED <<requests, memory>>,
         m \in Packet => m.src \in Endpoint /\ memory[m.buf_idx][1] = m.src,
         m \in Session => m \in Asked
  PROVE  QueueTrue'
<1>1. Asked' = Asked
  BY DEF Asked
<1>2. queue \in [Shard -> Seq(Message)]
  BY DEF RInv, IInv, TypeOK, Message
<1>3. ASSUME NEW t \in Shard, NEW i \in DOMAIN queue'[t]
      PROVE  (i \in DOMAIN queue[t] /\ queue'[t][i] = queue[t][i]) \/ queue'[t][i] = m
  <2>1. CASE t = s
    <3>1. queue[s] \in Seq(Message) /\ queue'[s] = Append(queue[s], m)
      BY <1>2
    <3> QED
      BY <1>3, <2>1, <3>1
  <2>2. CASE t # s
    BY <1>2, <1>3, <2>2
  <2> QED
    BY <2>1, <2>2
<1> SUFFICES ASSUME NEW t \in Shard, NEW i \in DOMAIN queue'[t]
             PROVE  /\ queue'[t][i] \in Packet =>
                          /\ queue'[t][i].src \in Endpoint
                          /\ memory[queue'[t][i].buf_idx][1] = queue'[t][i].src
                    /\ queue'[t][i] \in Session => queue'[t][i] \in Asked
  BY <1>1 DEF QueueTrue
<1>4. CASE i \in DOMAIN queue[t] /\ queue'[t][i] = queue[t][i]
  BY <1>4 DEF RInv, Addressed, QueueTrue
<1>5. CASE queue'[t][i] = m
  BY <1>5
<1> QED
  BY <1>3, <1>4, <1>5

LEMMA QueueShrinks ==
  ASSUME RInv, NEW s \in Shard, queue[s] # <<>>,
         queue' = [queue EXCEPT ![s] = Tail(queue[s])], UNCHANGED <<requests, memory>>
  PROVE  QueueTrue'
<1>1. Asked' = Asked
  BY DEF Asked
<1>2. \A t \in Shard : \A i : i \in DOMAIN queue'[t] =>
         \E j \in DOMAIN queue[t] : queue'[t][i] = queue[t][j]
  BY QueueTail DEF RInv
<1> QED
  BY <1>1, <1>2 DEF RInv, Addressed, QueueTrue

LEMMA ControlMsgAddressed ==
  ASSUME RInv, ControlMsg
  PROVE  Addressed'
<1> DEFINE r == requests[taken + 1]
<1>1. /\ taken < Len(requests) /\ queue' = Enqueue(next_shard, r)
      /\ endpoint_to_shard' = [endpoint_to_shard EXCEPT ![r.host_addr] = next_shard,
                                                        ![r.peer_addr] = next_shard]
      /\ UNCHANGED <<requests, table, out, inflight, memory, slot>>
  BY DEF ControlMsg, ringVars, poolVars
<1>2. requests \in Seq(Requests) /\ taken \in 0..Len(requests) /\ next_shard \in Shard
  BY DEF RInv, IInv, TypeOK
<1>3. r \in Asked
  <2>1. taken + 1 \in 1..Len(requests)
    BY <1>1, <1>2
  <2> QED
    BY <2>1 DEF Asked
<1> HIDE DEF r
<1>4. r \in Session /\ r \notin Packet /\ r \in Message
  BY <1>3, AskedPairs, SessionOrPacket DEF RInv, Message
<1>5. endpoint_to_shard'[NoAddr] = NoShard
  <2>1. r.host_addr # NoAddr /\ r.peer_addr # NoAddr
    BY <1>4, Sizes DEF Session
  <2>2. endpoint_to_shard \in [Addr -> Shard \union {NoShard}]
    BY DEF RInv, IInv, TypeOK
  <2> QED
    BY <1>1, <2>1, <2>2, Sizes DEF RInv, Addressed
<1>6. QueueTrue'
  <2>1. queue \in [Shard -> Seq(Message)]
    BY DEF RInv, IInv, TypeOK, Message
  <2>2. CASE Len(queue[next_shard]) < QueueCap
    <3>1. queue' = [queue EXCEPT ![next_shard] = Append(queue[next_shard], r)]
      BY <1>1, <1>2, <2>1, <2>2 DEF Enqueue
    <3> QED
      BY <1>1, <1>2, <1>3, <1>4, <3>1, QueueGrows
  <2>3. CASE ~(Len(queue[next_shard]) < QueueCap)
    <3>1. queue' = queue /\ Asked' = Asked
      BY <1>1, <1>2, <2>1, <2>3 DEF Enqueue, Asked
    <3> QED
      BY <1>1, <3>1 DEF RInv, Addressed, QueueTrue
  <2> QED
    BY <2>2, <2>3
<1>7. Asked' = Asked /\ Pairs' = Pairs
  BY <1>1 DEF Asked, Pairs
<1>8. \A x \in Stage, c \in Buffer : In(x, c)' <=> In(x, c)
  BY ControlMsgKeeps DEF RInv, Stays
<1>9. TableTrue' /\ SlotTrue'
  BY <1>1, <1>7, <1>8 DEF RInv, Addressed, TableTrue, SlotTrue, Stage
<1>10. AnswerTrue' /\ SendTrue'
  BY <1>1, <1>7 DEF RInv, Addressed, AnswerTrue, SendTrue
<1> QED
  BY <1>5, <1>6, <1>9, <1>10 DEF Addressed

\* The buffer's address is that of the receiver from now on.
LEMMA SendMsgAddressed ==
  ASSUME RInv, SendMsg
  PROVE  Addressed'
<1>1. PICK b \in Buffer : /\ b = Head(out).idx
                          /\ Moves(b, "out", "sq_send") \/ Leaves(b, "out")
  BY SendMsgMoves DEF RInv
<1>2. /\ slot' = [slot EXCEPT ![b] = Head(out).dst] /\ out' = Tail(out) /\ out # <<>>
      /\ UNCHANGED <<requests, endpoint_to_shard, queue, table, memory, inflight>>
  BY <1>1 DEF SendMsg, PostSend, routerVars
<1>3. /\ Head(out) = out[1] /\ 1 \in DOMAIN out
      /\ \A i \in DOMAIN out' : \E j \in DOMAIN out : out'[i] = out[j]
  BY <1>2, OutTaken DEF RInv
<1>4. {memory[b][1], Head(out).dst} \in Pairs
  BY <1>1, <1>3 DEF RInv, Addressed, AnswerTrue
<1>5. Asked' = Asked /\ Pairs' = Pairs
  BY <1>2 DEF Asked, Pairs
<1>6. slot'[b] = Head(out).dst /\ \A c \in Buffer : c # b => slot'[c] = slot[c]
  BY <1>2 DEF RInv, IInv, TypeOK
<1>7. ~In("cq_recv", b)' /\ \A x \in Stage, c \in Buffer : c # b => (In(x, c)' <=> In(x, c))
  BY <1>1, MoveShape, LeaveShape DEF RInv, IInv, Stage
<1>8. SlotTrue'
  <2> SUFFICES ASSUME NEW c \in Buffer
               PROVE  /\ In("cq_recv", c)' /\ slot'[c] # NoAddr => memory[c][1] = slot'[c]
                      /\ In("sq_send", c)' => {memory[c][1], slot'[c]} \in Pairs
    BY <1>2, <1>5 DEF SlotTrue
  <2>1. CASE c = b
    BY <1>4, <1>6, <1>7, <2>1
  <2>2. CASE c # b
    BY <1>6, <1>7, <2>2 DEF RInv, Addressed, SlotTrue, Stage
  <2> QED
    BY <2>1, <2>2
<1>9. QueueTrue' /\ TableTrue'
  BY <1>2, <1>5 DEF RInv, Addressed, QueueTrue, TableTrue
<1>10. AnswerTrue' /\ SendTrue'
  BY <1>2, <1>3, <1>5 DEF RInv, Addressed, AnswerTrue, SendTrue
<1> QED
  BY <1>2, <1>8, <1>9, <1>10 DEF RInv, Addressed

\* The packet takes the address that was in the slot; only clients have a shard.
LEMMA HandleRecvAddressed ==
  ASSUME RInv, HandleRecv
  PROVE  Addressed'
<1>1. PICK b \in Buffer :
         /\ b = Idx(Head(cq)) /\ In("cq_recv", b) /\ RecvPacket \in Packet
         /\ LET s == endpoint_to_shard[slot[b]]
            IN  \/ /\ Moves(b, "cq_recv", "shard") /\ s \in Shard
                   /\ queue' = [queue EXCEPT ![s] = Append(queue[s], RecvPacket)]
                \/ Leaves(b, "cq_recv") /\ queue' = queue
  BY HandleRecvMoves DEF RInv
<1>2. UNCHANGED <<requests, endpoint_to_shard, table, out, inflight, memory, slot>>
  BY DEF HandleRecv, routerVars
<1>3. Asked' = Asked /\ Pairs' = Pairs
  BY <1>2 DEF Asked, Pairs
<1>4. RecvPacket.buf_idx = b /\ RecvPacket.src = slot[b]
  BY <1>1 DEF RecvPacket
<1>5. QueueTrue'
  <2>1. CASE queue' = queue
    BY <1>2, <1>3, <2>1 DEF RInv, Addressed, QueueTrue
  <2>2. ASSUME NEW s \in Shard, s = endpoint_to_shard[slot[b]],
               queue' = [queue EXCEPT ![s] = Append(queue[s], RecvPacket)]
        PROVE  QueueTrue'
    <3>1. slot[b] # NoAddr
      BY <2>2, Sizes DEF RInv, Addressed
    <3>2. slot[b] \in Endpoint
      BY <3>1 DEF RInv, IInv, TypeOK, Addr
    <3>3. memory[b][1] = slot[b]
      BY <1>1, <3>1 DEF RInv, Addressed, SlotTrue
    <3>4. RecvPacket \in Message /\ RecvPacket \notin Session
      BY <1>1, SessionOrPacket DEF Message
    <3> QED
      BY <1>2, <1>4, <2>2, <3>2, <3>3, <3>4, QueueGrows
  <2> QED
    BY <1>1, <2>1, <2>2
<1>6. \A x \in {"cq_recv", "sq_send"}, c \in Buffer : In(x, c)' => In(x, c)
  BY <1>1, MoveShape, LeaveShape DEF RInv, IInv, Stage
<1>7. TableTrue' /\ SlotTrue'
  BY <1>2, <1>3, <1>6 DEF RInv, Addressed, TableTrue, SlotTrue
<1>8. AnswerTrue' /\ SendTrue'
  BY <1>2, <1>3 DEF RInv, Addressed, AnswerTrue, SendTrue
<1> QED
  BY <1>2, <1>5, <1>7, <1>8 DEF RInv, Addressed

LEMMA HandleSendLastAddressed ==
  ASSUME RInv, HandleSendLast
  PROVE  Addressed'
<1>1. PICK b \in Buffer : /\ b = Idx(Head(cq))
                          /\ Moves(b, "cq_send", "sq_recv") \/ Leaves(b, "cq_send")
  BY HandleSendLastMoves DEF RInv
<1>2. /\ slot' = [slot EXCEPT ![b] = NoAddr]
      /\ UNCHANGED <<requests, endpoint_to_shard, queue, table, memory, inflight, out>>
  BY <1>1 DEF HandleSendLast, PostRecv, routerVars
<1>3. Asked' = Asked /\ Pairs' = Pairs
  BY <1>2 DEF Asked, Pairs
<1>4. \A c \in Buffer : c # b => slot'[c] = slot[c]
  BY <1>2 DEF RInv, IInv, TypeOK
<1>5. /\ ~In("cq_recv", b)' /\ ~In("sq_send", b)'
      /\ \A x \in Stage, c \in Buffer : c # b => (In(x, c)' <=> In(x, c))
  BY <1>1, MoveShape, LeaveShape DEF RInv, IInv, Stage
<1>6. SlotTrue'
  BY <1>2, <1>3, <1>4, <1>5 DEF RInv, Addressed, SlotTrue, Stage
<1>7. QueueTrue' /\ TableTrue'
  BY <1>2, <1>3 DEF RInv, Addressed, QueueTrue, TableTrue
<1>8. AnswerTrue' /\ SendTrue'
  BY <1>2, <1>3 DEF RInv, Addressed, AnswerTrue, SendTrue
<1> QED
  BY <1>2, <1>6, <1>7, <1>8 DEF RInv, Addressed

\* A shard enters a session for its two addresses.
LEMMA AddSessionAddressed ==
  ASSUME RInv, NEW s \in Shard, AddSession(s)
  PROVE  Addressed'
<1> DEFINE r == Head(queue[s])
<1>1. /\ queue[s] # <<>> /\ r \in Session
      /\ table' = [table EXCEPT ![s][r.host_addr] = r, ![s][r.peer_addr] = r]
      /\ queue' = [queue EXCEPT ![s] = Tail(@)]
      /\ UNCHANGED <<requests, endpoint_to_shard, out, inflight, memory, slot>>
  BY DEF AddSession, routerVars, ringVars, poolVars
<1>2. queue' = [queue EXCEPT ![s] = Tail(queue[s])]
  BY <1>1 DEF RInv, IInv, TypeOK
<1>3. QueueTrue' /\ r = queue[s][1] /\ 1 \in DOMAIN queue[s]
  BY <1>1, <1>2, QueueShrinks, QueueTail DEF RInv
<1>4. r \in Asked
  BY <1>1, <1>3 DEF RInv, Addressed, QueueTrue
<1> HIDE DEF r
<1>5. Asked' = Asked /\ Pairs' = Pairs
  BY <1>1 DEF Asked, Pairs
<1>6. TableTrue'
  <2>1. table \in [Shard -> [Addr -> Session \union {NoSession}]]
    BY DEF RInv, IInv, TypeOK
  <2>2. ASSUME NEW t \in Shard, NEW a \in Addr
        PROVE  \/ table'[t][a] = table[t][a]
               \/ table'[t][a] = r /\ a \in {r.host_addr, r.peer_addr}
    BY <1>1, <2>1
  <2> SUFFICES ASSUME NEW t \in Shard, NEW a \in Addr, table'[t][a] # NoSession
               PROVE  /\ table'[t][a] \in Asked
                      /\ a \in {table'[t][a].host_addr, table'[t][a].peer_addr}
    BY <1>5 DEF TableTrue
  <2>3. CASE table'[t][a] = table[t][a]
    BY <2>3 DEF RInv, Addressed, TableTrue
  <2>4. CASE table'[t][a] = r /\ a \in {r.host_addr, r.peer_addr}
    BY <1>4, <2>4
  <2> QED
    BY <2>2, <2>3, <2>4
<1>7. \A x \in Stage, c \in Buffer : In(x, c)' <=> In(x, c)
  BY AddSessionKeeps DEF RInv, Stays
<1>8. SlotTrue'
  BY <1>1, <1>5, <1>7 DEF RInv, Addressed, SlotTrue, Stage
<1>9. AnswerTrue' /\ SendTrue'
  BY <1>1, <1>5 DEF RInv, Addressed, AnswerTrue, SendTrue
<1> QED
  BY <1>1, <1>3, <1>6, <1>8, <1>9 DEF RInv, Addressed

\* A session's answer is the other one of its two addresses.
LEMMA RouteToPair ==
  ASSUME NEW r, NEW a \in {r.host_addr, r.peer_addr}
  PROVE  {a, RouteTo(r, a)} = {r.host_addr, r.peer_addr}
<1>1. CASE a = r.host_addr
  BY <1>1 DEF RouteTo
<1>2. CASE a # r.host_addr /\ a = r.peer_addr
  BY <1>2 DEF RouteTo
<1> QED
  BY <1>1, <1>2

LEMMA HandlePacketAddressed ==
  ASSUME RInv, NEW s \in Shard, HandlePacket(s)
  PROVE  Addressed'
<1> DEFINE p == Head(queue[s])
<1>1. PICK b \in Buffer :
         /\ b = p.buf_idx /\ In("shard", b) /\ Answer(s) \in OutElem
         /\ \/ /\ Moves(b, "shard", "out") /\ out' = Append(out, Answer(s))
               /\ table[s][p.src] # NoSession
            \/ Leaves(b, "shard") /\ out' = out
  BY HandlePacketMoves DEF RInv
<1>2. /\ queue[s] # <<>> /\ p \in Packet /\ queue' = [queue EXCEPT ![s] = Tail(@)]
      /\ UNCHANGED <<requests, endpoint_to_shard, table, inflight, memory, slot>>
  BY DEF HandlePacket, routerVars, ringVars, poolVars
<1>3. queue' = [queue EXCEPT ![s] = Tail(queue[s])]
  BY <1>2 DEF RInv, IInv, TypeOK
<1>4. QueueTrue' /\ p = queue[s][1] /\ 1 \in DOMAIN queue[s]
  BY <1>2, <1>3, QueueShrinks, QueueTail DEF RInv
<1>5. p.src \in Endpoint /\ memory[b][1] = p.src
  BY <1>1, <1>2, <1>4 DEF RInv, Addressed, QueueTrue
<1>6. Asked' = Asked /\ Pairs' = Pairs
  BY <1>2 DEF Asked, Pairs
<1>7. ASSUME table[s][p.src] # NoSession, out' = Append(out, Answer(s)) PROVE AnswerTrue'
  <2> DEFINE r == table[s][p.src]
             x == Answer(s)
  <2>1. r \in Asked /\ p.src \in {r.host_addr, r.peer_addr}
    BY <1>5, <1>7, Sizes DEF RInv, Addressed, TableTrue
  <2>2. x.dst = RouteTo(r, p.src) /\ x.idx = b
    BY <1>1 DEF Answer
  <2> HIDE DEF r, x
  <2>3. {memory[b][1], x.dst} \in Pairs
    <3>1. {p.src, x.dst} = {r.host_addr, r.peer_addr}
      BY <2>1, <2>2, RouteToPair
    <3> QED
      BY <1>5, <2>1, <3>1, AskedPairs DEF RInv
  <2>4. out \in Seq(OutElem)
    BY DEF RInv, IInv, TypeOK, OutElem
  <2>5. ASSUME NEW i \in DOMAIN out'
        PROVE  (i \in DOMAIN out /\ out'[i] = out[i]) \/ out'[i] = x
    <3>1. out' = Append(out, x) /\ x \in OutElem
      BY <1>1, <1>7 DEF x
    <3> QED
      BY <2>4, <2>5, <3>1
  <2> SUFFICES ASSUME NEW i \in DOMAIN out'
               PROVE  {memory[out'[i].idx][1], out'[i].dst} \in Pairs
    BY <1>2, <1>6 DEF AnswerTrue
  <2>6. CASE i \in DOMAIN out /\ out'[i] = out[i]
    BY <2>6 DEF RInv, Addressed, AnswerTrue
  <2>7. CASE out'[i] = x
    BY <2>2, <2>3, <2>7
  <2> QED
    BY <2>5, <2>6, <2>7
<1>8. out' = out => AnswerTrue'
  BY <1>2, <1>6 DEF RInv, Addressed, AnswerTrue
<1>9. \A x \in {"cq_recv", "sq_send"}, c \in Buffer : In(x, c)' => In(x, c)
  BY <1>1, MoveShape, LeaveShape DEF RInv, IInv, Stage
<1>10. TableTrue' /\ SlotTrue'
  BY <1>2, <1>6, <1>9 DEF RInv, Addressed, TableTrue, SlotTrue
<1>11. SendTrue'
  BY <1>2, <1>6 DEF RInv, Addressed, SendTrue
<1> QED
  BY <1>1, <1>2, <1>4, <1>7, <1>8, <1>10, <1>11 DEF RInv, Addressed

\* The kernel reads the receiver's address from the slot.
LEMMA KernelTakeAddressed ==
  ASSUME RInv, KernelTake
  PROVE  Addressed'
<1>1. PICK op \in {"recv", "send"}, b \in Buffer :
         /\ inflight' = inflight \union {[op |-> op, idx |-> b, dst |-> slot[b]]}
         /\ Moves(b, SqStage(op), KStage(op))
  BY KernelTakeMoves DEF RInv
<1>2. UNCHANGED <<requests, endpoint_to_shard, queue, table, memory, slot, out>>
  BY DEF KernelTake, routerVars, poolVars
<1>3. Asked' = Asked /\ Pairs' = Pairs
  BY <1>2 DEF Asked, Pairs
<1>4. op # "recv" => {memory[b][1], slot[b]} \in Pairs
  BY <1>1 DEF Moves, SqStage, RInv, Addressed, SlotTrue
<1>5. SendTrue'
  <2> DEFINE k == [op |-> op, idx |-> b, dst |-> slot[b]]
  <2>1. k.op = op /\ k.idx = b /\ k.dst = slot[b] /\ inflight' = inflight \union {k}
    BY <1>1
  <2> HIDE DEF k
  <2> SUFFICES ASSUME NEW e \in inflight', e.op # "recv"
               PROVE  {memory[e.idx][1], e.dst} \in Pairs
    BY <1>2, <1>3 DEF SendTrue
  <2>2. CASE e \in inflight
    BY <2>2 DEF RInv, Addressed, SendTrue
  <2>3. CASE e = k
    BY <1>4, <2>1, <2>3
  <2> QED
    BY <2>1, <2>2, <2>3
<1>6. \A x \in {"cq_recv", "sq_send"}, c \in Buffer : In(x, c)' => In(x, c)
  <2>1. SqStage(op) \in Stage /\ KStage(op) \in Stage \ {"cq_recv", "sq_send"}
    BY DEF SqStage, KStage, Stage
  <2> QED
    BY <1>1, <2>1 DEF Moves, Stage
<1>7. QueueTrue' /\ TableTrue'
  BY <1>2, <1>3 DEF RInv, Addressed, QueueTrue, TableTrue
<1>8. SlotTrue' /\ AnswerTrue'
  BY <1>2, <1>3, <1>6 DEF RInv, Addressed, SlotTrue, AnswerTrue
<1> QED
  BY <1>2, <1>5, <1>7, <1>8 DEF RInv, Addressed

\* What a receive leaves in the buffer: a datagram has at least one cell.
LEMMA KernelRecvWrites ==
  ASSUME 0 \notin Lens, IInv, NEW e \in inflight, NEW src \in Addr,
         NEW n \in Lens \union {0}, KernelRecv(e, src, n)
  PROVE  /\ e.idx \in Buffer /\ In("k_recv", e.idx)
         /\ slot'[e.idx] = src /\ (src # NoAddr => memory'[e.idx][1] = src)
         /\ \A c \in Buffer : c # e.idx => slot'[c] = slot[c] /\ memory'[c] = memory[c]
         /\ Moves(e.idx, "k_recv", "cq_recv")
<1>1. /\ n \in IF src = NoAddr THEN {0} ELSE Lens
      /\ memory' = [memory EXCEPT ![e.idx] =
                      [i \in 1..BufSize |-> IF i <= n THEN src ELSE @[i]]]
      /\ slot' = [slot EXCEPT ![e.idx] = src]
  BY DEF KernelRecv
<1>2. /\ e.idx \in Buffer /\ Moves(e.idx, "k_recv", "cq_recv")
      /\ memory \in [Buffer -> Cells] /\ slot \in [Buffer -> Addr]
  BY KernelRecvKeeps DEF IInv, TypeOK
<1>3. ASSUME src # NoAddr PROVE memory'[e.idx][1] = src
  <2>1. n \in 0..BufSize /\ n # 0
    BY <1>1, <1>3, TurnAssumption
  <2>2. 1 <= n /\ 1 \in 1..BufSize
    BY <2>1, Sizes
  <2>3. memory'[e.idx] = [i \in 1..BufSize |-> IF i <= n THEN src ELSE memory[e.idx][i]]
    BY <1>1, <1>2
  <2> QED
    BY <2>2, <2>3
<1>4. \A c \in Buffer : c # e.idx => slot'[c] = slot[c] /\ memory'[c] = memory[c]
  BY <1>1, <1>2
<1> QED
  BY <1>1, <1>2, <1>3, <1>4 DEF Moves

\* Nothing else speaks of the buffer that receives.
LEMMA KernelRecvAddressed ==
  ASSUME 0 \notin Lens, RInv, NEW e \in inflight, NEW src \in Addr,
         NEW n \in Lens \union {0}, KernelRecv(e, src, n)
  PROVE  Addressed'
<1> DEFINE b == e.idx
<1>1. /\ b \in Buffer /\ In("k_recv", b)
      /\ slot'[b] = src /\ (src # NoAddr => memory'[b][1] = src)
      /\ \A c \in Buffer : c # b => slot'[c] = slot[c] /\ memory'[c] = memory[c]
      /\ Moves(b, "k_recv", "cq_recv")
  BY KernelRecvWrites DEF RInv
<1>2. /\ e.op = "recv" /\ inflight' = inflight \ {e}
      /\ UNCHANGED <<requests, endpoint_to_shard, queue, table, out>>
  BY DEF KernelRecv, routerVars
<1> HIDE DEF b
<1>3. Asked' = Asked /\ Pairs' = Pairs
  BY <1>2 DEF Asked, Pairs
<1>4. ~In("shard", b) /\ ~In("out", b)
  BY <1>1, Elsewhere DEF RInv, IInv, Stage
<1>5. ASSUME NEW s \in Shard, NEW i \in DOMAIN queue[s], queue[s][i] \in Packet
      PROVE  memory'[queue[s][i].buf_idx] = memory[queue[s][i].buf_idx]
  <2>1. PICK c \in Buffer : c = queue[s][i].buf_idx
    BY <1>5, Entries
  <2>2. queue[s][i] \in ShardEntry(c)
    BY <1>5, <2>1 DEF ShardEntry
  <2>3. In("shard", c)
    BY <2>2 DEF In, Queued, Has
  <2> QED
    BY <1>1, <1>4, <2>1, <2>3
<1>6. ASSUME NEW i \in DOMAIN out PROVE memory'[out[i].idx] = memory[out[i].idx]
  <2>1. out \in Seq(OutElem)
    BY DEF RInv, IInv, TypeOK, OutElem
  <2>2. out[i] \in OutElem
    BY <2>1, Elements
  <2>3. PICK c \in Buffer : c = out[i].idx
    BY <2>2, Entries
  <2>4. out[i] \in OutEntry(c)
    BY <2>2, <2>3 DEF OutEntry
  <2>5. In("out", c)
    BY <2>4 DEF In, Has
  <2> QED
    BY <1>1, <1>4, <2>3, <2>5
<1>7. ASSUME NEW f \in inflight' PROVE f \in inflight /\ memory'[f.idx] = memory[f.idx]
  <2>1. f \in inflight /\ f # e
    BY <1>2, <1>7
  <2>2. f.idx \in Buffer /\ f.idx # b
    BY <2>1, KernelHas DEF RInv, IInv, Single, SingleRing, b
  <2> QED
    BY <1>1, <2>1, <2>2
<1>8. QueueTrue' /\ TableTrue'
  BY <1>2, <1>3, <1>5 DEF RInv, Addressed, QueueTrue, TableTrue
<1>9. AnswerTrue' /\ SendTrue'
  BY <1>2, <1>3, <1>6, <1>7 DEF RInv, Addressed, AnswerTrue, SendTrue
<1>10. SlotTrue'
  <2>1. ~In("sq_send", b)' /\ \A x \in Stage, c \in Buffer : c # b => (In(x, c)' <=> In(x, c))
    BY <1>1, MoveShape DEF RInv, IInv, Stage
  <2> SUFFICES ASSUME NEW c \in Buffer
               PROVE  /\ In("cq_recv", c)' /\ slot'[c] # NoAddr => memory'[c][1] = slot'[c]
                      /\ In("sq_send", c)' => {memory'[c][1], slot'[c]} \in Pairs
    BY <1>3 DEF SlotTrue
  <2>2. CASE c = b
    BY <1>1, <2>1, <2>2
  <2>3. CASE c # b
    BY <1>1, <2>1, <2>3 DEF RInv, Addressed, SlotTrue, Stage
  <2> QED
    BY <2>2, <2>3
<1> QED
  BY <1>2, <1>8, <1>9, <1>10 DEF RInv, Addressed

LEMMA SendStepAddressed ==
  ASSUME RInv, NEW e \in inflight, KernelSend(e) \/ KernelSendFail(e) \/ KernelNotif(e)
  PROVE  Addressed'
<1>1. UNCHANGED <<requests, endpoint_to_shard, queue, table, memory, slot, out>>
  BY DEF KernelSend, KernelSendFail, KernelNotif, routerVars, poolVars
<1>2. /\ e.idx \in Buffer
      /\ \E x, y \in {"k_send", "k_notif", "cq_send"} : Moves(e.idx, x, y)
  BY SendStepKeeps DEF RInv
<1>3. \A b \in Buffer : /\ In("cq_recv", b)' => In("cq_recv", b)
                        /\ In("sq_send", b)' => In("sq_send", b)
  BY <1>2 DEF Moves, Stage
<1>4. ASSUME NEW f \in inflight', f.op # "recv"
      PROVE  \E g \in inflight : g.op # "recv" /\ g.idx = f.idx /\ g.dst = f.dst
  <2>1. CASE KernelSend(e)
    <3> DEFINE k == [e EXCEPT !.op = "notif"]
    <3>1. inflight' = (inflight \ {e}) \union {k} /\ e.op = "send"
      BY <2>1 DEF KernelSend
    <3>2. e \in KernelElem
      BY KernelHas DEF RInv
    <3>3. k.idx = e.idx /\ k.dst = e.dst
      BY <3>2 DEF KernelElem
    <3> HIDE DEF k
    <3> QED
      BY <1>4, <3>1, <3>3
  <2>2. CASE KernelSendFail(e) \/ KernelNotif(e)
    BY <1>4, <2>2 DEF KernelSendFail, KernelNotif
  <2> QED
    BY <2>1, <2>2
<1> QED
  BY <1>1, <1>3, <1>4, QuietAddressed

\* A step that leaves the queues alone too.
LEMMA StayAddressed ==
  ASSUME RInv, Stays,
         UNCHANGED <<requests, endpoint_to_shard, queue, table, memory, slot, out, inflight>>
  PROVE  Addressed'
BY QuietAddressed DEF Stays, Stage

LEMMA InitAddressed == Init => RInv
<1> SUFFICES ASSUME Init PROVE RInv
  OBVIOUS
<1>1. IInv
  BY InitHolds
<1>2. /\ endpoint_to_shard = [a \in Addr |-> NoShard]
      /\ queue = [s \in Shard |-> <<>>]
      /\ table = [s \in Shard |-> [a \in Addr |-> NoSession]]
      /\ out = <<>> /\ cq = <<>> /\ slot = [b \in Buffer |-> NoAddr]
  BY DEF Init
<1>3. /\ \A e \in inflight : e.op = "recv"
      /\ \A i \in DOMAIN sq : sq[i].op = "recv"
  BY DEF Init
<1>4. SlotTrue
  <2>1. \A b \in Buffer : ~In("sq_send", b)
    BY <1>3 DEF In, Has, SqEntry
  <2> QED
    BY <1>2, <2>1 DEF SlotTrue
<1>5. QueueTrue /\ TableTrue
  BY <1>2 DEF QueueTrue, TableTrue
<1>6. AnswerTrue /\ SendTrue
  BY <1>2, <1>3 DEF AnswerTrue, SendTrue
<1> QED
  BY <1>1, <1>2, <1>4, <1>5, <1>6, Sizes DEF RInv, Addressed

LEMMA StepAddressed == 0 \notin Lens /\ RInv /\ [Next]_vars => RInv'
<1> SUFFICES ASSUME 0 \notin Lens, RInv, [Next]_vars PROVE Addressed'
  BY StepKeeps DEF RInv
<1>1. ASSUME NEW r \in Requests, CreateSession(r) PROVE Addressed'
  BY <1>1, CreateSessionAddressed
<1>2. CASE ControlMsg
  BY <1>2, ControlMsgAddressed
<1>3. CASE ControlDone \/ PublishTail \/ SyncDone
  <2>1. UNCHANGED <<requests, endpoint_to_shard, queue, table, memory, slot, out, inflight>>
    BY <1>3 DEF ControlDone, PublishTail, SyncDone, routerVars, ringVars, poolVars
  <2> QED
    BY <1>3, <2>1, PhasesKeep, StayAddressed DEF RInv
<1>4. CASE SendMsg
  BY <1>4, SendMsgAddressed
<1>5. CASE HandleRecv
  BY <1>5, HandleRecvAddressed
<1>6. CASE HandleSendMore
  <2>1. UNCHANGED <<requests, endpoint_to_shard, queue, table, memory, slot, out, inflight>>
    BY <1>6 DEF HandleSendMore, routerVars, poolVars
  <2> QED
    BY <1>6, <2>1, HandleSendMoreStays, StayAddressed DEF RInv
<1>7. CASE HandleSendLast
  BY <1>7, HandleSendLastAddressed
<1>8. ASSUME NEW s \in Shard, AddSession(s) PROVE Addressed'
  BY <1>8, AddSessionAddressed
<1>9. ASSUME NEW s \in Shard, HandlePacket(s) PROVE Addressed'
  BY <1>9, HandlePacketAddressed
<1>10. CASE KernelTake
  BY <1>10, KernelTakeAddressed
<1>11. CASE KernelSleep
  <2>1. UNCHANGED <<requests, endpoint_to_shard, queue, table, memory, slot, out, inflight>>
    BY <1>11 DEF KernelSleep, routerVars, poolVars
  <2> QED
    BY <1>11, <2>1, KernelSleepKeeps, StayAddressed DEF RInv
<1>12. ASSUME NEW e \in inflight, NEW src \in Addr, NEW n \in Lens \union {0},
              KernelRecv(e, src, n)
       PROVE  Addressed'
  BY <1>12, KernelRecvAddressed
<1>13. ASSUME NEW e \in inflight, KernelSend(e) \/ KernelSendFail(e) \/ KernelNotif(e)
       PROVE  Addressed'
  BY <1>13, SendStepAddressed
<1>14. CASE UNCHANGED vars
  <2>1. UNCHANGED <<requests, endpoint_to_shard, queue, table, memory, slot, out, sq,
                    inflight, cq, lost>>
    BY <1>14 DEF vars
  <2>2. Stays
    BY <2>1 DEF Stays, In, Runs, Queued
  <2> QED
    BY <2>1, <2>2, StayAddressed
<1> QED
  BY <1>1, <1>2, <1>3, <1>4, <1>5, <1>6, <1>7, <1>8, <1>9, <1>10, <1>11, <1>12, <1>13,
     <1>14 DEF Next, Loop

(***************************************************************************)
(* The mapping.                                                            *)
(***************************************************************************)

\* What it gives for held and relayed.
HeldBar == [b \in Buffer |-> IF Holding(b) THEN memory[b][1] ELSE NoAddr]
RelayedBar == {<<w.data[1], w.dst>> : w \in wire}

\* held by stages: buffer b carries a datagram that is on its way.
Carrying(b) ==
  \/ In("cq_recv", b) /\ slot[b] # NoAddr
  \/ \E x \in {"shard", "out", "sq_send", "k_send", "k_notif"} : In(x, b)

StageBar == [b \in Buffer |-> IF Carrying(b) THEN memory[b][1] ELSE NoAddr]

LEMMA HoldingIs == IInv => HeldBar = StageBar
<1> SUFFICES ASSUME IInv, NEW b \in Buffer PROVE Holding(b) <=> Carrying(b)
  BY DEF HeldBar, StageBar
<1>1. (\E i \in DOMAIN cq : cq[i].user_data = EncodeToken("recv", b)) <=> In("cq_recv", b)
  <2>1. ASSUME NEW i \in DOMAIN cq
        PROVE  cq[i].user_data = EncodeToken("recv", b) <=> cq[i] \in CqEntry("recv", b)
    <3>1. cq \in Seq(Cqe)
      BY DEF IInv, TypeOK
    <3>2. cq[i] \in Cqe
      BY <3>1, Elements
    <3>3. ASSUME cq[i].more, cq[i].user_data = EncodeToken("recv", b) PROVE FALSE
      <4>1. PICK c \in Buffer : cq[i].user_data = EncodeToken("send", c)
        BY <3>3 DEF IInv, LoopReady
      <4> QED
        BY <3>3, <4>1, TokenUnique
    <3> QED
      BY <3>2, <3>3 DEF CqEntry
  <2> QED
    BY <2>1 DEF In, Has
<1>2. (\E s \in Shard : \E i \in DOMAIN queue[s] :
          queue[s][i] \in Packet /\ queue[s][i].buf_idx = b) <=> In("shard", b)
  BY DEF In, Queued, Has, ShardEntry
<1>3. (\E i \in DOMAIN out : out[i].idx = b) <=> In("out", b)
  <2>1. out \in Seq(OutElem)
    BY DEF IInv, TypeOK, OutElem
  <2>2. \A i \in DOMAIN out : out[i] \in OutElem
    BY <2>1, Elements
  <2> QED
    BY <2>2 DEF In, Has, OutEntry
<1>4. (\E i \in DOMAIN sq : sq[i] = [op |-> "send", idx |-> b]) <=> In("sq_send", b)
  BY DEF In, Has, SqEntry
<1>5. (\E e \in inflight : e.idx = b /\ e.op # "recv") <=> In("k_send", b) \/ In("k_notif", b)
  <2>1. \A e \in inflight : e.op \in {"recv", "send", "notif"}
    BY KernelHas
  <2> QED
    BY <2>1 DEF In, Runs
<1> QED
  BY <1>1, <1>2, <1>3, <1>4, <1>5 DEF Holding, Carrying

\* A buffer's stage tells whether it carries a datagram.
CarryingInStages ==
  \A b \in Buffer, x \in Stage : In(x, b) =>
     /\ x = "cq_recv" => (Carrying(b) <=> slot[b] # NoAddr)
     /\ x \in {"shard", "out", "sq_send", "k_send", "k_notif"} => Carrying(b)
     /\ x \in {"sq_recv", "k_recv", "cq_send"} => ~Carrying(b)

LEMMA CarryingIn == IInv => CarryingInStages
<1> SUFFICES ASSUME IInv, NEW b \in Buffer, NEW x \in Stage, In(x, b)
    PROVE  /\ x = "cq_recv" => (Carrying(b) <=> slot[b] # NoAddr)
           /\ x \in {"shard", "out", "sq_send", "k_send", "k_notif"} => Carrying(b)
           /\ x \in {"sq_recv", "k_recv", "cq_send"} => ~Carrying(b)
  BY DEF CarryingInStages
<1>1. \A y \in Stage \ {x} : ~In(y, b)
  BY Elsewhere DEF IInv
<1> QED
  BY <1>1 DEF Carrying, Stage

\* Both facts in the next state.
LEMMA NextState == IInv' => CarryingInStages' /\ HeldBar' = StageBar'
<1>1. IInv' => CarryingInStages'
  BY CarryingIn, PTL
<1>2. IInv' => (HeldBar = StageBar)'
  BY HoldingIs, PTL
<1> QED
  BY <1>1, <1>2

\* A move leaves the other datagrams alone.
LEMMA MoveBar ==
  ASSUME IInv, NEW b \in Buffer, NEW x \in Stage, NEW y \in Stage, Moves(b, x, y),
         \A c \in Buffer : c # b => slot'[c] = slot[c] /\ memory'[c] = memory[c]
  PROVE  StageBar' = [StageBar EXCEPT ![b] = IF Carrying(b)' THEN memory'[b][1] ELSE NoAddr]
<1>1. ASSUME NEW c \in Buffer, c # b PROVE Carrying(c)' <=> Carrying(c)
  <2>1. \A z \in Stage : In(z, c)' <=> In(z, c)
    BY <1>1, MoveShape DEF IInv
  <2> QED
    BY <1>1, <2>1 DEF Carrying, Stage
<1> QED
  BY <1>1 DEF StageBar

\* A datagram is dropped with its buffer.
LEMMA LeaveBar ==
  ASSUME IInv, NEW b \in Buffer, NEW x \in Stage, Leaves(b, x), memory' = memory,
         \A c \in Buffer : c # b => slot'[c] = slot[c]
  PROVE  StageBar' = [StageBar EXCEPT ![b] = NoAddr]
<1>1. ASSUME NEW c \in Buffer, c # b PROVE Carrying(c)' <=> Carrying(c)
  <2>1. \A z \in Stage : In(z, c)' <=> In(z, c)
    BY <1>1, LeaveShape DEF IInv
  <2> QED
    BY <1>1, <2>1 DEF Carrying, Stage
<1>2. ~Carrying(b)'
  BY LeaveShape DEF IInv, Carrying, Stage
<1> QED
  BY <1>1, <1>2 DEF StageBar

\* After a move, the datagram's state is that of the new stage.
LEMMA MoveCarrying ==
  ASSUME IInv, IInv', NEW b \in Buffer, NEW x \in Stage, NEW y \in Stage, Moves(b, x, y)
  PROVE  /\ x = "cq_recv" => (Carrying(b) <=> slot[b] # NoAddr)
         /\ x \in {"shard", "out", "sq_send", "k_send", "k_notif"} => Carrying(b)
         /\ x \in {"sq_recv", "k_recv", "cq_send"} => ~Carrying(b)
         /\ y = "cq_recv" => (Carrying(b)' <=> slot'[b] # NoAddr)
         /\ y \in {"shard", "out", "sq_send", "k_send", "k_notif"} => Carrying(b)'
         /\ y \in {"sq_recv", "k_recv", "cq_send"} => ~Carrying(b)'
<1>1. In(x, b) /\ In(y, b)'
  BY DEF Moves
<1>2. CarryingInStages /\ CarryingInStages'
  BY CarryingIn, NextState
<1> QED
  BY <1>1, <1>2 DEF CarryingInStages

\* No datagram comes, leaves or is dropped.
LEMMA MoveStutters ==
  ASSUME IInv, NEW b \in Buffer, NEW x \in Stage, NEW y \in Stage, Moves(b, x, y),
         \A c \in Buffer : c # b => slot'[c] = slot[c],
         memory' = memory, Carrying(b)' <=> Carrying(b)
  PROVE  StageBar' = StageBar
<1>1. StageBar' = [StageBar EXCEPT ![b] = IF Carrying(b)' THEN memory'[b][1] ELSE NoAddr]
  BY MoveBar
<1>2. StageBar[b] = IF Carrying(b) THEN memory[b][1] ELSE NoAddr
  BY DEF StageBar
<1>3. StageBar = [c \in Buffer |-> StageBar[c]]
  BY DEF StageBar
<1> HIDE DEF StageBar
<1> QED
  BY <1>1, <1>2, <1>3

LEMMA StayStutters ==
  ASSUME Stays, UNCHANGED <<memory, slot>>
  PROVE  StageBar' = StageBar
<1>1. ASSUME NEW c \in Buffer PROVE Carrying(c)' <=> Carrying(c)
  BY DEF Carrying, Stays, Stage
<1> QED
  BY <1>1 DEF StageBar

(***************************************************************************)
(* The abstract steps.                                                     *)
(***************************************************************************)
RelayStep == [AbstractRelay!RelayNext]_(AbstractRelay!relayVars)

LEMMA Stutter ==
  ASSUME IInv, IInv', StageBar' = StageBar, UNCHANGED <<requests, wire>>
  PROVE  RelayStep
<1>1. HeldBar' = HeldBar
  BY HoldingIs, NextState
<1> QED
  BY <1>1 DEF RelayStep, AbstractRelay!relayVars, HeldBar

LEMMA Dropped ==
  ASSUME IInv, IInv', NEW b \in Buffer, StageBar' = [StageBar EXCEPT ![b] = NoAddr],
         UNCHANGED <<requests, wire>>
  PROVE  RelayStep
<1>1. HeldBar = StageBar /\ HeldBar' = StageBar'
  BY HoldingIs, NextState
<1>2. StageBar = [c \in Buffer |-> StageBar[c]]
  BY DEF StageBar
<1>3. CASE StageBar[b] = NoAddr
  <2>1. StageBar' = StageBar
    BY <1>2, <1>3
  <2> QED
    BY <2>1, Stutter
<1>4. CASE StageBar[b] # NoAddr
  <2>1. HeldBar[b] # NoAddr /\ HeldBar' = [HeldBar EXCEPT ![b] = NoAddr]
    BY <1>1, <1>4
  <2>2. AbstractRelay!Drop(b)
    BY <2>1 DEF AbstractRelay!Drop, HeldBar
  <2> QED
    BY <2>2 DEF RelayStep, AbstractRelay!RelayNext
<1> QED
  BY <1>3, <1>4

LEMMA Accepted ==
  ASSUME IInv, IInv', NEW b \in Buffer, NEW c \in Endpoint, StageBar[b] = NoAddr,
         StageBar' = [StageBar EXCEPT ![b] = c], UNCHANGED <<requests, wire>>
  PROVE  RelayStep
<1>1. HeldBar[b] = NoAddr /\ HeldBar' = [HeldBar EXCEPT ![b] = c]
  BY HoldingIs, NextState
<1>2. AbstractRelay!Accept(b, c)
  BY <1>1 DEF AbstractRelay!Accept, HeldBar
<1> QED
  BY <1>2 DEF RelayStep, AbstractRelay!RelayNext

LEMMA Forwarded ==
  ASSUME IInv, IInv', NEW b \in Buffer, NEW c \in Endpoint, StageBar[b] # NoAddr,
         {StageBar[b], c} \in Pairs, requests' = requests,
         StageBar' = [StageBar EXCEPT ![b] = NoAddr],
         RelayedBar' = RelayedBar \union {<<StageBar[b], c>>}
  PROVE  RelayStep
<1>1. /\ HeldBar[b] # NoAddr /\ HeldBar' = [HeldBar EXCEPT ![b] = NoAddr]
      /\ {HeldBar[b], c} \in Pairs /\ RelayedBar' = RelayedBar \union {<<HeldBar[b], c>>}
  BY HoldingIs, NextState
<1>2. Pairs' = Pairs
  BY DEF Pairs, Asked
<1>3. AbstractRelay!Forward(b, c)
      <=> /\ HeldBar[b] # NoAddr
          /\ {HeldBar[b], c} \in Pairs
          /\ RelayedBar' = RelayedBar \union {<<HeldBar[b], c>>}
          /\ HeldBar' = [HeldBar EXCEPT ![b] = NoAddr]
          /\ Pairs' = Pairs
  BY DEF AbstractRelay!Forward, HeldBar, RelayedBar, Pairs
<1>4. AbstractRelay!Forward(b, c)
  BY <1>1, <1>2, <1>3
<1> QED
  BY <1>4 DEF RelayStep, AbstractRelay!RelayNext

LEMMA Registered ==
  ASSUME IInv, IInv', NEW x \in Endpoint, NEW y \in Endpoint,
         Pairs' = Pairs \union {{x, y}}, StageBar' = StageBar, wire' = wire
  PROVE  RelayStep
<1>1. HeldBar' = HeldBar
  BY HoldingIs, NextState
<1>2. AbstractRelay!Register(x, y)
  BY <1>1 DEF AbstractRelay!Register, HeldBar, Pairs
<1> QED
  BY <1>2 DEF RelayStep, AbstractRelay!RelayNext

(***************************************************************************)
(* The steps.                                                              *)
(***************************************************************************)
LEMMA CreateSessionRelays ==
  ASSUME RInv, IInv', NEW r \in Requests, CreateSession(r)
  PROVE  RelayStep
<1>1. /\ Pairs' = Pairs \union {{r.host_addr, r.peer_addr}}
      /\ UNCHANGED <<memory, slot, wire>>
  BY CreateSessionAddressed
<1>2. StageBar' = StageBar
  BY <1>1, CreateSessionKeeps, StayStutters DEF RInv
<1>3. r.host_addr \in Endpoint /\ r.peer_addr \in Endpoint
  BY TurnAssumption DEF Session
<1> QED
  BY <1>1, <1>2, <1>3, Registered DEF RInv

\* Steps that leave every buffer where it is.
LEMMA StayRelays ==
  ASSUME RInv, IInv', Stays, UNCHANGED <<memory, slot, requests, wire>>
  PROVE  RelayStep
BY StayStutters, Stutter DEF RInv

LEMMA SendMsgRelays ==
  ASSUME RInv, IInv', SendMsg
  PROVE  RelayStep
<1>1. PICK b \in Buffer : /\ b = Head(out).idx
                          /\ Moves(b, "out", "sq_send") \/ Leaves(b, "out")
  BY SendMsgMoves DEF RInv
<1>2. UNCHANGED <<requests, wire, memory>> /\ slot' = [slot EXCEPT ![b] = Head(out).dst]
  BY <1>1 DEF SendMsg, PostSend
<1>3. \A c \in Buffer : c # b => slot'[c] = slot[c]
  BY <1>2 DEF RInv, IInv, TypeOK
<1>4. CASE Moves(b, "out", "sq_send")
  <2>1. Carrying(b) /\ Carrying(b)'
    BY <1>4, MoveCarrying DEF RInv, Stage
  <2>2. StageBar' = StageBar
    BY <1>2, <1>3, <1>4, <2>1, MoveStutters DEF RInv, Stage
  <2> QED
    BY <1>2, <2>2, Stutter DEF RInv
<1>5. CASE Leaves(b, "out")
  <2>1. StageBar' = [StageBar EXCEPT ![b] = NoAddr]
    BY <1>2, <1>3, <1>5, LeaveBar DEF RInv, Stage
  <2> QED
    BY <1>2, <2>1, Dropped DEF RInv
<1> QED
  BY <1>1, <1>4, <1>5

\* Only a client that the router knows reaches a shard.
LEMMA HandleRecvRelays ==
  ASSUME RInv, IInv', HandleRecv
  PROVE  RelayStep
<1>1. PICK b \in Buffer :
         \/ Moves(b, "cq_recv", "shard") /\ endpoint_to_shard[slot[b]] \in Shard
         \/ Leaves(b, "cq_recv")
  BY HandleRecvMoves DEF RInv
<1>2. UNCHANGED <<requests, wire, memory, slot>>
  BY DEF HandleRecv
<1>3. CASE Moves(b, "cq_recv", "shard") /\ endpoint_to_shard[slot[b]] \in Shard
  <2>1. slot[b] # NoAddr
    BY <1>3, Sizes DEF RInv, Addressed
  <2>2. Carrying(b) /\ Carrying(b)'
    BY <1>3, <2>1, MoveCarrying DEF RInv, Stage
  <2>3. StageBar' = StageBar
    BY <1>2, <1>3, <2>2, MoveStutters DEF RInv, Stage
  <2> QED
    BY <1>2, <2>3, Stutter DEF RInv
<1>4. CASE Leaves(b, "cq_recv")
  <2>1. StageBar' = [StageBar EXCEPT ![b] = NoAddr]
    BY <1>2, <1>4, LeaveBar DEF RInv, Stage
  <2> QED
    BY <1>2, <2>1, Dropped DEF RInv
<1> QED
  BY <1>1, <1>3, <1>4

LEMMA HandleSendLastRelays ==
  ASSUME RInv, IInv', HandleSendLast
  PROVE  RelayStep
<1>1. PICK b \in Buffer : /\ b = Idx(Head(cq))
                          /\ Moves(b, "cq_send", "sq_recv") \/ Leaves(b, "cq_send")
  BY HandleSendLastMoves DEF RInv
<1>2. UNCHANGED <<requests, wire, memory>> /\ slot' = [slot EXCEPT ![b] = NoAddr]
  BY <1>1 DEF HandleSendLast, PostRecv
<1>3. \A c \in Buffer : c # b => slot'[c] = slot[c]
  BY <1>2 DEF RInv, IInv, TypeOK
<1>4. CASE Moves(b, "cq_send", "sq_recv")
  <2>1. ~Carrying(b) /\ ~Carrying(b)'
    BY <1>4, MoveCarrying DEF RInv, Stage
  <2>2. StageBar' = StageBar
    BY <1>2, <1>3, <1>4, <2>1, MoveStutters DEF RInv, Stage
  <2> QED
    BY <1>2, <2>2, Stutter DEF RInv
<1>5. CASE Leaves(b, "cq_send")
  <2>1. StageBar' = [StageBar EXCEPT ![b] = NoAddr]
    BY <1>2, <1>3, <1>5, LeaveBar DEF RInv, Stage
  <2> QED
    BY <1>2, <2>1, Dropped DEF RInv
<1> QED
  BY <1>1, <1>4, <1>5

LEMMA HandlePacketRelays ==
  ASSUME RInv, IInv', NEW s \in Shard, HandlePacket(s)
  PROVE  RelayStep
<1>1. PICK b \in Buffer : Moves(b, "shard", "out") \/ Leaves(b, "shard")
  BY HandlePacketMoves DEF RInv
<1>2. UNCHANGED <<requests, wire, memory, slot>>
  BY DEF HandlePacket, poolVars
<1>3. CASE Moves(b, "shard", "out")
  <2>1. Carrying(b) /\ Carrying(b)'
    BY <1>3, MoveCarrying DEF RInv, Stage
  <2>2. StageBar' = StageBar
    BY <1>2, <1>3, <2>1, MoveStutters DEF RInv, Stage
  <2> QED
    BY <1>2, <2>2, Stutter DEF RInv
<1>4. CASE Leaves(b, "shard")
  <2>1. StageBar' = [StageBar EXCEPT ![b] = NoAddr]
    BY <1>2, <1>4, LeaveBar DEF RInv, Stage
  <2> QED
    BY <1>2, <2>1, Dropped DEF RInv
<1> QED
  BY <1>1, <1>3, <1>4

LEMMA KernelTakeRelays ==
  ASSUME RInv, IInv', KernelTake
  PROVE  RelayStep
<1>1. PICK op \in {"recv", "send"}, b \in Buffer : Moves(b, SqStage(op), KStage(op))
  BY KernelTakeMoves DEF RInv
<1>2. UNCHANGED <<requests, wire, memory, slot>>
  BY DEF KernelTake, poolVars
<1>3. PICK x \in Stage, y \in Stage :
         /\ Moves(b, x, y)
         /\ (x = "sq_recv" /\ y = "k_recv") \/ (x = "sq_send" /\ y = "k_send")
  BY <1>1 DEF SqStage, KStage, Stage
<1>4. Carrying(b)' <=> Carrying(b)
  BY <1>3, MoveCarrying DEF RInv
<1>5. StageBar' = StageBar
  BY <1>2, <1>3, <1>4, MoveStutters DEF RInv
<1> QED
  BY <1>2, <1>5, Stutter DEF RInv

\* A receive that succeeded accepts the datagram of a client.
LEMMA KernelRecvRelays ==
  ASSUME 0 \notin Lens, RInv, IInv', NEW e \in inflight, NEW src \in Addr,
         NEW n \in Lens \union {0}, KernelRecv(e, src, n)
  PROVE  RelayStep
<1>1. PICK b \in Buffer :
         /\ slot'[b] = src /\ (src # NoAddr => memory'[b][1] = src)
         /\ \A c \in Buffer : c # b => slot'[c] = slot[c] /\ memory'[c] = memory[c]
         /\ Moves(b, "k_recv", "cq_recv")
  BY KernelRecvWrites DEF RInv
<1>2. UNCHANGED <<requests, wire>>
  BY DEF KernelRecv
<1>3. ~Carrying(b) /\ (Carrying(b)' <=> src # NoAddr)
  BY <1>1, MoveCarrying DEF RInv, Stage
<1>4. StageBar' = [StageBar EXCEPT ![b] = IF Carrying(b)' THEN memory'[b][1] ELSE NoAddr]
  BY <1>1, MoveBar DEF RInv, Stage
<1>5. StageBar' = [StageBar EXCEPT ![b] = src]
  BY <1>1, <1>3, <1>4
<1>6. StageBar[b] = NoAddr
  BY <1>3 DEF StageBar
<1>7. CASE src = NoAddr
  BY <1>2, <1>5, <1>7, Dropped DEF RInv
<1>8. CASE src \in Endpoint
  BY <1>2, <1>5, <1>6, <1>8, Accepted DEF RInv
<1> QED
  BY <1>7, <1>8 DEF Addr

LEMMA KernelSendRelays ==
  ASSUME RInv, IInv', NEW e \in inflight, KernelSend(e)
  PROVE  RelayStep
<1>1. PICK b \in Buffer : Moves(b, "k_send", "k_notif")
  BY SendStepKeeps DEF RInv
<1>2. UNCHANGED <<requests, wire, memory, slot>>
  BY DEF KernelSend, poolVars
<1>3. Carrying(b) /\ Carrying(b)'
  BY <1>1, MoveCarrying DEF RInv, Stage
<1>4. StageBar' = StageBar
  BY <1>1, <1>2, <1>3, MoveStutters DEF RInv, Stage
<1> QED
  BY <1>2, <1>4, Stutter DEF RInv

LEMMA KernelSendFailRelays ==
  ASSUME RInv, IInv', NEW e \in inflight, KernelSendFail(e)
  PROVE  RelayStep
<1>1. PICK b \in Buffer : Moves(b, "k_send", "cq_send")
  BY SendStepKeeps DEF RInv
<1>2. UNCHANGED <<requests, wire, memory, slot>>
  BY DEF KernelSendFail, poolVars
<1>3. ~Carrying(b)'
  BY <1>1, MoveCarrying DEF RInv, Stage
<1>4. StageBar' = [StageBar EXCEPT ![b] = IF Carrying(b)' THEN memory'[b][1] ELSE NoAddr]
  BY <1>1, <1>2, MoveBar DEF RInv, Stage
<1>5. StageBar' = [StageBar EXCEPT ![b] = NoAddr]
  BY <1>3, <1>4
<1> QED
  BY <1>2, <1>5, Dropped DEF RInv

\* The datagram leaves, to the address the kernel read from the slot.
LEMMA KernelNotifRelays ==
  ASSUME RInv, IInv', NEW e \in inflight, KernelNotif(e)
  PROVE  RelayStep
<1>1. PICK b \in Buffer : b = e.idx /\ Moves(b, "k_notif", "cq_send")
  BY SendStepKeeps DEF RInv
<1>2. /\ UNCHANGED <<requests, memory, slot>> /\ e.op = "notif"
      /\ wire' = wire \union {[dst |-> e.dst, data |-> memory[b]]}
  BY <1>1 DEF KernelNotif, poolVars
<1>3. Carrying(b) /\ ~Carrying(b)'
  BY <1>1, MoveCarrying DEF RInv, Stage
<1>4. StageBar' = [StageBar EXCEPT ![b] = IF Carrying(b)' THEN memory'[b][1] ELSE NoAddr]
  BY <1>1, <1>2, MoveBar DEF RInv, Stage
<1>5. StageBar' = [StageBar EXCEPT ![b] = NoAddr] /\ StageBar[b] = memory[b][1]
  <2>1. StageBar[b] = memory[b][1]
    BY <1>3 DEF StageBar
  <2> QED
    BY <1>3, <1>4, <2>1
<1>6. {memory[b][1], e.dst} \in Pairs
  BY <1>1, <1>2 DEF RInv, Addressed, SendTrue
<1>7. memory[b][1] \in Endpoint /\ e.dst \in Endpoint
  BY <1>6, AskedPairs DEF RInv
<1>8. RelayedBar' = RelayedBar \union {<<memory[b][1], e.dst>>}
  <2> DEFINE w == [dst |-> e.dst, data |-> memory[b]]
  <2>1. w.dst = e.dst /\ w.data = memory[b] /\ wire' = wire \union {w}
    BY <1>2
  <2> HIDE DEF w
  <2> QED
    BY <2>1 DEF RelayedBar
<1> HIDE DEF StageBar, RelayedBar
<1> QED
  BY <1>2, <1>5, <1>6, <1>7, <1>8, Forwarded, Sizes DEF RInv

LEMMA StepRelays ==
  ASSUME 0 \notin Lens, RInv, IInv', [Next]_vars
  PROVE  RelayStep
<1>1. ASSUME NEW r \in Requests, CreateSession(r) PROVE RelayStep
  BY <1>1, CreateSessionRelays
<1>2. CASE ControlMsg
  <2>1. UNCHANGED <<memory, slot, requests, wire>>
    BY <1>2 DEF ControlMsg, poolVars
  <2> QED
    BY <1>2, <2>1, ControlMsgKeeps, StayRelays DEF RInv
<1>3. CASE ControlDone \/ PublishTail \/ SyncDone
  <2>1. UNCHANGED <<memory, slot, requests, wire>>
    BY <1>3 DEF ControlDone, PublishTail, SyncDone, poolVars
  <2> QED
    BY <1>3, <2>1, PhasesKeep, StayRelays DEF RInv
<1>4. CASE SendMsg
  BY <1>4, SendMsgRelays
<1>5. CASE HandleRecv
  BY <1>5, HandleRecvRelays
<1>6. CASE HandleSendMore
  <2>1. UNCHANGED <<memory, slot, requests, wire>>
    BY <1>6 DEF HandleSendMore, poolVars
  <2> QED
    BY <1>6, <2>1, HandleSendMoreStays, StayRelays DEF RInv
<1>7. CASE HandleSendLast
  BY <1>7, HandleSendLastRelays
<1>8. ASSUME NEW s \in Shard, AddSession(s) PROVE RelayStep
  <2>1. UNCHANGED <<memory, slot, requests, wire>>
    BY <1>8 DEF AddSession, poolVars
  <2> QED
    BY <1>8, <2>1, AddSessionKeeps, StayRelays DEF RInv
<1>9. ASSUME NEW s \in Shard, HandlePacket(s) PROVE RelayStep
  BY <1>9, HandlePacketRelays
<1>10. CASE KernelTake
  BY <1>10, KernelTakeRelays
<1>11. CASE KernelSleep
  <2>1. UNCHANGED <<memory, slot, requests, wire>>
    BY <1>11 DEF KernelSleep, poolVars
  <2> QED
    BY <1>11, <2>1, KernelSleepKeeps, StayRelays DEF RInv
<1>12. ASSUME NEW e \in inflight, NEW src \in Addr, NEW n \in Lens \union {0},
              KernelRecv(e, src, n)
       PROVE  RelayStep
  BY <1>12, KernelRecvRelays
<1>13. ASSUME NEW e \in inflight, KernelSend(e) \/ KernelSendFail(e) \/ KernelNotif(e)
       PROVE  RelayStep
  BY <1>13, KernelSendRelays, KernelSendFailRelays, KernelNotifRelays
<1>14. CASE UNCHANGED vars
  <2>1. UNCHANGED <<memory, slot, requests, wire, queue, out, sq, inflight, cq, lost>>
    BY <1>14 DEF vars
  <2>2. Stays
    BY <2>1 DEF Stays, In, Runs, Queued
  <2> QED
    BY <2>1, <2>2, StayRelays
<1> QED
  BY <1>1, <1>2, <1>3, <1>4, <1>5, <1>6, <1>7, <1>8, <1>9, <1>10, <1>11, <1>12, <1>13,
     <1>14 DEF Next, Loop

LEMMA InitRelays == Init => AbstractRelay!RelayInit
<1> SUFFICES ASSUME Init PROVE AbstractRelay!RelayInit
  OBVIOUS
<1>1. /\ requests = <<>> /\ wire = {}
      /\ \A b \in Buffer : memory[b][1] = NoAddr
  BY Sizes DEF Init
<1>2. [b \in Buffer |-> IF Holding(b) THEN memory[b][1] ELSE NoAddr]
         = [b \in Buffer |-> NoAddr]
  BY <1>1
<1>3. Pairs = {}
  BY <1>1 DEF Pairs
<1>4. RelayedBar = {}
  BY <1>1 DEF RelayedBar
<1>5. AbstractRelay!RelayInit
      <=> /\ Pairs \in SUBSET {{x, y} : x, y \in Endpoint}
          /\ [b \in Buffer |-> IF Holding(b) THEN memory[b][1] ELSE NoAddr]
                = [b \in Buffer |-> NoAddr]
          /\ RelayedBar = {}
  BY DEF AbstractRelay!RelayInit, Pairs, RelayedBar
<1> QED
  BY <1>2, <1>3, <1>4, <1>5

\* The addresses stay true: at every stage of its way a datagram is accompanied
\* by its sender's address, and from the shard on by that of the other end of a
\* session of the sender, whatever sessions are asked for meanwhile.  The
\* hypothesis says that a datagram has at least one cell.
THEOREM AddressesTrue == 0 \notin Lens => (Spec => []RInv)
<1> SUFFICES ASSUME 0 \notin Lens PROVE Spec => []RInv
  OBVIOUS
<1>1. RInv /\ [Next]_vars => RInv'
  BY StepAddressed
<1> QED
  BY <1>1, InitAddressed, PTL DEF Spec

\* The relay implements the abstract one, for every number of buffers, shards,
\* clients and sessions and every capacity of the queues: what leaves has been
\* received, leaves once, and goes to the other end of a session of the sender.
\* The hypothesis says that a datagram has at least one cell: the relay sends
\* whole buffers, so an empty one would carry the bytes of the client before.
THEOREM Refinement == 0 \notin Lens => (Spec => ImplementsRelay)
<1> SUFFICES ASSUME 0 \notin Lens PROVE Spec => ImplementsRelay
  OBVIOUS
<1>1. RInv /\ RInv' /\ [Next]_vars => [AbstractRelay!RelayNext]_(AbstractRelay!relayVars)
  BY StepRelays DEF RInv, RelayStep
<1>2. Spec => []RInv
  BY AddressesTrue
<1> QED
  BY <1>1, <1>2, InitRelays, PTL DEF Spec, ImplementsRelay, AbstractRelay!RelaySpec
=============================================================================
