-------------------------- MODULE TurnServerProof --------------------------
(***************************************************************************)
(* Proofs about TurnServer, for every number of buffers up to 2^16, of     *)
(* shards and clients, and every capacity of the queues.                   *)
(***************************************************************************)
EXTENDS TurnServer, RelayLemmas

(***************************************************************************)
(* Where a buffer is.                                                      *)
(***************************************************************************)

\* The elements of the queues that carry buffer b.  A completion that announces
\* another one (more) carries none.
SqEntry(op, b) == {[op |-> op, idx |-> b]}
CqEntry(op, b) == {c \in Cqe : c.user_data = EncodeToken(op, b) /\ ~c.more}
ShardEntry(b) == {p \in Packet : p.buf_idx = b}
OutElem == [dst : Addr, len : 0..BufSize, idx : Buffer]
OutEntry(b) == {x \in OutElem : x.idx = b}

\* The kernel works on operation op of buffer b.
Runs(op, b) == \E e \in inflight : e.op = op /\ e.idx = b

\* A packet in b waits for a shard.
Queued(b) == \E s \in Shard : Has(queue[s], ShardEntry(b))

\* The stages of a buffer's round trip.
Stage == {"sq_recv", "k_recv", "cq_recv", "shard", "out",
          "sq_send", "k_send", "k_notif", "cq_send"}

In(st, b) ==
  \/ st = "sq_recv" /\ Has(sq, SqEntry("recv", b))
  \/ st = "k_recv"  /\ Runs("recv", b)
  \/ st = "cq_recv" /\ Has(cq, CqEntry("recv", b))
  \/ st = "shard"   /\ Queued(b)
  \/ st = "out"     /\ Has(out, OutEntry(b))
  \/ st = "sq_send" /\ Has(sq, SqEntry("send", b))
  \/ st = "k_send"  /\ Runs("send", b)
  \/ st = "k_notif" /\ Runs("notif", b)
  \/ st = "cq_send" /\ Has(cq, CqEntry("send", b))

(***************************************************************************)
(* The inductive invariant.                                                *)
(***************************************************************************)

\* Buffer b is in one stage, or lost.
OwnedOnce(b) ==
  /\ \A x, y \in Stage : In(x, b) /\ In(y, b) => x = y
  /\ lost[b] = "no" <=> \E x \in Stage : In(x, b)

Owned == \A b \in Buffer : OwnedOnce(b)

\* In its stage it is there once.
SingleRing ==
  /\ \A op \in {"recv", "send"}, b \in Buffer :
        One(sq, SqEntry(op, b)) /\ One(cq, CqEntry(op, b))
  /\ \A e, f \in inflight : e.idx = f.idx => e = f

SingleShard ==
  \A b \in Buffer :
     /\ \A s \in Shard : One(queue[s], ShardEntry(b))
     /\ \A s, t \in Shard :
           Has(queue[s], ShardEntry(b)) /\ Has(queue[t], ShardEntry(b)) => s = t

SingleOut == \A b \in Buffer : One(out, OutEntry(b))

Single == SingleRing /\ SingleShard /\ SingleOut

\* The loop works on completions while there are some it has seen; only a send
\* announces another completion.
LoopReady ==
  /\ pc # "panicked"
  /\ pc = "cq" <=> ready > 0
  /\ \A i \in DOMAIN cq :
        cq[i].more => \E b \in Buffer : cq[i].user_data = EncodeToken("send", b)

\* A packet's marks are set before it is sent.
Marked ==
  \A b \in Buffer :
     /\ In("shard", b) \/ In("out", b) => timestamp[b] = "recv"
     /\ \A x \in {"sq_send", "k_send", "k_notif", "cq_send"} :
           In(x, b) => timestamp[b] = "sent"

\* No queue is longer than it may be.
QueuesFit == \A s \in Shard : Len(queue[s]) <= QueueCap

IInv == TypeOK /\ Owned /\ Single /\ LoopReady /\ Marked /\ QueuesFit

(***************************************************************************)
(* Entries of the queues.                                                  *)
(***************************************************************************)

\* The sizes are numbers, and buffer indices fit into a token.
LEMMA Sizes ==
  /\ PoolSize \in Nat /\ PoolSize > 0 /\ BufSize \in Nat /\ BufSize > 0
  /\ SqCap \in Nat /\ QueueCap \in Nat /\ OutCap \in Nat /\ PoolSize <= SqCap
  /\ ShardNum \in Nat /\ ShardNum > 0 /\ NoShard \notin Shard /\ MaxRequests \in Nat
  /\ Buffer \subseteq 0..(IndexRange - 1) /\ Buffer \subseteq Nat
  /\ NoAddr \in Addr /\ NoAddr \notin Endpoint /\ Endpoint \subseteq Addr
<1>1. /\ {MaxRequests, PoolSize, BufSize, ShardNum, SqCap, QueueCap, OutCap}
           \subseteq Nat \ {0}
      /\ PoolSize <= IndexRange /\ PoolSize <= SqCap
  BY TurnAssumption
<1>2. ASSUME NEW n \in Nat, NEW m \in Nat, n <= m
      PROVE  0..(n - 1) \subseteq 0..(m - 1) /\ 0..(n - 1) \subseteq Nat
  BY <1>2
<1>3. Buffer \subseteq 0..(IndexRange - 1) /\ Buffer \subseteq Nat
  <2>1. IndexRange \in Nat
    BY DEF IndexRange
  <2> QED
    BY <1>1, <1>2, <2>1 DEF Buffer
<1>4. NoAddr \in Addr /\ NoAddr \notin Endpoint /\ Endpoint \subseteq Addr
  BY TurnAssumption DEF Addr
<1>5. /\ PoolSize \in Nat /\ PoolSize > 0 /\ BufSize \in Nat /\ BufSize > 0
      /\ SqCap \in Nat /\ QueueCap \in Nat /\ OutCap \in Nat /\ MaxRequests \in Nat
      /\ ShardNum \in Nat /\ ShardNum > 0
  BY <1>1
<1>6. NoShard \notin Shard
  BY <1>5 DEF NoShard, Shard
<1> QED
  BY <1>1, <1>3, <1>4, <1>5, <1>6

\* A token belongs to one operation and one buffer.
LEMMA TokenUnique ==
  ASSUME NEW o \in {"recv", "send"}, NEW p \in {"recv", "send"},
         NEW b \in Buffer, NEW c \in Buffer
  PROVE  /\ EncodeToken(o, b) = EncodeToken(p, c) => o = p /\ b = c
         /\ DecodeOp(EncodeToken(o, b)) = o /\ DecodeIdx(EncodeToken(o, b)) = b
BY TokenDecodes, Sizes

\* A queue element is a session or a packet, not both.
LEMMA SessionOrPacket == \A m : ~(m \in Session /\ m \in Packet)
<1> SUFFICES ASSUME NEW m \in Session, m \in Packet PROVE FALSE
  OBVIOUS
<1>1. DOMAIN m = {"host_addr", "peer_addr"}
  BY DEF Session
<1>2. DOMAIN m = {"buf_idx", "len", "src"}
  BY DEF Packet
<1> QED
  BY <1>1, <1>2

\* Which entries carry which buffer.
LEMMA Entries ==
  /\ \A x \in Sqe : /\ x.op \in {"recv", "send"} /\ x.idx \in Buffer
                    /\ \A p, c : x \in SqEntry(p, c) <=> x.op = p /\ x.idx = c
  /\ \A o \in {"recv", "send"}, b \in Buffer :
        /\ [op |-> o, idx |-> b] \in Sqe
        /\ \A p, c : [op |-> o, idx |-> b] \in SqEntry(p, c) <=> o = p /\ b = c
  /\ \A m \in Packet : /\ m.buf_idx \in Buffer /\ m.src \in Addr /\ m.len \in 0..BufSize
                       /\ \A c : m \in ShardEntry(c) <=> m.buf_idx = c
  /\ \A r \in Session : \A c : r \notin ShardEntry(c)
  /\ \A x \in OutElem : /\ x.idx \in Buffer /\ x.dst \in Addr
                        /\ \A c : x \in OutEntry(c) <=> x.idx = c
<1>1. ASSUME NEW x \in Sqe
      PROVE  /\ x.op \in {"recv", "send"} /\ x.idx \in Buffer
             /\ \A p, c : x \in SqEntry(p, c) <=> x.op = p /\ x.idx = c
  <2>1. x.op \in {"recv", "send"} /\ x.idx \in Buffer /\ x = [op |-> x.op, idx |-> x.idx]
    BY DEF Sqe
  <2>2. ASSUME NEW p, NEW c PROVE x \in SqEntry(p, c) <=> x.op = p /\ x.idx = c
    <3>1. SqEntry(p, c) = {[op |-> p, idx |-> c]}
      BY DEF SqEntry
    <3> QED
      BY <2>1, <3>1
  <2> QED
    BY <2>1, <2>2
<1>2. ASSUME NEW o \in {"recv", "send"}, NEW b \in Buffer
      PROVE  /\ [op |-> o, idx |-> b] \in Sqe
             /\ \A p, c : [op |-> o, idx |-> b] \in SqEntry(p, c) <=> o = p /\ b = c
  BY DEF Sqe, SqEntry
<1>3. \A m \in Packet : /\ m.buf_idx \in Buffer /\ m.src \in Addr /\ m.len \in 0..BufSize
                        /\ \A c : m \in ShardEntry(c) <=> m.buf_idx = c
  BY DEF Packet, ShardEntry
<1>4. \A r \in Session : \A c : r \notin ShardEntry(c)
  BY SessionOrPacket DEF ShardEntry
<1>5. \A x \in OutElem : /\ x.idx \in Buffer /\ x.dst \in Addr
                         /\ \A c : x \in OutEntry(c) <=> x.idx = c
  BY DEF OutElem, OutEntry
<1> QED
  BY <1>1, <1>2, <1>3, <1>4, <1>5

\* A completion and what the loop reads in it.
LEMMA Completion ==
  ASSUME NEW x \in Cqe
  PROVE  /\ Op(x) \in {"recv", "send"} /\ Idx(x) \in Buffer /\ x.len \in 0..BufSize
         /\ x.user_data = EncodeToken(Op(x), Idx(x))
         /\ \A p \in {"recv", "send"}, c \in Buffer :
               /\ x \in CqEntry(p, c) <=> Op(x) = p /\ Idx(x) = c /\ ~x.more
               /\ x.user_data = EncodeToken(p, c) <=> Op(x) = p /\ Idx(x) = c
<1>1. /\ x.user_data \in {EncodeToken(op, b) : op \in {"recv", "send"}, b \in Buffer}
      /\ x.len \in 0..BufSize
  BY DEF Cqe
<1>2. PICK o \in {"recv", "send"}, b \in Buffer : x.user_data = EncodeToken(o, b)
  BY <1>1
<1>3. Op(x) = o /\ Idx(x) = b
  BY <1>2, TokenUnique DEF Op, Idx
<1>4. \A p \in {"recv", "send"}, c \in Buffer :
         x.user_data = EncodeToken(p, c) <=> Op(x) = p /\ Idx(x) = c
  BY <1>2, <1>3, TokenUnique
<1>5. \A p \in {"recv", "send"}, c \in Buffer :
         x \in CqEntry(p, c) <=> Op(x) = p /\ Idx(x) = c /\ ~x.more
  BY <1>4 DEF CqEntry
<1> QED
  BY <1>1, <1>2, <1>3, <1>4, <1>5

(***************************************************************************)
(* How buffers move.                                                       *)
(***************************************************************************)

\* Buffer b goes from one stage to another, everything else stays.
Moves(b, from, to) ==
  /\ In(from, b)
  /\ \A x \in Stage, c \in Buffer :
        In(x, c)' <=> (In(x, c) /\ ~(x = from /\ c = b)) \/ (x = to /\ c = b)
  /\ lost' = lost

\* Buffer b falls out of circulation.
Leaves(b, from) ==
  /\ In(from, b)
  /\ \A x \in Stage, c \in Buffer : In(x, c)' <=> In(x, c) /\ ~(x = from /\ c = b)
  /\ lost'[b] # "no" /\ \A c \in Buffer : c # b => lost'[c] = lost[c]

\* No buffer moves.
Stays == lost' = lost /\ \A x \in Stage, c \in Buffer : In(x, c)' <=> In(x, c)

\* A buffer taken out of a stage is in none.
LEMMA Elsewhere ==
  ASSUME Owned, NEW b \in Buffer, NEW x \in Stage, In(x, b)
  PROVE  lost[b] = "no" /\ \A y \in Stage \ {x} : ~In(y, b)
BY DEF Owned, OwnedOnce

\* Where the buffers are after a move.
LEMMA MoveShape ==
  ASSUME Owned, NEW b \in Buffer, NEW x \in Stage, NEW y \in Stage, Moves(b, x, y)
  PROVE  /\ \A z \in Stage : In(z, b)' <=> z = y
         /\ \A z \in Stage, c \in Buffer : c # b => (In(z, c)' <=> In(z, c))
BY DEF Owned, OwnedOnce, Moves

LEMMA LeaveShape ==
  ASSUME Owned, NEW b \in Buffer, NEW x \in Stage, Leaves(b, x)
  PROVE  /\ \A z \in Stage : ~In(z, b)'
         /\ \A z \in Stage, c \in Buffer : c # b => (In(z, c)' <=> In(z, c))
BY DEF Owned, OwnedOnce, Leaves

\* They stay in one stage each.
LEMMA MoveOwned ==
  ASSUME Owned, NEW b \in Buffer, NEW x \in Stage, NEW y \in Stage, Moves(b, x, y)
  PROVE  Owned'
<1> SUFFICES ASSUME NEW c \in Buffer PROVE OwnedOnce(c)'
  BY DEF Owned
<1>1. OwnedOnce(c) /\ lost' = lost /\ In(x, b)
  BY DEF Owned, Moves
<1>2. CASE c = b
  BY <1>1, <1>2, MoveShape DEF OwnedOnce
<1>3. CASE c # b
  BY <1>1, <1>3, MoveShape DEF OwnedOnce
<1> QED
  BY <1>2, <1>3

LEMMA LeaveOwned ==
  ASSUME Owned, NEW b \in Buffer, NEW x \in Stage, Leaves(b, x)
  PROVE  Owned'
<1> SUFFICES ASSUME NEW c \in Buffer PROVE OwnedOnce(c)'
  BY DEF Owned
<1>1. OwnedOnce(c) /\ lost'[b] # "no" /\ (c # b => lost'[c] = lost[c])
  BY DEF Owned, Leaves
<1>2. CASE c = b
  BY <1>1, <1>2, LeaveShape DEF OwnedOnce
<1>3. CASE c # b
  BY <1>1, <1>3, LeaveShape DEF OwnedOnce
<1> QED
  BY <1>2, <1>3

LEMMA StayOwned ==
  ASSUME Owned, Stays
  PROVE  Owned'
BY DEF Owned, OwnedOnce, Stays

\* The marks after a move.
LEMMA MoveMarked ==
  ASSUME Owned, Marked, NEW b \in Buffer, NEW x \in Stage, NEW y \in Stage,
         Moves(b, x, y),
         \A c \in Buffer : c # b => timestamp'[c] = timestamp[c],
         y \in {"shard", "out"} => timestamp'[b] = "recv",
         y \in {"sq_send", "k_send", "k_notif", "cq_send"} => timestamp'[b] = "sent"
  PROVE  Marked'
<1> SUFFICES ASSUME NEW c \in Buffer
             PROVE  /\ In("shard", c)' \/ In("out", c)' => timestamp'[c] = "recv"
                    /\ \A z \in {"sq_send", "k_send", "k_notif", "cq_send"} :
                         In(z, c)' => timestamp'[c] = "sent"
  BY DEF Marked
<1>1. CASE c = b
  BY <1>1, MoveShape DEF Stage
<1>2. CASE c # b
  BY <1>2, MoveShape DEF Stage, Marked
<1> QED
  BY <1>1, <1>2

LEMMA LeaveMarked ==
  ASSUME Owned, Marked, NEW b \in Buffer, NEW x \in Stage, Leaves(b, x),
         \A c \in Buffer : c # b => timestamp'[c] = timestamp[c]
  PROVE  Marked'
<1> SUFFICES ASSUME NEW c \in Buffer
             PROVE  /\ In("shard", c)' \/ In("out", c)' => timestamp'[c] = "recv"
                    /\ \A z \in {"sq_send", "k_send", "k_notif", "cq_send"} :
                         In(z, c)' => timestamp'[c] = "sent"
  BY DEF Marked
<1>1. CASE c = b
  BY <1>1, LeaveShape DEF Stage
<1>2. CASE c # b
  BY <1>2, LeaveShape DEF Stage, Marked
<1> QED
  BY <1>1, <1>2

LEMMA StayMarked ==
  ASSUME Marked, Stays, timestamp' = timestamp
  PROVE  Marked'
BY DEF Marked, Stays, Stage

(***************************************************************************)
(* The submission queue.                                                   *)
(***************************************************************************)

\* push() appends the entry, or refuses it.
LEMMA PushAdds ==
  ASSUME IInv, NEW b \in Buffer, NEW op \in {"recv", "send"},
         ~In("sq_recv", b), ~In("sq_send", b), Push(op, b)
  PROVE  /\ sq' \in Seq(Sqe) /\ cached' \in Len(sq')..SqCap
         /\ Len(sq') \in Nat /\ Len(sq') >= Len(sq)
         /\ \A p \in {"recv", "send"}, c \in Buffer : One(sq', SqEntry(p, c))
         /\ \/ /\ cached < SqCap /\ lost' = lost
               /\ \A p \in {"recv", "send"}, c \in Buffer : Has(sq', SqEntry(p, c)) <=>
                     Has(sq, SqEntry(p, c)) \/ (p = op /\ c = b)
            \/ /\ lost' = [lost EXCEPT ![b] = "sq_full"]
               /\ \A p, c : Has(sq', SqEntry(p, c)) <=> Has(sq, SqEntry(p, c))
<1>1. sq \in Seq(Sqe) /\ cached \in Len(sq)..SqCap /\ Len(sq) \in Nat
  BY Elements DEF IInv, TypeOK
<1>2. \A p \in {"recv", "send"}, c \in Buffer : One(sq, SqEntry(p, c))
  BY DEF IInv, Single, SingleRing
<1>3. CASE ~(cached < SqCap)
  <2>1. sq' = sq /\ cached' = cached /\ lost' = [lost EXCEPT ![b] = "sq_full"]
    BY <1>3 DEF Push
  <2> QED
    BY <1>1, <1>2, <2>1
<1>4. CASE cached < SqCap
  <2> DEFINE e == [op |-> op, idx |-> b]
  <2>1. e \in Sqe /\ \A p, c : e \in SqEntry(p, c) <=> op = p /\ b = c
    BY Entries
  <2>2. sq' = Append(sq, e) /\ cached' = cached + 1 /\ lost' = lost
    BY <1>4 DEF Push
  <2> HIDE DEF e
  <2>3. /\ sq' \in Seq(Sqe) /\ Len(sq') = Len(sq) + 1
        /\ \A T : Has(sq', T) <=> Has(sq, T) \/ e \in T
        /\ \A T : One(sq, T) /\ ~(Has(sq, T) /\ e \in T) => One(sq', T)
    BY <1>1, <2>1, <2>2, HasAppend
  <2>4. cached' \in Len(sq')..SqCap /\ Len(sq') \in Nat /\ Len(sq') >= Len(sq)
    BY <1>1, <1>4, <2>2, <2>3, Sizes
  <2>5. ~Has(sq, SqEntry("recv", b)) /\ ~Has(sq, SqEntry("send", b))
    BY DEF In
  <2>6. \A p \in {"recv", "send"}, c \in Buffer :
           /\ Has(sq', SqEntry(p, c)) <=> Has(sq, SqEntry(p, c)) \/ (p = op /\ c = b)
           /\ One(sq', SqEntry(p, c))
    BY <1>2, <2>1, <2>3, <2>5
  <2> QED
    BY <1>4, <2>2, <2>3, <2>4, <2>6
<1> QED
  BY <1>3, <1>4

(***************************************************************************)
(* The shards' queues.                                                     *)
(***************************************************************************)
Message == Session \union Packet

\* A message joins the queue of shard s.
LEMMA QueueAppend ==
  ASSUME IInv, NEW s \in Shard, NEW m \in Message, Len(queue[s]) < QueueCap,
         queue' = [queue EXCEPT ![s] = Append(queue[s], m)]
  PROVE  /\ queue' \in [Shard -> Seq(Message)] /\ QueuesFit'
         /\ \A t \in Shard : \A T : Has(queue'[t], T) <=> Has(queue[t], T) \/ (t = s /\ m \in T)
         /\ \A t \in Shard : \A T :
               One(queue[t], T) /\ ~(t = s /\ Has(queue[s], T) /\ m \in T) =>
                  One(queue'[t], T)
<1>1. queue \in [Shard -> Seq(Message)]
  BY DEF IInv, TypeOK, Message
<1>2. /\ Append(queue[s], m) \in Seq(Message) /\ Len(Append(queue[s], m)) = Len(queue[s]) + 1
      /\ \A T : Has(Append(queue[s], m), T) <=> Has(queue[s], T) \/ m \in T
      /\ \A T : One(queue[s], T) /\ ~(Has(queue[s], T) /\ m \in T) =>
                 One(Append(queue[s], m), T)
  BY <1>1, HasAppend
<1> DEFINE q == Append(queue[s], m)
<1>3. \A t \in Shard : queue'[t] = IF t = s THEN q ELSE queue[t]
  BY <1>1
<1>4. queue' \in [Shard -> Seq(Message)]
  BY <1>1, <1>2
<1> HIDE DEF q
<1>5. QueuesFit'
  <2>1. Len(queue[s]) \in Nat
    BY <1>1, Elements
  <2>2. \A t \in Shard : Len(queue[t]) <= QueueCap
    BY DEF IInv, QueuesFit
  <2>3. Len(q) <= QueueCap
    BY <1>2, <2>1, Sizes DEF q
  <2> QED
    BY <1>3, <2>2, <2>3 DEF QueuesFit
<1> QED
  BY <1>2, <1>3, <1>4, <1>5 DEF q

\* Shard s takes the message at the head of its queue.
LEMMA QueueTail ==
  ASSUME IInv, NEW s \in Shard, queue[s] # <<>>,
         queue' = [queue EXCEPT ![s] = Tail(queue[s])]
  PROVE  /\ queue' \in [Shard -> Seq(Message)] /\ QueuesFit'
         /\ Head(queue[s]) \in Message
         /\ Head(queue[s]) = queue[s][1] /\ 1 \in DOMAIN queue[s]
         /\ \A t \in Shard : \A T : Has(queue[t], T) <=>
               Has(queue'[t], T) \/ (t = s /\ Head(queue[s]) \in T)
         /\ \A t \in Shard : \A T : One(queue[t], T) => One(queue'[t], T)
         /\ \A T : One(queue[s], T) => ~(Has(queue'[s], T) /\ Head(queue[s]) \in T)
         /\ \A t \in Shard : \A i : i \in DOMAIN queue'[t] =>
               \E j \in DOMAIN queue[t] : queue'[t][i] = queue[t][j]
<1>1. queue \in [Shard -> Seq(Message)]
  BY DEF IInv, TypeOK, Message
<1> DEFINE q == Tail(queue[s])
           h == Head(queue[s])
<1>2. /\ q \in Seq(Message) /\ Len(q) = Len(queue[s]) - 1 /\ h \in Message /\ h = queue[s][1] /\ 1 \in DOMAIN queue[s]
      /\ \A T : Has(queue[s], T) <=> Has(q, T) \/ h \in T
      /\ \A T : One(queue[s], T) => One(q, T) /\ ~(Has(q, T) /\ h \in T)
      /\ \A i \in DOMAIN q : i + 1 \in DOMAIN queue[s] /\ q[i] = queue[s][i + 1]
  BY <1>1, HasTail
<1>3. \A t \in Shard : queue'[t] = IF t = s THEN q ELSE queue[t]
  BY <1>1
<1>4. queue' \in [Shard -> Seq(Message)]
  BY <1>1, <1>2
<1> HIDE DEF q, h
<1>5. ASSUME NEW t \in Shard, NEW i \in DOMAIN queue'[t]
      PROVE  \E j \in DOMAIN queue[t] : queue'[t][i] = queue[t][j]
  <2>1. CASE t = s
    <3>1. queue'[t] = q
      BY <1>3, <2>1
    <3>2. i + 1 \in DOMAIN queue[s] /\ q[i] = queue[s][i + 1]
      BY <1>2, <3>1
    <3> QED
      BY <2>1, <3>1, <3>2
  <2>2. CASE t # s
    BY <1>3, <2>2
  <2> QED
    BY <2>1, <2>2
<1>6. QueuesFit'
  <2>1. Len(queue[s]) \in Nat
    BY <1>1, Elements
  <2>2. \A t \in Shard : Len(queue[t]) <= QueueCap
    BY DEF IInv, QueuesFit
  <2>3. Len(q) <= QueueCap
    BY <1>2, <2>1, <2>2, Sizes
  <2> QED
    BY <1>3, <2>2, <2>3 DEF QueuesFit
<1> QED
  BY <1>2, <1>3, <1>4, <1>5, <1>6 DEF q, h

\* A packet is queued for a shard.
LEMMA PacketJoins ==
  ASSUME IInv, NEW s \in Shard, NEW m \in Packet, ~In("shard", m.buf_idx),
         Len(queue[s]) < QueueCap, queue' = [queue EXCEPT ![s] = Append(queue[s], m)]
  PROVE  /\ \A c \in Buffer : Queued(c)' <=> Queued(c) \/ c = m.buf_idx
         /\ SingleShard'
<1>1. m \in Message /\ m.buf_idx \in Buffer /\ \A c : m \in ShardEntry(c) <=> m.buf_idx = c
  BY Entries DEF Message
<1>2. /\ \A t \in Shard : \A T : Has(queue'[t], T) <=> Has(queue[t], T) \/ (t = s /\ m \in T)
      /\ \A t \in Shard : \A T :
            One(queue[t], T) /\ ~(t = s /\ Has(queue[s], T) /\ m \in T) =>
               One(queue'[t], T)
  BY <1>1, QueueAppend
<1>3. \A t \in Shard : ~Has(queue[t], ShardEntry(m.buf_idx))
  BY DEF In, Queued
<1>4. \A t \in Shard, c \in Buffer :
         Has(queue'[t], ShardEntry(c)) <=> Has(queue[t], ShardEntry(c)) \/ (t = s /\ c = m.buf_idx)
  BY <1>1, <1>2
<1>5. \A c \in Buffer : Queued(c)' <=> Queued(c) \/ c = m.buf_idx
  BY <1>4 DEF Queued
<1>6. \A t \in Shard, c \in Buffer : One(queue'[t], ShardEntry(c))
  BY <1>1, <1>2, <1>3 DEF IInv, Single, SingleShard
<1>7. ASSUME NEW c \in Buffer, NEW t \in Shard, NEW u \in Shard,
             Has(queue'[t], ShardEntry(c)), Has(queue'[u], ShardEntry(c))
      PROVE  t = u
  BY <1>3, <1>4, <1>7 DEF IInv, Single, SingleShard
<1> QED
  BY <1>5, <1>6, <1>7 DEF SingleShard

\* A session is queued, or the queue is full: no buffer moves.
LEMMA SessionJoins ==
  ASSUME IInv, NEW s \in Shard, NEW r \in Session, queue' = Enqueue(s, r)
  PROVE  /\ queue' \in [Shard -> Seq(Message)] /\ QueuesFit'
         /\ \A c \in Buffer : Queued(c)' <=> Queued(c)
         /\ SingleShard'
<1>1. queue \in [Shard -> Seq(Message)] /\ SingleShard /\ QueuesFit
  BY DEF IInv, TypeOK, Message, Single
<1>2. CASE Len(queue[s]) < QueueCap
  <2>1. queue' = [queue EXCEPT ![s] = Append(queue[s], r)]
    BY <1>1, <1>2 DEF Enqueue
  <2>2. r \in Message /\ \A c : r \notin ShardEntry(c)
    BY Entries DEF Message
  <2>3. /\ queue' \in [Shard -> Seq(Message)] /\ QueuesFit'
        /\ \A t \in Shard : \A T : Has(queue'[t], T) <=> Has(queue[t], T) \/ (t = s /\ r \in T)
        /\ \A t \in Shard : \A T :
              One(queue[t], T) /\ ~(t = s /\ Has(queue[s], T) /\ r \in T) =>
                 One(queue'[t], T)
    BY <1>2, <2>1, <2>2, QueueAppend
  <2>4. \A t \in Shard, c \in Buffer :
           /\ Has(queue'[t], ShardEntry(c)) <=> Has(queue[t], ShardEntry(c))
           /\ One(queue[t], ShardEntry(c)) => One(queue'[t], ShardEntry(c))
    BY <2>2, <2>3
  <2> QED
    BY <1>1, <2>3, <2>4 DEF Queued, SingleShard
<1>3. CASE ~(Len(queue[s]) < QueueCap)
  <2>1. queue' = queue
    BY <1>1, <1>3 DEF Enqueue
  <2> QED
    BY <1>1, <2>1 DEF Queued, SingleShard, QueuesFit
<1> QED
  BY <1>2, <1>3

\* Shard s takes a packet.
LEMMA PacketTaken ==
  ASSUME IInv, NEW s \in Shard, queue[s] # <<>>, Head(queue[s]) \in Packet,
         queue' = [queue EXCEPT ![s] = Tail(queue[s])]
  PROVE  LET b == Head(queue[s]).buf_idx
         IN  /\ b \in Buffer /\ In("shard", b)
             /\ \A c \in Buffer : Queued(c)' <=> Queued(c) /\ c # b
             /\ SingleShard'
<1> DEFINE h == Head(queue[s])
           b == h.buf_idx
<1>1. b \in Buffer /\ \A c : h \in ShardEntry(c) <=> b = c
  BY Entries
<1>2. /\ \A t \in Shard : \A T : Has(queue[t], T) <=> Has(queue'[t], T) \/ (t = s /\ h \in T)
      /\ \A t \in Shard : \A T : One(queue[t], T) => One(queue'[t], T)
      /\ \A T : One(queue[s], T) => ~(Has(queue'[s], T) /\ h \in T)
  BY QueueTail
<1> HIDE DEF h, b
<1>3. SingleShard
  BY DEF IInv, Single
<1>4. Has(queue[s], ShardEntry(b)) /\ ~Has(queue'[s], ShardEntry(b))
  BY <1>1, <1>2, <1>3 DEF SingleShard
<1>5. \A t \in Shard : Has(queue[t], ShardEntry(b)) => t = s
  BY <1>1, <1>3, <1>4 DEF SingleShard
<1>6. \A t \in Shard, c \in Buffer :
         Has(queue'[t], ShardEntry(c)) <=> Has(queue[t], ShardEntry(c)) /\ c # b
  BY <1>1, <1>2, <1>4, <1>5
<1>7. \A c \in Buffer : Queued(c)' <=> Queued(c) /\ c # b
  BY <1>6 DEF Queued
<1>8. SingleShard'
  BY <1>2, <1>3, <1>6 DEF SingleShard
<1>9. In("shard", b)
  BY <1>4 DEF In, Queued
<1> QED
  BY <1>1, <1>7, <1>8, <1>9 DEF h, b

\* Shard s takes a session: no buffer moves.
LEMMA SessionTaken ==
  ASSUME IInv, NEW s \in Shard, queue[s] # <<>>, Head(queue[s]) \in Session,
         queue' = [queue EXCEPT ![s] = Tail(queue[s])]
  PROVE  /\ \A c \in Buffer : Queued(c)' <=> Queued(c)
         /\ SingleShard'
<1>1. /\ \A t \in Shard : \A T : Has(queue[t], T) <=>
            Has(queue'[t], T) \/ (t = s /\ Head(queue[s]) \in T)
      /\ \A t \in Shard : \A T : One(queue[t], T) => One(queue'[t], T)
  BY QueueTail
<1>2. \A c : Head(queue[s]) \notin ShardEntry(c)
  BY Entries
<1>3. \A t \in Shard : \A c : Has(queue'[t], ShardEntry(c)) <=> Has(queue[t], ShardEntry(c))
  BY <1>1, <1>2
<1>4. SingleShard
  BY DEF IInv, Single
<1> QED
  BY <1>1, <1>3, <1>4 DEF Queued, SingleShard

(***************************************************************************)
(* The completion queue and the kernel.                                    *)
(***************************************************************************)
KernelElem == [op : {"recv", "send", "notif"}, idx : Buffer, dst : Addr]

\* The loop takes the completion at the head.
LEMMA CqTaken ==
  ASSUME IInv, pc = "cq", NextCqe
  PROVE  /\ Head(cq) \in Cqe /\ Head(cq) = cq[1] /\ 1 \in DOMAIN cq
         /\ cq' \in Seq(Cqe) /\ ready > 0 /\ ready' = ready - 1 /\ ready' \in 0..Len(cq')
         /\ Head(cq).more => Op(Head(cq)) = "send"
         /\ \A p \in {"recv", "send"}, c \in Buffer :
               Head(cq) \in CqEntry(p, c) => Has(cq, CqEntry(p, c))
         /\ \A p \in {"recv", "send"}, c \in Buffer :
               /\ Has(cq', CqEntry(p, c)) <=>
                     /\ Has(cq, CqEntry(p, c))
                     /\ ~(Op(Head(cq)) = p /\ Idx(Head(cq)) = c /\ ~Head(cq).more)
               /\ One(cq', CqEntry(p, c))
         /\ \A i \in DOMAIN cq' :
               cq'[i].more => \E b \in Buffer : cq'[i].user_data = EncodeToken("send", b)
         /\ \A i \in DOMAIN cq' : \E j \in DOMAIN cq : cq'[i] = cq[j]
<1>1. /\ cq \in Seq(Cqe) /\ ready \in 0..Len(cq) /\ ready > 0
      /\ cq' = Tail(cq) /\ ready' = ready - 1
  BY DEF IInv, TypeOK, LoopReady, NextCqe
<1>2. Len(cq) \in Nat /\ DOMAIN cq = 1..Len(cq)
  BY <1>1, Elements
<1>3. cq # <<>>
  BY <1>1, <1>2
<1> DEFINE h == Head(cq)
<1>4. /\ cq' \in Seq(Cqe) /\ Len(cq') = Len(cq) - 1 /\ h \in Cqe /\ h = cq[1] /\ 1 \in DOMAIN cq
      /\ \A T : Has(cq, T) <=> Has(cq', T) \/ h \in T
      /\ \A T : One(cq, T) => One(cq', T) /\ ~(Has(cq', T) /\ h \in T)
      /\ \A i \in DOMAIN cq' : i + 1 \in DOMAIN cq /\ cq'[i] = cq[i + 1]
  BY <1>1, <1>3, HasTail
<1> HIDE DEF h
<1>5. ready' \in 0..Len(cq')
  BY <1>1, <1>2, <1>4
<1>6. h.more => Op(h) = "send"
  <2> SUFFICES ASSUME h.more PROVE Op(h) = "send"
    OBVIOUS
  <2>1. PICK c \in Buffer : h.user_data = EncodeToken("send", c)
    BY <1>4 DEF IInv, LoopReady
  <2> QED
    BY <1>4, <2>1, TokenUnique DEF Op
<1>7. \A p \in {"recv", "send"}, c \in Buffer : One(cq, CqEntry(p, c))
  BY DEF IInv, Single, SingleRing
<1>8. \A p \in {"recv", "send"}, c \in Buffer :
         h \in CqEntry(p, c) <=> Op(h) = p /\ Idx(h) = c /\ ~h.more
  BY <1>4, Completion
<1>9. \A p \in {"recv", "send"}, c \in Buffer :
         /\ h \in CqEntry(p, c) => Has(cq, CqEntry(p, c))
         /\ Has(cq', CqEntry(p, c)) <=>
               Has(cq, CqEntry(p, c)) /\ ~(Op(h) = p /\ Idx(h) = c /\ ~h.more)
         /\ One(cq', CqEntry(p, c))
  BY <1>4, <1>7, <1>8
<1>10. \A i \in DOMAIN cq' :
          cq'[i].more => \E b \in Buffer : cq'[i].user_data = EncodeToken("send", b)
  <2> TAKE i \in DOMAIN cq'
  <2>1. i + 1 \in DOMAIN cq /\ cq'[i] = cq[i + 1]
    BY <1>4
  <2> QED
    BY <2>1 DEF IInv, LoopReady
<1>11. \A i \in DOMAIN cq' : \E j \in DOMAIN cq : cq'[i] = cq[j]
  BY <1>4
<1> QED
  BY <1>1, <1>4, <1>5, <1>6, <1>9, <1>10, <1>11 DEF h

\* A completion is entered.
LEMMA CompleteAdds ==
  ASSUME IInv, NEW op \in {"recv", "send"}, NEW b \in Buffer, NEW n \in 0..BufSize,
         NEW more \in BOOLEAN, more => op = "send",
         ~In("cq_recv", b), ~In("cq_send", b), Complete(op, b, n, more)
  PROVE  /\ cq' \in Seq(Cqe) /\ ready \in 0..Len(cq')
         /\ \A p \in {"recv", "send"}, c \in Buffer :
               /\ Has(cq', CqEntry(p, c)) <=>
                     Has(cq, CqEntry(p, c)) \/ (p = op /\ c = b /\ ~more)
               /\ One(cq', CqEntry(p, c))
         /\ \A i \in DOMAIN cq' :
               cq'[i].more => \E c \in Buffer : cq'[i].user_data = EncodeToken("send", c)
<1> DEFINE x == [user_data |-> EncodeToken(op, b), len |-> n, more |-> more]
<1>1. x \in Cqe
  BY DEF Cqe
<1>2. x.user_data = EncodeToken(op, b) /\ x.more = more /\ cq' = Append(cq, x)
  BY DEF Complete
<1> HIDE DEF x
<1>3. cq \in Seq(Cqe) /\ ready \in 0..Len(cq)
  BY DEF IInv, TypeOK
<1>4. Len(cq) \in Nat /\ DOMAIN cq = 1..Len(cq)
  BY <1>3, Elements
<1>5. /\ cq' \in Seq(Cqe) /\ Len(cq') = Len(cq) + 1
      /\ \A T : Has(cq', T) <=> Has(cq, T) \/ x \in T
      /\ \A T : One(cq, T) /\ ~(Has(cq, T) /\ x \in T) => One(cq', T)
  BY <1>1, <1>2, <1>3, HasAppend
<1>6. ready \in 0..Len(cq')
  BY <1>3, <1>4, <1>5
<1>7. \A p \in {"recv", "send"}, c \in Buffer :
         x \in CqEntry(p, c) <=> p = op /\ c = b /\ ~more
  <2>1. Op(x) = op /\ Idx(x) = b
    BY <1>2, TokenUnique DEF Op, Idx
  <2> QED
    BY <1>1, <1>2, <2>1, Completion
<1>8. \A p \in {"recv", "send"}, c \in Buffer : One(cq, CqEntry(p, c))
  BY DEF IInv, Single, SingleRing
<1>9. ~Has(cq, CqEntry("recv", b)) /\ ~Has(cq, CqEntry("send", b))
  BY DEF In
<1>10. \A p \in {"recv", "send"}, c \in Buffer :
          /\ Has(cq', CqEntry(p, c)) <=> Has(cq, CqEntry(p, c)) \/ (p = op /\ c = b /\ ~more)
          /\ One(cq', CqEntry(p, c))
  BY <1>5, <1>7, <1>8, <1>9
<1>11. \A i \in DOMAIN cq' :
          cq'[i].more => \E c \in Buffer : cq'[i].user_data = EncodeToken("send", c)
  <2> SUFFICES ASSUME NEW i \in DOMAIN cq', cq'[i].more
               PROVE  \E c \in Buffer : cq'[i].user_data = EncodeToken("send", c)
    OBVIOUS
  <2>1. (i \in DOMAIN cq /\ cq'[i] = cq[i]) \/ cq'[i] = x
    BY <1>1, <1>2, <1>3, <1>4
  <2>2. CASE i \in DOMAIN cq /\ cq'[i] = cq[i]
    BY <2>2 DEF IInv, LoopReady
  <2>3. CASE cq'[i] = x
    BY <1>2, <2>3
  <2> QED
    BY <2>1, <2>2, <2>3
<1> QED
  BY <1>5, <1>6, <1>10, <1>11

\* The operations the kernel works on when one has ended.
LEMMA RunsWithout ==
  ASSUME IInv, NEW e \in inflight, inflight' = inflight \ {e}
  PROVE  /\ \A p, c : Runs(p, c)' <=> Runs(p, c) /\ ~(p = e.op /\ c = e.idx)
         /\ \A f, g \in inflight' : f.idx = g.idx => f = g
<1>1. \A f, g \in inflight : f.idx = g.idx => f = g
  BY DEF IInv, Single, SingleRing
<1> QED
  BY <1>1 DEF Runs

(***************************************************************************)
(* Every action keeps the invariant: the loop.                             *)
(***************************************************************************)

\* A message is taken from the out channel.
LEMMA OutTaken ==
  ASSUME IInv, out # <<>>, out' = Tail(out)
  PROVE  LET b == Head(out).idx
         IN  /\ out' \in Seq(OutElem) /\ Head(out) \in OutElem
             /\ Head(out) = out[1] /\ 1 \in DOMAIN out
             /\ b \in Buffer /\ In("out", b)
             /\ \A c \in Buffer : Has(out', OutEntry(c)) <=> Has(out, OutEntry(c)) /\ c # b
             /\ SingleOut'
             /\ \A i \in DOMAIN out' : \E j \in DOMAIN out : out'[i] = out[j]
<1> DEFINE h == Head(out)
           b == h.idx
<1>1. out \in Seq(OutElem)
  BY DEF IInv, TypeOK, OutElem
<1>2. /\ out' \in Seq(OutElem) /\ h \in OutElem /\ h = out[1] /\ 1 \in DOMAIN out
      /\ \A T : Has(out, T) <=> Has(out', T) \/ h \in T
      /\ \A T : One(out, T) => One(out', T) /\ ~(Has(out', T) /\ h \in T)
      /\ \A i \in DOMAIN out' : i + 1 \in DOMAIN out /\ out'[i] = out[i + 1]
  BY <1>1, HasTail
<1>3. b \in Buffer /\ \A c : h \in OutEntry(c) <=> b = c
  BY <1>2, Entries
<1> HIDE DEF h, b
<1>4. \A c \in Buffer : One(out, OutEntry(c))
  BY DEF IInv, Single, SingleOut
<1>5. \A c \in Buffer : /\ Has(out', OutEntry(c)) <=> Has(out, OutEntry(c)) /\ c # b
                        /\ One(out', OutEntry(c))
  BY <1>2, <1>3, <1>4
<1>6. In("out", b)
  BY <1>2, <1>3 DEF In
<1>7. SingleOut'
  BY <1>5 DEF SingleOut
<1>8. \A i \in DOMAIN out' : \E j \in DOMAIN out : out'[i] = out[j]
  BY <1>2
<1> QED
  BY <1>2, <1>3, <1>5, <1>6, <1>7, <1>8 DEF h, b

\* The buffer goes to the submission queue, or is lost when that is full.
LEMMA SendMsgMoves ==
  ASSUME IInv, SendMsg
  PROVE  LET b == Head(out).idx
         IN  /\ b \in Buffer /\ Head(out).dst \in Addr /\ In("out", b)
             /\ Moves(b, "out", "sq_send") \/ Leaves(b, "out")
             /\ sq' \in Seq(Sqe) /\ cached' \in Len(sq')..SqCap
             /\ Len(sq') \in Nat /\ Len(sq') >= Len(sq)
             /\ lost' \in [Buffer -> Lost]
             /\ Single'
<1> DEFINE b == Head(out).idx
<1>1. /\ out # <<>> /\ out' = Tail(out) /\ Push("send", b)
      /\ UNCHANGED <<queue, inflight, cq>>
  BY DEF SendMsg, PostSend
<1>2. /\ b \in Buffer /\ Head(out).dst \in Addr /\ In("out", b) /\ SingleOut'
      /\ \A c \in Buffer : Has(out', OutEntry(c)) <=> Has(out, OutEntry(c)) /\ c # b
  BY <1>1, OutTaken, Entries
<1> HIDE DEF b
<1>3. ~In("sq_recv", b) /\ ~In("sq_send", b)
  BY <1>2, Elsewhere DEF IInv, Stage
<1>4. /\ sq' \in Seq(Sqe) /\ cached' \in Len(sq')..SqCap
      /\ Len(sq') \in Nat /\ Len(sq') >= Len(sq)
      /\ \A p \in {"recv", "send"}, c \in Buffer : One(sq', SqEntry(p, c))
      /\ \/ /\ cached < SqCap /\ lost' = lost
            /\ \A p \in {"recv", "send"}, c \in Buffer : Has(sq', SqEntry(p, c)) <=>
                  Has(sq, SqEntry(p, c)) \/ (p = "send" /\ c = b)
         \/ /\ lost' = [lost EXCEPT ![b] = "sq_full"]
            /\ \A p, c : Has(sq', SqEntry(p, c)) <=> Has(sq, SqEntry(p, c))
  BY <1>1, <1>2, <1>3, PushAdds
<1>5. lost \in [Buffer -> Lost] /\ "sq_full" \in Lost
  BY DEF IInv, TypeOK, Lost
<1>6. ASSUME lost' = lost,
             \A p \in {"recv", "send"}, c \in Buffer : Has(sq', SqEntry(p, c)) <=>
                Has(sq, SqEntry(p, c)) \/ (p = "send" /\ c = b)
      PROVE  Moves(b, "out", "sq_send")
  <2> SUFFICES ASSUME NEW x \in Stage, NEW c \in Buffer
               PROVE  In(x, c)' <=> (In(x, c) /\ ~(x = "out" /\ c = b))
                                      \/ (x = "sq_send" /\ c = b)
    BY <1>2, <1>6 DEF Moves
  <2> QED
    BY <1>1, <1>2, <1>6 DEF In, Stage, Runs, Queued
<1>7. ASSUME lost' = [lost EXCEPT ![b] = "sq_full"],
             \A p, c : Has(sq', SqEntry(p, c)) <=> Has(sq, SqEntry(p, c))
      PROVE  Leaves(b, "out")
  <2>1. lost'[b] # "no" /\ \A c \in Buffer : c # b => lost'[c] = lost[c]
    BY <1>2, <1>5, <1>7
  <2> SUFFICES ASSUME NEW x \in Stage, NEW c \in Buffer
               PROVE  In(x, c)' <=> (In(x, c) /\ ~(x = "out" /\ c = b))
    BY <1>2, <2>1 DEF Leaves
  <2> QED
    BY <1>1, <1>2, <1>7 DEF In, Stage, Runs, Queued
<1>8. lost' \in [Buffer -> Lost]
  BY <1>2, <1>4, <1>5
<1>9. Single'
  BY <1>1, <1>2, <1>4 DEF IInv, Single, SingleRing, SingleShard
<1> QED
  BY <1>2, <1>4, <1>6, <1>7, <1>8, <1>9 DEF b

LEMMA SendMsgKeeps ==
  ASSUME IInv, SendMsg
  PROVE  IInv'
<1> DEFINE b == Head(out).idx
<1>1. /\ b \in Buffer /\ Head(out).dst \in Addr /\ In("out", b)
      /\ Moves(b, "out", "sq_send") \/ Leaves(b, "out")
      /\ sq' \in Seq(Sqe) /\ cached' \in Len(sq')..SqCap
      /\ Len(sq') \in Nat /\ Len(sq') >= Len(sq)
      /\ lost' \in [Buffer -> Lost] /\ Single'
  BY SendMsgMoves
<1>2. out' \in Seq(OutElem)
  BY OutTaken DEF SendMsg
<1>3. timestamp[b] = "recv"
  BY <1>1 DEF IInv, Marked
<1>4. /\ timestamp' = [timestamp EXCEPT ![b] = "sent"]
      /\ slot' = [slot EXCEPT ![b] = Head(out).dst] /\ pushed' = TRUE
      /\ UNCHANGED <<requests, taken, endpoint_to_shard, next_shard, queue, table,
                     visible, awake, inflight, cq, ready, memory, pc, wire>>
  <2>1. timestamp \in [Buffer -> {"none", "recv", "sent"}]
    BY DEF IInv, TypeOK
  <2>2. MarkSend(b) = [timestamp EXCEPT ![b] = "sent"]
    BY <1>1, <1>3, <2>1 DEF MarkSend
  <2> QED
    BY <2>2 DEF SendMsg, PostSend, routerVars
<1> HIDE DEF b
<1>5. timestamp' \in [Buffer -> {"none", "recv", "sent"}] /\ slot' \in [Buffer -> Addr]
  BY <1>1, <1>4 DEF IInv, TypeOK
<1>6. visible' \in 0..Len(sq')
  <2>1. visible \in 0..Len(sq) /\ sq \in Seq(Sqe)
    BY DEF IInv, TypeOK
  <2> QED
    BY <1>1, <1>4, <2>1
<1>7. TypeOK'
  BY <1>1, <1>2, <1>4, <1>5, <1>6 DEF IInv, TypeOK, OutElem
<1>8. timestamp'[b] = "sent" /\ \A c \in Buffer : c # b => timestamp'[c] = timestamp[c]
  BY <1>1, <1>4 DEF IInv, TypeOK
<1>9. Owned' /\ Marked'
  BY <1>1, <1>8, MoveOwned, LeaveOwned, MoveMarked, LeaveMarked DEF IInv, Stage
<1>10. LoopReady'
  BY <1>4 DEF IInv, LoopReady
<1> QED
  BY <1>1, <1>4, <1>7, <1>9, <1>10 DEF IInv, QueuesFit

\* The loop hands a received packet to a shard, or loses the buffer with it.
RecvPacket == [buf_idx |-> Idx(Head(cq)), len |-> Head(cq).len, src |-> slot[Idx(Head(cq))]]

LEMMA HandleRecvMoves ==
  ASSUME IInv, HandleRecv
  PROVE  LET b == Idx(Head(cq))
             s == endpoint_to_shard[slot[b]]
         IN  /\ b \in Buffer /\ In("cq_recv", b) /\ RecvPacket \in Packet
             /\ \/ /\ Moves(b, "cq_recv", "shard") /\ s \in Shard
                   /\ Len(queue[s]) < QueueCap
                   /\ queue' = [queue EXCEPT ![s] = Append(queue[s], RecvPacket)]
                \/ Leaves(b, "cq_recv") /\ queue' = queue
             /\ lost' \in [Buffer -> Lost]
             /\ queue' \in [Shard -> Seq(Message)] /\ QueuesFit' /\ Single'
<1> DEFINE b == Idx(Head(cq))
           m == RecvPacket
           s == endpoint_to_shard[slot[b]]
<1>1. /\ pc = "cq" /\ Op(Head(cq)) = "recv" /\ NextCqe /\ Route(m)
      /\ UNCHANGED <<out, sq, inflight, slot>>
  BY DEF HandleRecv, RecvPacket
<1>2. /\ Head(cq) \in Cqe /\ (Head(cq).more => Op(Head(cq)) = "send")
      /\ \A p \in {"recv", "send"}, c \in Buffer :
            Head(cq) \in CqEntry(p, c) => Has(cq, CqEntry(p, c))
      /\ \A p \in {"recv", "send"}, c \in Buffer :
            /\ Has(cq', CqEntry(p, c)) <=>
                  /\ Has(cq, CqEntry(p, c))
                  /\ ~(Op(Head(cq)) = p /\ Idx(Head(cq)) = c /\ ~Head(cq).more)
            /\ One(cq', CqEntry(p, c))
  BY <1>1, CqTaken
<1>3. b \in Buffer /\ Head(cq).len \in 0..BufSize /\ ~Head(cq).more
  BY <1>1, <1>2, Completion
<1>4. In("cq_recv", b)
  <2>1. Head(cq) \in CqEntry("recv", b)
    BY <1>1, <1>2, <1>3, Completion
  <2> QED
    BY <1>2, <1>3, <2>1 DEF In
<1>5. \A p \in {"recv", "send"}, c \in Buffer :
         /\ Has(cq', CqEntry(p, c)) <=> Has(cq, CqEntry(p, c)) /\ ~(p = "recv" /\ c = b)
         /\ One(cq', CqEntry(p, c))
  BY <1>1, <1>2, <1>3
<1>6. m \in Packet /\ m.buf_idx = b /\ m.src = slot[b]
  <2>1. slot[b] \in Addr
    BY <1>3 DEF IInv, TypeOK
  <2> QED
    BY <1>3, <2>1 DEF RecvPacket, Packet
<1> HIDE DEF b, m
<1>7. s \in Shard \union {NoShard}
  BY <1>3 DEF IInv, TypeOK
<1> HIDE DEF s
<1>8. lost[b] = "no" /\ ~In("shard", b)
  BY <1>3, <1>4, Elsewhere DEF IInv, Stage
<1>9. lost \in [Buffer -> Lost] /\ {"no", "unknown_src", "queue_full"} \subseteq Lost
  BY DEF IInv, TypeOK, Lost
<1>10. queue \in [Shard -> Seq(Message)]
  BY DEF IInv, TypeOK, Message
<1>11. \/ /\ s \in Shard /\ Len(queue[s]) < QueueCap
          /\ queue' = [queue EXCEPT ![s] = Append(queue[s], m)]
          /\ lost' = [lost EXCEPT ![b] = "no"]
       \/ /\ queue' = queue
          /\ \/ lost' = [lost EXCEPT ![b] = "unknown_src"]
             \/ lost' = [lost EXCEPT ![b] = "queue_full"]
  <2>1. CASE s = NoShard
    BY <1>1, <1>6, <2>1 DEF Route, s
  <2>2. CASE s # NoShard /\ Len(queue[s]) = QueueCap
    <3>1. ~(Len(queue[s]) < QueueCap)
      BY <2>2, Sizes
    <3>2. Enqueue(s, m) = queue
      BY <1>10, <3>1 DEF Enqueue
    <3> QED
      BY <1>1, <1>6, <2>2, <3>2 DEF Route, s
  <2>3. CASE s # NoShard /\ Len(queue[s]) # QueueCap
    <3>1. s \in Shard /\ Len(queue[s]) \in Nat /\ Len(queue[s]) <= QueueCap
      BY <1>7, <1>10, <2>3 DEF IInv, QueuesFit
    <3>2. Len(queue[s]) < QueueCap
      BY <2>3, <3>1, Sizes
    <3>3. Enqueue(s, m) = [queue EXCEPT ![s] = Append(queue[s], m)]
      BY <1>10, <3>1, <3>2 DEF Enqueue
    <3> QED
      BY <1>1, <1>6, <2>3, <3>1, <3>2, <3>3 DEF Route, s
  <2> QED
    BY <2>1, <2>2, <2>3
<1>12. lost' \in [Buffer -> Lost]
  BY <1>3, <1>9, <1>11
<1>13. ASSUME s \in Shard, Len(queue[s]) < QueueCap, lost' = [lost EXCEPT ![b] = "no"],
              queue' = [queue EXCEPT ![s] = Append(queue[s], m)]
       PROVE  /\ Moves(b, "cq_recv", "shard") /\ SingleShard'
              /\ queue' \in [Shard -> Seq(Message)] /\ QueuesFit'
  <2>1. lost' = lost
    BY <1>8, <1>9, <1>13
  <2>2. SingleShard' /\ \A c \in Buffer : Queued(c)' <=> Queued(c) \/ c = b
    BY <1>6, <1>8, <1>13, PacketJoins
  <2>3. queue' \in [Shard -> Seq(Message)] /\ QueuesFit'
    BY <1>6, <1>13, QueueAppend DEF Message
  <2>4. ASSUME NEW x \in Stage, NEW c \in Buffer
        PROVE  In(x, c)' <=> (In(x, c) /\ ~(x = "cq_recv" /\ c = b))
                                \/ (x = "shard" /\ c = b)
    BY <1>1, <1>5, <2>2 DEF In, Stage, Runs
  <2> QED
    BY <1>4, <2>1, <2>2, <2>3, <2>4 DEF Moves
<1>14. ASSUME queue' = queue,
              \/ lost' = [lost EXCEPT ![b] = "unknown_src"]
              \/ lost' = [lost EXCEPT ![b] = "queue_full"]
       PROVE  /\ Leaves(b, "cq_recv") /\ SingleShard'
              /\ queue' \in [Shard -> Seq(Message)] /\ QueuesFit'
  <2>1. lost'[b] # "no" /\ \A c \in Buffer : c # b => lost'[c] = lost[c]
    BY <1>3, <1>9, <1>14
  <2>2. SingleShard' /\ QueuesFit'
    BY <1>14 DEF IInv, Single, SingleShard, QueuesFit
  <2>3. ASSUME NEW x \in Stage, NEW c \in Buffer
        PROVE  In(x, c)' <=> (In(x, c) /\ ~(x = "cq_recv" /\ c = b))
    BY <1>1, <1>5, <1>14 DEF In, Stage, Runs, Queued
  <2> QED
    BY <1>4, <1>10, <1>14, <2>1, <2>2, <2>3 DEF Leaves
<1>15. SingleShard' /\ queue' \in [Shard -> Seq(Message)] /\ QueuesFit'
  BY <1>11, <1>13, <1>14
<1>16. Single'
  BY <1>1, <1>5, <1>15 DEF IInv, Single, SingleRing, SingleOut
<1> QED
  BY <1>3, <1>4, <1>6, <1>11, <1>12, <1>13, <1>14, <1>15, <1>16 DEF b, m, s

\* The loop's phase after a completion.
LEMMA NextPhase ==
  ASSUME IInv, pc = "cq", NextCqe, pc' = IF ready = 1 THEN "control" ELSE "cq"
  PROVE  /\ LoopReady' /\ pc' \in {"control", "send", "sync", "cq", "panicked"}
         /\ cq' \in Seq(Cqe) /\ ready' \in 0..Len(cq')
<1>1. /\ cq' \in Seq(Cqe) /\ ready > 0 /\ ready' = ready - 1 /\ ready' \in 0..Len(cq')
      /\ \A i \in DOMAIN cq' :
            cq'[i].more => \E b \in Buffer : cq'[i].user_data = EncodeToken("send", b)
  BY CqTaken
<1>2. ready \in Nat
  <2>1. cq \in Seq(Cqe) /\ ready \in 0..Len(cq)
    BY DEF IInv, TypeOK
  <2> QED
    BY <2>1, Elements
<1>3. pc' = "cq" <=> ready' > 0
  BY <1>1, <1>2
<1> QED
  BY <1>1, <1>3 DEF LoopReady

LEMMA HandleRecvKeeps ==
  ASSUME IInv, HandleRecv
  PROVE  IInv'
<1> DEFINE b == Idx(Head(cq))
<1>1. /\ b \in Buffer
      /\ Moves(b, "cq_recv", "shard") \/ Leaves(b, "cq_recv")
      /\ lost' \in [Buffer -> Lost]
      /\ queue' \in [Shard -> Seq(Message)] /\ QueuesFit' /\ Single'
  BY HandleRecvMoves
<1>2. /\ LoopReady' /\ pc' \in {"control", "send", "sync", "cq", "panicked"}
      /\ cq' \in Seq(Cqe) /\ ready' \in 0..Len(cq')
  BY NextPhase DEF HandleRecv
<1>3. /\ timestamp' = [timestamp EXCEPT ![b] = "recv"]
      /\ UNCHANGED <<requests, taken, endpoint_to_shard, next_shard, table, out, sq,
                     visible, cached, awake, inflight, memory, slot, pushed, wire>>
  BY DEF HandleRecv, MarkRecv, routerVars
<1> HIDE DEF b
<1>4. timestamp' \in [Buffer -> {"none", "recv", "sent"}]
  BY <1>1, <1>3 DEF IInv, TypeOK
<1>5. TypeOK'
  BY <1>1, <1>2, <1>3, <1>4 DEF IInv, TypeOK, Message
<1>6. timestamp'[b] = "recv" /\ \A c \in Buffer : c # b => timestamp'[c] = timestamp[c]
  BY <1>1, <1>3 DEF IInv, TypeOK
<1>7. Owned' /\ Marked'
  BY <1>1, <1>6, MoveOwned, LeaveOwned, MoveMarked, LeaveMarked DEF IInv, Stage
<1> QED
  BY <1>1, <1>2, <1>5, <1>7 DEF IInv

\* The first completion of a send moves nothing.
LEMMA HandleSendMoreStays ==
  ASSUME IInv, HandleSendMore
  PROVE  Stays /\ Single'
<1>1. /\ pc = "cq" /\ NextCqe /\ Head(cq).more
      /\ UNCHANGED <<queue, out, sq, inflight, lost>>
  BY DEF HandleSendMore
<1>2. \A p \in {"recv", "send"}, c \in Buffer :
         /\ Has(cq', CqEntry(p, c)) <=> Has(cq, CqEntry(p, c))
         /\ One(cq', CqEntry(p, c))
  BY <1>1, CqTaken
<1>3. Stays
  BY <1>1, <1>2 DEF Stays, In, Stage, Runs, Queued
<1> QED
  BY <1>1, <1>2, <1>3 DEF IInv, Single, SingleRing, SingleShard, SingleOut

LEMMA HandleSendMoreKeeps ==
  ASSUME IInv, HandleSendMore
  PROVE  IInv'
<1>1. Stays /\ Single'
  BY HandleSendMoreStays
<1>2. /\ LoopReady' /\ pc' \in {"control", "send", "sync", "cq", "panicked"}
      /\ cq' \in Seq(Cqe) /\ ready' \in 0..Len(cq')
  BY NextPhase DEF HandleSendMore
<1>3. UNCHANGED <<requests, taken, endpoint_to_shard, next_shard, queue, table, out, sq,
                  visible, cached, awake, inflight, memory, slot, timestamp, pushed,
                  wire, lost>>
  BY DEF HandleSendMore, routerVars, poolVars
<1>4. TypeOK'
  BY <1>2, <1>3 DEF IInv, TypeOK
<1>5. Owned' /\ Marked' /\ QueuesFit'
  BY <1>1, <1>3, StayOwned, StayMarked DEF IInv, QueuesFit
<1> QED
  BY <1>1, <1>2, <1>4, <1>5 DEF IInv

\* The last completion of a send: the buffer goes back to the submission queue,
\* or is lost when that is full.  Its marks are all there.
LEMMA HandleSendLastMoves ==
  ASSUME IInv, HandleSendLast
  PROVE  LET b == Idx(Head(cq))
         IN  /\ b \in Buffer /\ In("cq_send", b) /\ timestamp[b] = "sent"
             /\ Moves(b, "cq_send", "sq_recv") \/ Leaves(b, "cq_send")
             /\ sq' \in Seq(Sqe) /\ cached' \in Len(sq')..SqCap
             /\ Len(sq') \in Nat /\ Len(sq') >= Len(sq)
             /\ lost' \in [Buffer -> Lost] /\ Single'
<1> DEFINE b == Idx(Head(cq))
<1>1. /\ pc = "cq" /\ Op(Head(cq)) = "send" /\ ~Head(cq).more /\ NextCqe /\ Push("recv", b)
      /\ UNCHANGED <<queue, out, inflight>>
  BY DEF HandleSendLast, PostRecv
<1>2. /\ Head(cq) \in Cqe
      /\ \A p \in {"recv", "send"}, c \in Buffer :
            Head(cq) \in CqEntry(p, c) => Has(cq, CqEntry(p, c))
      /\ \A p \in {"recv", "send"}, c \in Buffer :
            /\ Has(cq', CqEntry(p, c)) <=>
                  /\ Has(cq, CqEntry(p, c))
                  /\ ~(Op(Head(cq)) = p /\ Idx(Head(cq)) = c /\ ~Head(cq).more)
            /\ One(cq', CqEntry(p, c))
  BY <1>1, CqTaken
<1>3. b \in Buffer
  BY <1>2, Completion
<1>4. In("cq_send", b)
  <2>1. Head(cq) \in CqEntry("send", b)
    BY <1>1, <1>2, <1>3, Completion
  <2> QED
    BY <1>2, <1>3, <2>1 DEF In
<1>5. \A p \in {"recv", "send"}, c \in Buffer :
         /\ Has(cq', CqEntry(p, c)) <=> Has(cq, CqEntry(p, c)) /\ ~(p = "send" /\ c = b)
         /\ One(cq', CqEntry(p, c))
  BY <1>1, <1>2, <1>3
<1>6. timestamp[b] = "sent"
  BY <1>3, <1>4 DEF IInv, Marked
<1> HIDE DEF b
<1>7. ~In("sq_recv", b) /\ ~In("sq_send", b)
  BY <1>3, <1>4, Elsewhere DEF IInv, Stage
<1>8. /\ sq' \in Seq(Sqe) /\ cached' \in Len(sq')..SqCap
      /\ Len(sq') \in Nat /\ Len(sq') >= Len(sq)
      /\ \A p \in {"recv", "send"}, c \in Buffer : One(sq', SqEntry(p, c))
      /\ \/ /\ cached < SqCap /\ lost' = lost
            /\ \A p \in {"recv", "send"}, c \in Buffer : Has(sq', SqEntry(p, c)) <=>
                  Has(sq, SqEntry(p, c)) \/ (p = "recv" /\ c = b)
         \/ /\ lost' = [lost EXCEPT ![b] = "sq_full"]
            /\ \A p, c : Has(sq', SqEntry(p, c)) <=> Has(sq, SqEntry(p, c))
  BY <1>1, <1>3, <1>7, PushAdds
<1>9. lost \in [Buffer -> Lost] /\ "sq_full" \in Lost
  BY DEF IInv, TypeOK, Lost
<1>10. ASSUME lost' = lost,
              \A p \in {"recv", "send"}, c \in Buffer : Has(sq', SqEntry(p, c)) <=>
                 Has(sq, SqEntry(p, c)) \/ (p = "recv" /\ c = b)
       PROVE  Moves(b, "cq_send", "sq_recv")
  <2>1. ASSUME NEW x \in Stage, NEW c \in Buffer
        PROVE  In(x, c)' <=> (In(x, c) /\ ~(x = "cq_send" /\ c = b))
                               \/ (x = "sq_recv" /\ c = b)
    BY <1>1, <1>5, <1>10 DEF In, Stage, Runs, Queued
  <2> QED
    BY <1>4, <1>10, <2>1 DEF Moves
<1>11. ASSUME lost' = [lost EXCEPT ![b] = "sq_full"],
              \A p, c : Has(sq', SqEntry(p, c)) <=> Has(sq, SqEntry(p, c))
       PROVE  Leaves(b, "cq_send")
  <2>1. lost'[b] # "no" /\ \A c \in Buffer : c # b => lost'[c] = lost[c]
    BY <1>3, <1>9, <1>11
  <2>2. ASSUME NEW x \in Stage, NEW c \in Buffer
        PROVE  In(x, c)' <=> (In(x, c) /\ ~(x = "cq_send" /\ c = b))
    BY <1>1, <1>5, <1>11 DEF In, Stage, Runs, Queued
  <2> QED
    BY <1>4, <2>1, <2>2 DEF Leaves
<1>12. lost' \in [Buffer -> Lost]
  BY <1>3, <1>8, <1>9
<1>13. Single'
  BY <1>1, <1>5, <1>8 DEF IInv, Single, SingleRing, SingleShard, SingleOut
<1> QED
  BY <1>3, <1>4, <1>6, <1>8, <1>10, <1>11, <1>12, <1>13 DEF b

LEMMA HandleSendLastKeeps ==
  ASSUME IInv, HandleSendLast
  PROVE  IInv'
<1> DEFINE b == Idx(Head(cq))
<1>1. /\ b \in Buffer /\ timestamp[b] = "sent"
      /\ Moves(b, "cq_send", "sq_recv") \/ Leaves(b, "cq_send")
      /\ sq' \in Seq(Sqe) /\ cached' \in Len(sq')..SqCap
      /\ Len(sq') \in Nat /\ Len(sq') >= Len(sq)
      /\ lost' \in [Buffer -> Lost] /\ Single'
  BY HandleSendLastMoves
<1>2. pc = "cq" /\ NextCqe /\ pc' = IF ready = 1 THEN "control" ELSE "cq"
  BY <1>1 DEF HandleSendLast
<1>3. /\ LoopReady' /\ pc' \in {"control", "send", "sync", "cq", "panicked"}
      /\ cq' \in Seq(Cqe) /\ ready' \in 0..Len(cq')
  BY <1>2, NextPhase
<1>4. /\ timestamp' = [timestamp EXCEPT ![b] = "none"] /\ slot' = [slot EXCEPT ![b] = NoAddr]
      /\ UNCHANGED <<requests, taken, endpoint_to_shard, next_shard, queue, table, out,
                     visible, awake, inflight, memory, pushed, wire>>
  BY DEF HandleSendLast, PostRecv, routerVars
<1> HIDE DEF b
<1>5. timestamp' \in [Buffer -> {"none", "recv", "sent"}] /\ slot' \in [Buffer -> Addr]
  BY <1>1, <1>4, Sizes DEF IInv, TypeOK
<1>6. visible' \in 0..Len(sq')
  <2>1. visible \in 0..Len(sq) /\ sq \in Seq(Sqe)
    BY DEF IInv, TypeOK
  <2> QED
    BY <1>1, <1>4, <2>1
<1>7. TypeOK'
  BY <1>1, <1>3, <1>4, <1>5, <1>6 DEF IInv, TypeOK
<1>8. \A c \in Buffer : c # b => timestamp'[c] = timestamp[c]
  BY <1>4 DEF IInv, TypeOK
<1>9. Owned' /\ Marked'
  BY <1>1, <1>8, MoveOwned, LeaveOwned, MoveMarked, LeaveMarked DEF IInv, Stage
<1>10. QueuesFit'
  BY <1>4 DEF IInv, QueuesFit
<1> QED
  BY <1>1, <1>3, <1>7, <1>9, <1>10 DEF IInv

\* A step that leaves every queue alone.
LEMMA StayKeeps ==
  ASSUME IInv, TypeOK', LoopReady',
         UNCHANGED <<queue, out, sq, inflight, cq, timestamp, lost>>
  PROVE  IInv' /\ Stays
<1>1. Stays
  BY DEF Stays, In, Runs, Queued
<1>2. Owned' /\ Marked'
  BY <1>1, StayOwned, StayMarked DEF IInv
<1>3. Single' /\ QueuesFit'
  BY DEF IInv, Single, SingleRing, SingleShard, SingleOut, QueuesFit
<1> QED
  BY <1>1, <1>2, <1>3 DEF IInv

\* ControlDone, PublishTail and SyncDone.
LEMMA PhasesKeep ==
  ASSUME IInv, ControlDone \/ PublishTail \/ SyncDone
  PROVE  IInv' /\ Stays
<1>1. /\ cq \in Seq(Cqe) /\ sq \in Seq(Sqe) /\ cached \in Len(sq)..SqCap
      /\ ready \in 0..Len(cq) /\ (pc = "cq" <=> ready > 0) /\ visible \in 0..Len(sq)
  BY DEF IInv, TypeOK, LoopReady
<1>2. Len(cq) \in Nat /\ Len(sq) \in Nat /\ (cq = <<>> <=> ~(Len(cq) > 0))
  <2>1. Len(cq) \in Nat /\ Len(sq) \in Nat
    BY <1>1, Elements
  <2> QED
    BY <1>1, <2>1
<1>3. /\ UNCHANGED <<requests, taken, endpoint_to_shard, next_shard, queue, table, out,
                     sq, awake, inflight, cq, memory, slot, timestamp, wire, lost>>
      /\ pc' \in {"control", "send", "sync", "cq", "panicked"} /\ pc' # "panicked"
      /\ pushed' \in BOOLEAN
  <2>1. pushed \in BOOLEAN
    BY DEF IInv, TypeOK
  <2>2. CASE ControlDone
    BY <2>1, <2>2 DEF ControlDone, routerVars, ringVars, poolVars
  <2>3. CASE PublishTail
    BY <2>1, <2>3 DEF PublishTail, routerVars, ringVars, poolVars
  <2>4. CASE SyncDone
    BY <2>1, <2>4 DEF SyncDone, routerVars, ringVars, poolVars
  <2> QED
    BY <2>2, <2>3, <2>4
<1>4. visible' \in 0..Len(sq) /\ cached' \in Len(sq)..SqCap
  <2>1. Len(sq) \in Len(sq)..SqCap /\ Len(sq) \in 0..Len(sq)
    BY <1>1, <1>2, Sizes
  <2>2. CASE ControlDone
    BY <1>1, <2>2 DEF ControlDone, ringVars
  <2>3. CASE PublishTail
    BY <1>1, <2>1, <2>3 DEF PublishTail
  <2>4. CASE SyncDone
    BY <1>1, <2>1, <2>4 DEF SyncDone
  <2> QED
    BY <2>2, <2>3, <2>4
<1>5. ready' \in 0..Len(cq) /\ (pc' = "cq" <=> ready' > 0)
  <2>1. CASE ControlDone
    BY <1>1, <2>1 DEF ControlDone
  <2>2. CASE PublishTail
    BY <1>1, <2>2 DEF PublishTail
  <2>3. CASE SyncDone
    <3>1. ready' = Len(cq) /\ pc' = IF cq = <<>> THEN "control" ELSE "cq"
      BY <2>3 DEF SyncDone
    <3> QED
      BY <1>2, <3>1
  <2> QED
    BY <2>1, <2>2, <2>3
<1>6. TypeOK'
  BY <1>3, <1>4, <1>5 DEF IInv, TypeOK
<1>7. LoopReady'
  BY <1>3, <1>5 DEF IInv, LoopReady
<1> QED
  BY <1>3, <1>6, <1>7, StayKeeps

\* A session is asked for.
LEMMA CreateSessionKeeps ==
  ASSUME IInv, NEW r \in Requests, CreateSession(r)
  PROVE  IInv' /\ Stays
<1>1. /\ requests' = Append(requests, r)
      /\ UNCHANGED <<taken, endpoint_to_shard, next_shard, queue, table, out, sq, visible,
                     cached, awake, inflight, cq, ready, memory, slot, timestamp, pc,
                     pushed, wire, lost>>
  BY DEF CreateSession, routerVars, ringVars, poolVars
<1>2. requests \in Seq(Requests) /\ taken \in 0..Len(requests)
  BY DEF IInv, TypeOK
<1>3. requests' \in Seq(Requests) /\ Len(requests') = Len(requests) + 1
  BY <1>1, <1>2
<1>4. taken' \in 0..Len(requests')
  BY <1>1, <1>2, <1>3
<1>5. TypeOK'
  BY <1>1, <1>3, <1>4 DEF IInv, TypeOK
<1>6. LoopReady'
  BY <1>1 DEF IInv, LoopReady
<1> QED
  BY <1>1, <1>5, <1>6, StayKeeps

\* The loop takes a request; a session moves no buffer.
LEMMA ControlMsgKeeps ==
  ASSUME IInv, ControlMsg
  PROVE  IInv' /\ Stays
<1> DEFINE r == requests[taken + 1]
<1>1. /\ taken < Len(requests) /\ queue' = Enqueue(next_shard, r)
      /\ endpoint_to_shard' = [endpoint_to_shard EXCEPT ![r.host_addr] = next_shard,
                                                        ![r.peer_addr] = next_shard]
      /\ next_shard' = (next_shard + 1) % ShardNum
      /\ taken' = taken + 1
      /\ UNCHANGED <<requests, table, out, sq, visible, cached, awake, inflight, cq,
                     ready, memory, slot, timestamp, pc, pushed, wire, lost>>
  BY DEF ControlMsg, ringVars, poolVars
<1>2. requests \in Seq(Requests) /\ taken \in 0..Len(requests) /\ next_shard \in Shard
  BY DEF IInv, TypeOK
<1>3. taken + 1 \in 1..Len(requests) /\ taken' \in 0..Len(requests)
  BY <1>1, <1>2
<1>4. r \in Session
  <2>1. r \in Requests
    BY <1>2, <1>3, Elements
  <2> QED
    BY <2>1, TurnAssumption
<1> HIDE DEF r
<1>5. /\ queue' \in [Shard -> Seq(Message)] /\ QueuesFit' /\ SingleShard'
      /\ \A c \in Buffer : Queued(c)' <=> Queued(c)
  BY <1>1, <1>2, <1>4, SessionJoins
<1>6. next_shard' \in Shard
  <2>1. \A n, m \in Nat : m > 0 => n % m \in 0..(m - 1)
    OBVIOUS
  <2>2. next_shard + 1 \in Nat
    BY <1>2, Sizes DEF Shard
  <2> QED
    BY <1>1, <2>1, <2>2, Sizes DEF Shard
<1>7. endpoint_to_shard' \in [Addr -> Shard \union {NoShard}]
  BY <1>1, <1>2 DEF IInv, TypeOK
<1>8. TypeOK'
  BY <1>1, <1>3, <1>5, <1>6, <1>7 DEF IInv, TypeOK, Message
<1>9. Stays
  BY <1>1, <1>5 DEF Stays, In, Stage, Runs
<1>10. Owned' /\ Marked'
  BY <1>1, <1>9, StayOwned, StayMarked DEF IInv
<1>11. LoopReady'
  BY <1>1 DEF IInv, LoopReady
<1>12. Single'
  BY <1>1, <1>5 DEF IInv, Single, SingleRing, SingleOut
<1> QED
  BY <1>5, <1>8, <1>9, <1>10, <1>11, <1>12 DEF IInv

(***************************************************************************)
(* The shards.                                                             *)
(***************************************************************************)
LEMMA AddSessionKeeps ==
  ASSUME IInv, NEW s \in Shard, AddSession(s)
  PROVE  IInv' /\ Stays
<1> DEFINE r == Head(queue[s])
<1>1. /\ queue[s] # <<>> /\ r \in Session
      /\ table' = [table EXCEPT ![s][r.host_addr] = r, ![s][r.peer_addr] = r]
      /\ queue' = [queue EXCEPT ![s] = Tail(@)]
      /\ UNCHANGED <<requests, taken, endpoint_to_shard, next_shard, out, sq, visible,
                     cached, awake, inflight, cq, ready, memory, slot, timestamp, pc,
                     pushed, wire, lost>>
  BY DEF AddSession, routerVars, ringVars, poolVars
<1>2. queue' = [queue EXCEPT ![s] = Tail(queue[s])]
  BY <1>1 DEF IInv, TypeOK
<1>3. queue' \in [Shard -> Seq(Message)] /\ QueuesFit'
  BY <1>1, <1>2, QueueTail
<1>4. SingleShard' /\ \A c \in Buffer : Queued(c)' <=> Queued(c)
  BY <1>1, <1>2, SessionTaken
<1> HIDE DEF r
<1>5. table' \in [Shard -> [Addr -> Session \union {NoSession}]]
  <2>1. table \in [Shard -> [Addr -> Session \union {NoSession}]]
    BY DEF IInv, TypeOK
  <2> QED
    BY <1>1, <2>1
<1>6. TypeOK'
  BY <1>1, <1>3, <1>5 DEF IInv, TypeOK, Message
<1>7. Stays
  BY <1>1, <1>4 DEF Stays, In, Stage, Runs
<1>8. Owned' /\ Marked'
  BY <1>1, <1>7, StayOwned, StayMarked DEF IInv
<1>9. LoopReady'
  BY <1>1 DEF IInv, LoopReady
<1>10. Single'
  BY <1>1, <1>4 DEF IInv, Single, SingleRing, SingleOut
<1> QED
  BY <1>3, <1>6, <1>7, <1>8, <1>9, <1>10 DEF IInv

\* A session's answer.
LEMMA RouteToAddr ==
  ASSUME NEW x \in Session \union {NoSession}, NEW a \in Addr
  PROVE  RouteTo(x, a) \in Addr
<1>1. x.host_addr \in Addr /\ x.peer_addr \in Addr
  BY Sizes DEF Session, NoSession
<1> QED
  BY <1>1, Sizes DEF RouteTo

\* The packet's buffer goes to the out channel, or is lost with it.
Answer(s) ==
  LET p == Head(queue[s])
  IN  [dst |-> RouteTo(table[s][p.src], p.src), len |-> p.len, idx |-> p.buf_idx]

LEMMA HandlePacketMoves ==
  ASSUME IInv, NEW s \in Shard, HandlePacket(s)
  PROVE  LET b == Head(queue[s]).buf_idx
         IN  /\ b \in Buffer /\ In("shard", b) /\ Answer(s) \in OutElem
             /\ \/ /\ Moves(b, "shard", "out") /\ out' = Append(out, Answer(s))
                   /\ table[s][Head(queue[s]).src] # NoSession
                \/ Leaves(b, "shard") /\ out' = out
             /\ out' \in Seq(OutElem) /\ lost' \in [Buffer -> Lost]
             /\ queue' \in [Shard -> Seq(Message)] /\ QueuesFit' /\ Single'
<1> DEFINE p == Head(queue[s])
           b == p.buf_idx
           x == Answer(s)
           dst == RouteTo(table[s][p.src], p.src)
           why == CASE table[s][p.src] = NoSession -> "no_session"
                    [] table[s][p.src] # NoSession /\ dst = NoAddr -> "no_route"
                    [] dst # NoAddr /\ Len(out) = OutCap -> "out_full"
                    [] OTHER -> "no"
<1>1. /\ queue[s] # <<>> /\ p \in Packet /\ queue' = [queue EXCEPT ![s] = Tail(@)]
      /\ lost' = [lost EXCEPT ![b] = why]
      /\ out' = IF why = "no" THEN Append(out, x) ELSE out
      /\ UNCHANGED <<sq, inflight, cq>>
  BY DEF HandlePacket, Answer, ringVars
<1>2. queue' = [queue EXCEPT ![s] = Tail(queue[s])]
  BY <1>1 DEF IInv, TypeOK
<1>3. queue' \in [Shard -> Seq(Message)] /\ QueuesFit'
  BY <1>1, <1>2, QueueTail
<1>4. /\ b \in Buffer /\ In("shard", b) /\ SingleShard'
      /\ \A c \in Buffer : Queued(c)' <=> Queued(c) /\ c # b
  BY <1>1, <1>2, PacketTaken
<1>5. x \in OutElem /\ x.idx = b
  <2>1. p.src \in Addr /\ p.len \in 0..BufSize
    BY <1>1, Entries
  <2>2. table[s][p.src] \in Session \union {NoSession}
    BY <2>1 DEF IInv, TypeOK
  <2>3. RouteTo(table[s][p.src], p.src) \in Addr
    BY <2>1, <2>2, RouteToAddr
  <2> QED
    BY <1>4, <2>1, <2>3 DEF Answer, OutElem
<1>6. why \in {"no", "no_session", "no_route", "out_full"}
      /\ (why = "no" => table[s][p.src] # NoSession)
  <2>1. RouteTo(NoSession, p.src) = NoAddr
    BY DEF RouteTo, NoSession
  <2> QED
    BY <2>1
<1> HIDE DEF b, x, why
<1>7. \A c : x \in OutEntry(c) <=> b = c
  BY <1>5, Entries
<1>8. lost[b] = "no" /\ ~In("out", b)
  BY <1>4, Elsewhere DEF IInv, Stage
<1>9. /\ lost \in [Buffer -> Lost]
      /\ {"no", "no_session", "no_route", "out_full"} \subseteq Lost
  BY DEF IInv, TypeOK, Lost
<1>10. lost' \in [Buffer -> Lost]
  BY <1>1, <1>4, <1>6, <1>9
<1>11. out \in Seq(OutElem) /\ SingleOut
  BY DEF IInv, TypeOK, OutElem, Single
<1>12. ASSUME why = "no"
       PROVE  /\ Moves(b, "shard", "out") /\ out' = Append(out, x)
              /\ out' \in Seq(OutElem) /\ SingleOut'
  <2>1. out' = Append(out, x) /\ lost' = lost
    BY <1>1, <1>8, <1>9, <1>12
  <2>2. /\ out' \in Seq(OutElem)
        /\ \A T : Has(out', T) <=> Has(out, T) \/ x \in T
        /\ \A T : One(out, T) /\ ~(Has(out, T) /\ x \in T) => One(out', T)
    BY <1>5, <1>11, <2>1, HasAppend
  <2>3. ~Has(out, OutEntry(b))
    BY <1>8 DEF In
  <2>4. \A c \in Buffer : /\ Has(out', OutEntry(c)) <=> Has(out, OutEntry(c)) \/ c = b
                          /\ One(out', OutEntry(c))
    BY <1>7, <1>11, <2>2, <2>3 DEF SingleOut
  <2>5. ASSUME NEW y \in Stage, NEW c \in Buffer
        PROVE  In(y, c)' <=> (In(y, c) /\ ~(y = "shard" /\ c = b)) \/ (y = "out" /\ c = b)
    BY <1>1, <1>4, <2>4 DEF In, Stage, Runs
  <2>6. SingleOut'
    BY <2>4 DEF SingleOut
  <2> QED
    BY <1>4, <2>1, <2>2, <2>5, <2>6 DEF Moves
<1>13. ASSUME why # "no"
       PROVE  /\ Leaves(b, "shard") /\ out' = out
              /\ out' \in Seq(OutElem) /\ SingleOut'
  <2>1. out' = out
    BY <1>1, <1>13
  <2>2. lost'[b] # "no" /\ \A c \in Buffer : c # b => lost'[c] = lost[c]
    BY <1>1, <1>4, <1>9, <1>13
  <2>3. ASSUME NEW y \in Stage, NEW c \in Buffer
        PROVE  In(y, c)' <=> (In(y, c) /\ ~(y = "shard" /\ c = b))
    BY <1>1, <1>4, <2>1 DEF In, Stage, Runs
  <2>4. SingleOut'
    BY <1>11, <2>1 DEF SingleOut
  <2> QED
    BY <1>4, <1>11, <2>1, <2>2, <2>3, <2>4 DEF Leaves
<1>14. out' \in Seq(OutElem) /\ SingleOut'
  BY <1>12, <1>13
<1>15. Single'
  BY <1>1, <1>4, <1>14 DEF IInv, Single, SingleRing
<1> QED
  BY <1>3, <1>4, <1>5, <1>6, <1>10, <1>12, <1>13, <1>14, <1>15 DEF b, x

LEMMA HandlePacketKeeps ==
  ASSUME IInv, NEW s \in Shard, HandlePacket(s)
  PROVE  IInv'
<1> DEFINE b == Head(queue[s]).buf_idx
<1>1. /\ b \in Buffer /\ In("shard", b)
      /\ Moves(b, "shard", "out") \/ Leaves(b, "shard")
      /\ out' \in Seq(OutElem) /\ lost' \in [Buffer -> Lost]
      /\ queue' \in [Shard -> Seq(Message)] /\ QueuesFit' /\ Single'
  BY HandlePacketMoves
<1>2. UNCHANGED <<requests, taken, endpoint_to_shard, next_shard, table, sq, visible,
                  cached, awake, inflight, cq, ready, memory, slot, timestamp, pc,
                  pushed, wire>>
  BY DEF HandlePacket, routerVars, ringVars, poolVars
<1> HIDE DEF b
<1>3. TypeOK'
  BY <1>1, <1>2 DEF IInv, TypeOK, Message, OutElem
<1>4. timestamp[b] = "recv"
  BY <1>1 DEF IInv, Marked
<1>5. Owned' /\ Marked'
  BY <1>1, <1>2, <1>4, MoveOwned, LeaveOwned, MoveMarked, LeaveMarked DEF IInv, Stage
<1>6. LoopReady'
  BY <1>2 DEF IInv, LoopReady
<1> QED
  BY <1>1, <1>3, <1>5, <1>6 DEF IInv

(***************************************************************************)
(* The kernel.                                                             *)
(***************************************************************************)

\* The stage of an operation in the submission queue, with the kernel and in
\* the completion queue.
SqStage(op) == IF op = "recv" THEN "sq_recv" ELSE "sq_send"
KStage(op) == CASE op = "recv" -> "k_recv" [] op = "send" -> "k_send" [] OTHER -> "k_notif"
CqStage(op) == IF op = "recv" THEN "cq_recv" ELSE "cq_send"

LEMMA KernelTakeMoves ==
  ASSUME IInv, KernelTake
  PROVE  \E op \in {"recv", "send"}, b \in Buffer :
            /\ Head(sq) = [op |-> op, idx |-> b] /\ 1 \in DOMAIN sq /\ Head(sq) = sq[1]
            /\ inflight' = inflight \union {[op |-> op, idx |-> b, dst |-> slot[b]]}
            /\ Moves(b, SqStage(op), KStage(op)) /\ Single'
            /\ sq' \in Seq(Sqe) /\ visible' \in 0..Len(sq') /\ cached \in Len(sq')..SqCap
            /\ inflight' \subseteq KernelElem
<1>1. /\ visible > 0 /\ visible' = visible - 1 /\ sq' = Tail(sq)
      /\ UNCHANGED <<queue, out, cq, lost>>
  BY DEF KernelTake
<1>2. /\ sq \in Seq(Sqe) /\ visible \in 0..Len(sq) /\ cached \in Len(sq)..SqCap
      /\ inflight \subseteq KernelElem
  BY DEF IInv, TypeOK, KernelElem
<1>3. Len(sq) \in Nat
  BY <1>2, Elements
<1>4. sq # <<>>
  BY <1>1, <1>2, <1>3
<1>5. /\ sq' \in Seq(Sqe) /\ Len(sq') = Len(sq) - 1 /\ Head(sq) \in Sqe
      /\ Head(sq) = sq[1] /\ 1 \in DOMAIN sq
      /\ \A T : Has(sq, T) <=> Has(sq', T) \/ Head(sq) \in T
      /\ \A T : One(sq, T) => One(sq', T) /\ ~(Has(sq', T) /\ Head(sq) \in T)
  BY <1>1, <1>2, <1>4, HasTail
<1>6. PICK op \in {"recv", "send"}, b \in Buffer : Head(sq) = [op |-> op, idx |-> b]
  BY <1>5 DEF Sqe
<1> DEFINE k == [op |-> op, idx |-> b, dst |-> slot[b]]
<1>7. inflight' = inflight \union {k}
  BY <1>6 DEF KernelTake
<1>8. k \in KernelElem /\ k.op = op /\ k.idx = b
  <2>1. slot[b] \in Addr
    BY DEF IInv, TypeOK
  <2> QED
    BY <2>1 DEF KernelElem
<1> HIDE DEF k
<1>9. visible' \in 0..Len(sq') /\ cached \in Len(sq')..SqCap
  BY <1>1, <1>2, <1>3, <1>5, Sizes
<1>10. \A p, c : Head(sq) \in SqEntry(p, c) <=> p = op /\ c = b
  BY <1>6 DEF SqEntry
<1>11. \A p \in {"recv", "send"}, c \in Buffer :
          /\ Has(sq', SqEntry(p, c)) <=> Has(sq, SqEntry(p, c)) /\ ~(p = op /\ c = b)
          /\ One(sq', SqEntry(p, c))
  BY <1>5, <1>10 DEF IInv, Single, SingleRing
<1>12. In(SqStage(op), b)
  BY <1>5, <1>10 DEF In, SqStage
<1>13. \A p, c : Runs(p, c)' <=> Runs(p, c) \/ (p = op /\ c = b)
  BY <1>7, <1>8 DEF Runs
<1>14. ASSUME NEW x \in Stage, NEW c \in Buffer
       PROVE  In(x, c)' <=> (In(x, c) /\ ~(x = SqStage(op) /\ c = b))
                              \/ (x = KStage(op) /\ c = b)
  <2>1. CASE op = "recv"
    BY <1>1, <1>11, <1>13, <2>1 DEF In, Stage, SqStage, KStage, Queued
  <2>2. CASE op = "send"
    BY <1>1, <1>11, <1>13, <2>2 DEF In, Stage, SqStage, KStage, Queued
  <2> QED
    BY <2>1, <2>2
<1>15. Moves(b, SqStage(op), KStage(op))
  BY <1>1, <1>12, <1>14 DEF Moves
<1>16. ASSUME NEW f \in inflight', NEW g \in inflight', f.idx = g.idx PROVE f = g
  <2>1. \A a \in inflight : a.idx # b
    <3> SUFFICES ASSUME NEW a \in inflight, a.idx = b PROVE FALSE
      OBVIOUS
    <3>1. a.op \in {"recv", "send", "notif"}
      BY <1>2 DEF KernelElem
    <3>2. Runs(a.op, b)
      BY DEF Runs
    <3>3. \E x \in {"k_recv", "k_send", "k_notif"} : In(x, b)
      BY <3>1, <3>2 DEF In
    <3> QED
      BY <1>12, <3>3, Elsewhere DEF IInv, Stage, SqStage
  <2>2. \A f1, g1 \in inflight : f1.idx = g1.idx => f1 = g1
    BY DEF IInv, Single, SingleRing
  <2> QED
    BY <1>7, <1>8, <1>16, <2>1, <2>2
<1>17. Single'
  BY <1>1, <1>11, <1>16 DEF IInv, Single, SingleRing, SingleShard, SingleOut
<1> QED
  BY <1>2, <1>5, <1>6, <1>7, <1>8, <1>9, <1>15, <1>17 DEF k

LEMMA KernelTakeKeeps ==
  ASSUME IInv, KernelTake
  PROVE  IInv'
<1>1. PICK op \in {"recv", "send"}, b \in Buffer :
         /\ Moves(b, SqStage(op), KStage(op)) /\ Single'
         /\ sq' \in Seq(Sqe) /\ visible' \in 0..Len(sq') /\ cached \in Len(sq')..SqCap
         /\ inflight' \subseteq KernelElem
  BY KernelTakeMoves
<1>2. UNCHANGED <<requests, taken, endpoint_to_shard, next_shard, queue, table, out,
                  cached, awake, cq, ready, memory, slot, timestamp, pc, pushed, wire, lost>>
  BY DEF KernelTake, routerVars, poolVars
<1>3. TypeOK'
  BY <1>1, <1>2 DEF IInv, TypeOK, KernelElem
<1>4. op = "send" => timestamp[b] = "sent"
  BY <1>1 DEF IInv, Marked, Moves, SqStage
<1>5. Owned' /\ Marked'
  <2>1. /\ SqStage(op) \in Stage /\ KStage(op) \in Stage \ {"shard", "out"}
        /\ op # "send" => KStage(op) = "k_recv"
    BY DEF SqStage, KStage, Stage
  <2>2. Owned'
    BY <1>1, <2>1, MoveOwned DEF IInv
  <2>3. Marked'
    BY <1>1, <1>2, <1>4, <2>1, MoveMarked DEF IInv
  <2> QED
    BY <2>2, <2>3
<1>6. LoopReady' /\ QueuesFit'
  BY <1>2 DEF IInv, LoopReady, QueuesFit
<1> QED
  BY <1>1, <1>3, <1>5, <1>6 DEF IInv

LEMMA KernelSleepKeeps ==
  ASSUME IInv, KernelSleep
  PROVE  IInv' /\ Stays
<1>1. /\ awake' = FALSE
      /\ UNCHANGED <<requests, taken, endpoint_to_shard, next_shard, queue, table, out, sq,
                     visible, cached, inflight, cq, ready, memory, slot, timestamp, pc,
                     pushed, wire, lost>>
  BY DEF KernelSleep, routerVars, poolVars
<1>2. TypeOK' /\ LoopReady'
  BY <1>1 DEF IInv, TypeOK, LoopReady
<1> QED
  BY <1>1, <1>2, StayKeeps

\* An operation of the kernel and its stage.
LEMMA KernelHas ==
  ASSUME IInv, NEW e \in inflight
  PROVE  /\ e \in KernelElem /\ e.op \in {"recv", "send", "notif"} /\ e.idx \in Buffer
         /\ e.dst \in Addr /\ In(KStage(e.op), e.idx)
         /\ ~In("cq_recv", e.idx) /\ ~In("cq_send", e.idx)
<1>1. e \in KernelElem
  BY DEF IInv, TypeOK, KernelElem
<1>2. e.op \in {"recv", "send", "notif"} /\ e.idx \in Buffer /\ e.dst \in Addr
  BY <1>1 DEF KernelElem
<1>3. Runs(e.op, e.idx)
  BY DEF Runs
<1>4. In(KStage(e.op), e.idx)
  BY <1>2, <1>3 DEF In, KStage
<1> QED
  BY <1>1, <1>2, <1>4, Elsewhere DEF IInv, Stage, KStage

\* An operation ends: its buffer is with the completion queue.
LEMMA EndMoves ==
  ASSUME IInv, NEW e \in inflight, NEW op \in {"recv", "send"}, NEW n \in 0..BufSize,
         op = "recv" <=> e.op = "recv",
         Complete(op, e.idx, n, FALSE), inflight' = inflight \ {e},
         UNCHANGED <<queue, out, sq, lost>>
  PROVE  /\ Moves(e.idx, KStage(e.op), CqStage(op)) /\ Single'
         /\ cq' \in Seq(Cqe) /\ ready \in 0..Len(cq') /\ inflight' \subseteq KernelElem
         /\ \A i \in DOMAIN cq' :
               cq'[i].more => \E c \in Buffer : cq'[i].user_data = EncodeToken("send", c)
<1>1. /\ e \in KernelElem /\ e.op \in {"recv", "send", "notif"} /\ e.idx \in Buffer
      /\ In(KStage(e.op), e.idx)
      /\ ~In("cq_recv", e.idx) /\ ~In("cq_send", e.idx)
  BY KernelHas
<1>2. /\ cq' \in Seq(Cqe) /\ ready \in 0..Len(cq')
      /\ \A p \in {"recv", "send"}, c \in Buffer :
            /\ Has(cq', CqEntry(p, c)) <=> Has(cq, CqEntry(p, c)) \/ (p = op /\ c = e.idx)
            /\ One(cq', CqEntry(p, c))
      /\ \A i \in DOMAIN cq' :
            cq'[i].more => \E c \in Buffer : cq'[i].user_data = EncodeToken("send", c)
  <2>1. FALSE \in BOOLEAN /\ (FALSE => op = "send")
    OBVIOUS
  <2>2. /\ cq' \in Seq(Cqe) /\ ready \in 0..Len(cq')
        /\ \A p \in {"recv", "send"}, c \in Buffer :
              /\ Has(cq', CqEntry(p, c)) <=>
                    Has(cq, CqEntry(p, c)) \/ (p = op /\ c = e.idx /\ ~FALSE)
              /\ One(cq', CqEntry(p, c))
        /\ \A i \in DOMAIN cq' :
              cq'[i].more => \E c \in Buffer : cq'[i].user_data = EncodeToken("send", c)
    BY <1>1, <2>1, CompleteAdds, ZenonT(30)
  <2> QED
    BY <2>2, ZenonT(30)
<1>3. /\ \A p, c : Runs(p, c)' <=> Runs(p, c) /\ ~(p = e.op /\ c = e.idx)
      /\ \A f, g \in inflight' : f.idx = g.idx => f = g
  BY RunsWithout
<1>4. ASSUME NEW x \in Stage, NEW c \in Buffer
      PROVE  In(x, c)' <=> (In(x, c) /\ ~(x = KStage(e.op) /\ c = e.idx))
                              \/ (x = CqStage(op) /\ c = e.idx)
  <2>1. CASE e.op = "recv"
    BY <1>2, <1>3, <2>1 DEF In, Stage, KStage, CqStage, Queued
  <2>2. CASE e.op = "send"
    BY <1>2, <1>3, <2>2 DEF In, Stage, KStage, CqStage, Queued
  <2>3. CASE e.op = "notif"
    BY <1>2, <1>3, <2>3 DEF In, Stage, KStage, CqStage, Queued
  <2> QED
    BY <1>1, <2>1, <2>2, <2>3
<1>5. Moves(e.idx, KStage(e.op), CqStage(op))
  BY <1>1, <1>4 DEF Moves
<1>6. Single'
  BY <1>2, <1>3 DEF IInv, Single, SingleRing, SingleShard, SingleOut
<1>7. inflight' \subseteq KernelElem
  BY DEF IInv, TypeOK, KernelElem
<1> QED
  BY <1>2, <1>5, <1>6, <1>7

\* A receive ends with a datagram or with an error.
LEMMA KernelRecvKeeps ==
  ASSUME IInv, NEW e \in inflight, NEW src \in Addr, NEW n \in Lens \union {0},
         KernelRecv(e, src, n)
  PROVE  /\ Moves(e.idx, "k_recv", "cq_recv") /\ e.idx \in Buffer
         /\ IInv'
<1>1. n \in 0..BufSize
  BY TurnAssumption, Sizes
<1>2. /\ e.op = "recv"
      /\ memory' = [memory EXCEPT ![e.idx] =
                      [i \in 1..BufSize |-> IF i <= n THEN src ELSE @[i]]]
      /\ slot' = [slot EXCEPT ![e.idx] = src]
      /\ Complete("recv", e.idx, n, FALSE) /\ inflight' = inflight \ {e} /\ awake' = TRUE
      /\ UNCHANGED <<requests, taken, endpoint_to_shard, next_shard, queue, table, out, sq,
                     visible, cached, ready, timestamp, pc, pushed, wire, lost>>
  BY DEF KernelRecv, routerVars
<1>3. e.idx \in Buffer
  BY KernelHas
<1>4. /\ Moves(e.idx, "k_recv", "cq_recv") /\ Single'
      /\ cq' \in Seq(Cqe) /\ ready \in 0..Len(cq') /\ inflight' \subseteq KernelElem
      /\ \A i \in DOMAIN cq' :
            cq'[i].more => \E c \in Buffer : cq'[i].user_data = EncodeToken("send", c)
  <2>1. KStage(e.op) = "k_recv" /\ CqStage("recv") = "cq_recv"
    BY <1>2 DEF KStage, CqStage
  <2> QED
    BY <1>1, <1>2, <2>1, EndMoves
<1>5. memory' \in [Buffer -> Cells] /\ slot' \in [Buffer -> Addr]
  <2>1. memory \in [Buffer -> Cells] /\ slot \in [Buffer -> Addr]
    BY DEF IInv, TypeOK
  <2>2. memory[e.idx] \in [1..BufSize -> Addr]
    BY <1>3, <2>1 DEF Cells
  <2>3. [i \in 1..BufSize |-> IF i <= n THEN src ELSE memory[e.idx][i]] \in Cells
    BY <2>2 DEF Cells
  <2> QED
    BY <1>2, <1>3, <2>1, <2>3
<1>6. TypeOK'
  BY <1>2, <1>4, <1>5 DEF IInv, TypeOK, KernelElem
<1>7. Owned' /\ Marked'
  BY <1>2, <1>3, <1>4, MoveOwned, MoveMarked DEF IInv, Stage
<1>8. LoopReady' /\ QueuesFit'
  BY <1>2, <1>4 DEF IInv, LoopReady, QueuesFit
<1> QED
  BY <1>3, <1>4, <1>6, <1>7, <1>8 DEF IInv

\* A send is accepted: its first completion carries no buffer.
LEMMA KernelSendMoves ==
  ASSUME IInv, NEW e \in inflight, KernelSend(e)
  PROVE  /\ Moves(e.idx, "k_send", "k_notif") /\ e.idx \in Buffer /\ Single'
         /\ cq' \in Seq(Cqe) /\ ready \in 0..Len(cq') /\ inflight' \subseteq KernelElem
         /\ \A i \in DOMAIN cq' :
               cq'[i].more => \E c \in Buffer : cq'[i].user_data = EncodeToken("send", c)
<1> DEFINE k == [e EXCEPT !.op = "notif"]
<1>1. /\ e.op = "send" /\ Complete("send", e.idx, BufSize, TRUE)
      /\ inflight' = (inflight \ {e}) \union {k}
      /\ UNCHANGED <<queue, out, sq, lost>>
  BY DEF KernelSend
<1>2. /\ e \in KernelElem /\ e.idx \in Buffer /\ In(KStage(e.op), e.idx)
      /\ ~In("cq_recv", e.idx) /\ ~In("cq_send", e.idx)
  BY KernelHas
<1>3. k \in KernelElem /\ k.op = "notif" /\ k.idx = e.idx
  BY <1>2 DEF KernelElem
<1> HIDE DEF k
<1>4. In("k_send", e.idx)
  BY <1>1, <1>2 DEF KStage
<1>5. /\ cq' \in Seq(Cqe) /\ ready \in 0..Len(cq')
      /\ \A p \in {"recv", "send"}, c \in Buffer :
            /\ Has(cq', CqEntry(p, c)) <=> Has(cq, CqEntry(p, c))
            /\ One(cq', CqEntry(p, c))
      /\ \A i \in DOMAIN cq' :
            cq'[i].more => \E c \in Buffer : cq'[i].user_data = EncodeToken("send", c)
  <2>1. BufSize \in 0..BufSize
    BY Sizes
  <2> QED
    BY <1>1, <1>2, <2>1, CompleteAdds
<1>6. \A f, g \in inflight : f.idx = g.idx => f = g
  BY DEF IInv, Single, SingleRing
<1>7. \A p, c : Runs(p, c)' <=> (Runs(p, c) /\ ~(p = "send" /\ c = e.idx))
                                  \/ (p = "notif" /\ c = e.idx)
  BY <1>1, <1>3, <1>6 DEF Runs
<1>8. \A f, g \in inflight' : f.idx = g.idx => f = g
  BY <1>1, <1>3, <1>6
<1>9. ASSUME NEW x \in Stage, NEW c \in Buffer
      PROVE  In(x, c)' <=> (In(x, c) /\ ~(x = "k_send" /\ c = e.idx))
                              \/ (x = "k_notif" /\ c = e.idx)
  BY <1>1, <1>5, <1>7 DEF In, Stage, Queued
<1>10. Moves(e.idx, "k_send", "k_notif")
  BY <1>1, <1>4, <1>9 DEF Moves
<1>11. Single'
  BY <1>1, <1>5, <1>8 DEF IInv, Single, SingleRing, SingleShard, SingleOut
<1>12. inflight' \subseteq KernelElem
  BY <1>1, <1>3 DEF IInv, TypeOK, KernelElem
<1> QED
  BY <1>2, <1>5, <1>10, <1>11, <1>12

\* The steps of a send.
LEMMA SendStepKeeps ==
  ASSUME IInv, NEW e \in inflight, KernelSend(e) \/ KernelSendFail(e) \/ KernelNotif(e)
  PROVE  /\ e.idx \in Buffer /\ e.dst \in Addr
         /\ KernelSend(e) => Moves(e.idx, "k_send", "k_notif")
         /\ KernelSendFail(e) => Moves(e.idx, "k_send", "cq_send")
         /\ KernelNotif(e) => Moves(e.idx, "k_notif", "cq_send")
         /\ IInv'
<1>1. /\ e \in KernelElem /\ e.idx \in Buffer /\ e.dst \in Addr
      /\ In(KStage(e.op), e.idx)
  BY KernelHas
<1>2. /\ UNCHANGED <<requests, taken, endpoint_to_shard, next_shard, queue, table, out, sq,
                     visible, cached, ready, memory, slot, timestamp, pc, pushed, lost>>
      /\ awake' \in BOOLEAN
  BY DEF IInv, TypeOK, KernelSend, KernelSendFail, KernelNotif, routerVars, poolVars
<1>3. wire' \subseteq [dst : Addr, data : Cells]
  <2>1. memory[e.idx] \in Cells /\ wire \subseteq [dst : Addr, data : Cells]
    BY <1>1 DEF IInv, TypeOK
  <2>2. CASE KernelSend(e) \/ KernelSendFail(e)
    BY <2>1, <2>2 DEF KernelSend, KernelSendFail
  <2>3. CASE KernelNotif(e)
    BY <1>1, <2>1, <2>3 DEF KernelNotif
  <2> QED
    BY <2>2, <2>3
<1>4. /\ \/ Moves(e.idx, "k_send", "k_notif")
         \/ Moves(e.idx, "k_send", "cq_send")
         \/ Moves(e.idx, "k_notif", "cq_send")
      /\ KernelSend(e) => Moves(e.idx, "k_send", "k_notif")
      /\ KernelSendFail(e) => Moves(e.idx, "k_send", "cq_send")
      /\ KernelNotif(e) => Moves(e.idx, "k_notif", "cq_send")
      /\ Single'
      /\ cq' \in Seq(Cqe) /\ ready \in 0..Len(cq') /\ inflight' \subseteq KernelElem
      /\ \A i \in DOMAIN cq' :
            cq'[i].more => \E c \in Buffer : cq'[i].user_data = EncodeToken("send", c)
  <2> DEFINE Kept == /\ Single' /\ cq' \in Seq(Cqe) /\ ready \in 0..Len(cq')
                     /\ inflight' \subseteq KernelElem
                     /\ \A i \in DOMAIN cq' : cq'[i].more =>
                           \E c \in Buffer : cq'[i].user_data = EncodeToken("send", c)
  <2>1. 0 \in 0..BufSize
    BY Sizes
  <2>2. KernelSend(e) => Moves(e.idx, "k_send", "k_notif") /\ Kept
    BY KernelSendMoves
  <2>3. ASSUME KernelSendFail(e) PROVE Moves(e.idx, "k_send", "cq_send") /\ Kept
    <3>1. /\ e.op = "send" /\ Complete("send", e.idx, 0, FALSE) /\ inflight' = inflight \ {e}
          /\ KStage(e.op) = "k_send" /\ CqStage("send") = "cq_send"
      BY <2>3 DEF KernelSendFail, KStage, CqStage
    <3> QED
      BY <1>2, <2>1, <3>1, EndMoves
  <2>4. ASSUME KernelNotif(e) PROVE Moves(e.idx, "k_notif", "cq_send") /\ Kept
    <3>1. /\ e.op = "notif" /\ Complete("send", e.idx, 0, FALSE) /\ inflight' = inflight \ {e}
          /\ KStage(e.op) = "k_notif" /\ CqStage("send") = "cq_send"
      BY <2>4 DEF KernelNotif, KStage, CqStage
    <3> QED
      BY <1>2, <2>1, <3>1, EndMoves
  <2> QED
    BY <2>2, <2>3, <2>4
<1>5. timestamp[e.idx] = "sent"
  BY <1>1, <1>4 DEF IInv, Marked, Moves
<1>6. Owned' /\ Marked'
  <2>1. Owned'
    BY <1>1, <1>4, MoveOwned DEF IInv, Stage
  <2>2. Marked'
    BY <1>1, <1>2, <1>4, <1>5, MoveMarked DEF IInv, Stage
  <2> QED
    BY <2>1, <2>2
<1>7. TypeOK'
  BY <1>2, <1>3, <1>4 DEF IInv, TypeOK, KernelElem
<1>8. LoopReady' /\ QueuesFit'
  BY <1>2, <1>4 DEF IInv, LoopReady, QueuesFit
<1> QED
  BY <1>1, <1>4, <1>6, <1>7, <1>8 DEF IInv

(***************************************************************************)
(* The invariant holds.                                                    *)
(***************************************************************************)

\* The receives posted before the loop starts: the first n buffers wait in the
\* submission queue, the kernel works on the others.
LEMMA InitRing ==
  ASSUME NEW n \in 0..PoolSize,
         sq = [i \in 1..n |-> [op |-> "recv", idx |-> n - i]],
         inflight = {[op |-> "recv", idx |-> PoolSize - i, dst |-> NoAddr] :
                       i \in 1..(PoolSize - n)}
  PROVE  /\ sq \in Seq(Sqe) /\ Len(sq) = n /\ inflight \subseteq KernelElem
         /\ \A b \in Buffer : \A p : Has(sq, SqEntry(p, b)) <=> p = "recv" /\ b < n
         /\ \A b \in Buffer : \A p : One(sq, SqEntry(p, b))
         /\ \A b \in Buffer : \A p : Runs(p, b) <=> p = "recv" /\ b >= n
         /\ \A e, f \in inflight : e.idx = f.idx => e = f
<1>1. n \in Nat /\ PoolSize \in Nat /\ n <= PoolSize
  BY Sizes
<1>2. /\ \A i \in 1..n : n - i \in Buffer /\ n - i < n
      /\ \A b \in Buffer : b < n => n - b \in 1..n /\ n - (n - b) = b
      /\ \A i, j \in 1..n : n - i = n - j => i = j
      /\ \A i \in 1..(PoolSize - n) : PoolSize - i \in Buffer /\ PoolSize - i >= n
      /\ \A b \in Buffer : b >= n =>
            PoolSize - b \in 1..(PoolSize - n) /\ PoolSize - (PoolSize - b) = b
  BY <1>1 DEF Buffer
<1>3. /\ sq \in Seq(Sqe) /\ Len(sq) = n /\ DOMAIN sq = 1..n
      /\ \A i \in 1..n : sq[i] = [op |-> "recv", idx |-> n - i]
  <2>1. \A i \in 1..n : [op |-> "recv", idx |-> n - i] \in Sqe
    BY <1>2 DEF Sqe
  <2> QED
    BY <1>1, <2>1
<1>4. \A i \in 1..n : \A p, c : sq[i] \in SqEntry(p, c) <=> p = "recv" /\ c = n - i
  <2> TAKE i \in 1..n
  <2> TAKE p, c
  <2>1. sq[i] = [op |-> "recv", idx |-> n - i]
    BY <1>3
  <2> QED
    BY <2>1 DEF SqEntry
<1>5. \A b \in Buffer : \A p : Has(sq, SqEntry(p, b)) <=> p = "recv" /\ b < n
  <2> TAKE b \in Buffer
  <2> TAKE p
  <2>1. ASSUME p = "recv", b < n PROVE Has(sq, SqEntry(p, b))
    <3>1. n - b \in 1..n /\ sq[n - b] \in SqEntry(p, b)
      BY <1>2, <1>4, <2>1
    <3> QED
      BY <1>3, <3>1 DEF Has
  <2>2. Has(sq, SqEntry(p, b)) => p = "recv" /\ b < n
    <3> SUFFICES ASSUME NEW i \in 1..n, sq[i] \in SqEntry(p, b) PROVE p = "recv" /\ b < n
      BY <1>3 DEF Has
    <3>1. p = "recv" /\ b = n - i
      BY <1>4
    <3>2. n - i < n
      BY <1>2
    <3> QED
      BY <3>1, <3>2
  <2> QED
    BY <2>1, <2>2
<1>6. \A b \in Buffer : \A p : One(sq, SqEntry(p, b))
  BY <1>2, <1>3, <1>4 DEF One
<1>7. \A e : e \in inflight <=>
         \E i \in 1..(PoolSize - n) : e = [op |-> "recv", idx |-> PoolSize - i, dst |-> NoAddr]
  OBVIOUS
<1>8. \A e \in inflight : e.op = "recv" /\ e.idx \in Buffer /\ e.idx >= n /\ e \in KernelElem
  <2>1. \A i \in 1..(PoolSize - n) :
           [op |-> "recv", idx |-> PoolSize - i, dst |-> NoAddr] \in KernelElem
    BY <1>2, Sizes DEF KernelElem
  <2> QED
    BY <1>2, <1>7, <2>1
<1>9. ASSUME NEW b \in Buffer, b >= n PROVE Runs("recv", b)
  <2>1. PoolSize - b \in 1..(PoolSize - n) /\ PoolSize - (PoolSize - b) = b
    BY <1>2, <1>9
  <2>2. [op |-> "recv", idx |-> b, dst |-> NoAddr] \in inflight
    BY <1>7, <2>1
  <2> QED
    BY <2>2 DEF Runs
<1>10. \A b \in Buffer : \A p : Runs(p, b) <=> p = "recv" /\ b >= n
  BY <1>8, <1>9 DEF Runs
<1>11. \A e, f \in inflight : e.idx = f.idx => e = f
  BY <1>7
<1> QED
  BY <1>3, <1>5, <1>6, <1>8, <1>10, <1>11

LEMMA InitHolds == Init => IInv
<1> SUFFICES ASSUME Init PROVE IInv
  OBVIOUS
<1>1. PICK k \in 0..PoolSize :
        /\ sq = [i \in 1..(PoolSize - k) |-> [op |-> "recv", idx |-> PoolSize - k - i]]
        /\ inflight = {[op |-> "recv", idx |-> PoolSize - i, dst |-> NoAddr] : i \in 1..k}
        /\ visible = PoolSize - k /\ cached = PoolSize - k
  BY DEF Init
<1>2. /\ requests = <<>> /\ taken = 0
      /\ endpoint_to_shard = [a \in Addr |-> NoShard] /\ next_shard = 0
      /\ queue = [s \in Shard |-> <<>>]
      /\ table = [s \in Shard |-> [a \in Addr |-> NoSession]]
      /\ out = <<>> /\ awake = TRUE /\ cq = <<>> /\ ready = 0
      /\ memory = [b \in Buffer |-> [i \in 1..BufSize |-> NoAddr]]
      /\ slot = [b \in Buffer |-> NoAddr]
      /\ timestamp = [b \in Buffer |-> "none"]
      /\ pc = "control" /\ pushed = FALSE /\ wire = {} /\ lost = [b \in Buffer |-> "no"]
  BY DEF Init
<1>3. PoolSize - k \in 0..PoolSize /\ PoolSize - (PoolSize - k) = k
  BY Sizes
<1>4. PICK n \in 0..PoolSize : n = PoolSize - k
  BY <1>3
<1>5. /\ sq \in Seq(Sqe) /\ Len(sq) = n /\ inflight \subseteq KernelElem
      /\ \A b \in Buffer : \A p : Has(sq, SqEntry(p, b)) <=> p = "recv" /\ b < n
      /\ \A b \in Buffer : \A p : One(sq, SqEntry(p, b))
      /\ \A b \in Buffer : \A p : Runs(p, b) <=> p = "recv" /\ b >= n
      /\ \A e, f \in inflight : e.idx = f.idx => e = f
  <2>1. /\ sq = [i \in 1..n |-> [op |-> "recv", idx |-> n - i]]
        /\ inflight = {[op |-> "recv", idx |-> PoolSize - i, dst |-> NoAddr] :
                         i \in 1..(PoolSize - n)}
    BY <1>1, <1>3, <1>4
  <2> QED
    BY <2>1, InitRing
<1>6. \A x \in Stage, b \in Buffer :
         In(x, b) <=> (x = "sq_recv" /\ b < n) \/ (x = "k_recv" /\ b >= n)
  <2>1. \A T : ~Has(<<>>, T)
    BY HasEmpty
  <2>2. \A b : ~Queued(b)
    BY <1>2, <2>1 DEF Queued
  <2> QED
    BY <1>2, <1>5, <2>1, <2>2 DEF In, Stage
<1>7. TypeOK
  <2>1. /\ visible \in 0..Len(sq) /\ cached \in Len(sq)..SqCap
    BY <1>1, <1>4, <1>5, Sizes
  <2>2. requests \in Seq(Requests) /\ taken \in 0..Len(requests)
    BY <1>2
  <2>3. /\ endpoint_to_shard \in [Addr -> Shard \union {NoShard}] /\ next_shard \in Shard
        /\ table \in [Shard -> [Addr -> Session \union {NoSession}]]
    BY <1>2, Sizes DEF Shard
  <2>4. queue \in [Shard -> Seq(Session \union Packet)]
    BY <1>2
  <2>5. out \in Seq([dst : Addr, len : 0..BufSize, idx : Buffer]) /\ cq \in Seq(Cqe)
    BY <1>2
  <2>6. ready \in 0..Len(cq)
    BY <1>2
  <2>7. memory \in [Buffer -> Cells] /\ slot \in [Buffer -> Addr]
    BY <1>2, Sizes DEF Cells
  <2>8. timestamp \in [Buffer -> {"none", "recv", "sent"}] /\ lost \in [Buffer -> Lost]
    BY <1>2 DEF Lost
  <2>9. /\ pc \in {"control", "send", "sync", "cq", "panicked"} /\ pushed \in BOOLEAN
        /\ awake \in BOOLEAN /\ wire \subseteq [dst : Addr, data : Cells]
    BY <1>2
  <2> QED
    BY <1>5, <2>1, <2>2, <2>3, <2>4, <2>5, <2>6, <2>7, <2>8, <2>9 DEF TypeOK, KernelElem
<1>8. Owned
  <2>1. \A b \in Buffer : lost[b] = "no" /\ (b < n <=> ~(b >= n))
    BY <1>2, Sizes
  <2> QED
    BY <1>6, <2>1 DEF Owned, OwnedOnce, Stage
<1>9. Single
  <2>1. \A T : One(<<>>, T) /\ ~Has(<<>>, T)
    BY HasEmpty
  <2> QED
    BY <1>2, <1>5, <2>1 DEF Single, SingleRing, SingleShard, SingleOut
<1>10. LoopReady /\ QueuesFit
  <2>1. Len(<<>>) <= QueueCap
    BY Sizes
  <2> QED
    BY <1>2, <2>1 DEF LoopReady, QueuesFit
<1>11. Marked
  BY <1>6 DEF Marked, Stage
<1> QED
  BY <1>7, <1>8, <1>9, <1>10, <1>11 DEF IInv

LEMMA StepKeeps == IInv /\ [Next]_vars => IInv'
<1> SUFFICES ASSUME IInv, [Next]_vars PROVE IInv'
  OBVIOUS
<1>1. ASSUME NEW r \in Requests, CreateSession(r) PROVE IInv'
  BY <1>1, CreateSessionKeeps
<1>2. CASE ControlMsg
  BY <1>2, ControlMsgKeeps
<1>3. CASE ControlDone \/ PublishTail \/ SyncDone
  BY <1>3, PhasesKeep
<1>4. CASE SendMsg
  BY <1>4, SendMsgKeeps
<1>5. CASE HandleRecv
  BY <1>5, HandleRecvKeeps
<1>6. CASE HandleSendMore
  BY <1>6, HandleSendMoreKeeps
<1>7. CASE HandleSendLast
  BY <1>7, HandleSendLastKeeps
<1>8. ASSUME NEW s \in Shard, AddSession(s) PROVE IInv'
  BY <1>8, AddSessionKeeps
<1>9. ASSUME NEW s \in Shard, HandlePacket(s) PROVE IInv'
  BY <1>9, HandlePacketKeeps
<1>10. CASE KernelTake
  BY <1>10, KernelTakeKeeps
<1>11. CASE KernelSleep
  BY <1>11, KernelSleepKeeps
<1>12. ASSUME NEW e \in inflight, NEW src \in Addr, NEW n \in Lens \union {0},
              KernelRecv(e, src, n)
       PROVE  IInv'
  BY <1>12, KernelRecvKeeps
<1>13. ASSUME NEW e \in inflight, KernelSend(e) \/ KernelSendFail(e) \/ KernelNotif(e)
       PROVE  IInv'
  BY <1>13, SendStepKeeps
<1>14. CASE UNCHANGED vars
  <2>1. UNCHANGED <<requests, taken, endpoint_to_shard, next_shard, queue, table, out, sq,
                    visible, cached, awake, inflight, cq, ready, memory, slot, timestamp,
                    pc, pushed, wire, lost>>
    BY <1>14 DEF vars
  <2>2. TypeOK' /\ LoopReady'
    BY <2>1 DEF IInv, TypeOK, LoopReady
  <2> QED
    BY <2>1, <2>2, StayKeeps
<1> QED
  BY <1>1, <1>2, <1>3, <1>4, <1>5, <1>6, <1>7, <1>8, <1>9, <1>10, <1>11, <1>12, <1>13,
     <1>14 DEF Next, Loop

\* The inductive invariant holds in every reachable state.
THEOREM Invariance == Spec => []IInv
BY InitHolds, StepKeeps, PTL DEF Spec

(***************************************************************************)
(* What it says.                                                           *)
(***************************************************************************)

\* All variables of the loop, the shards and the kernel keep their types.
THEOREM TypeCorrect == Spec => []TypeOK
<1>1. IInv => TypeOK
  BY DEF IInv
<1> QED
  BY <1>1, Invariance, PTL

\* The unwraps in the Send branch never panic: the last completion of a send
\* finds the marks of this very send, whatever the sizes of pool and queues.
THEOREM UnwrapsSucceed == Spec => []NoPanic
<1>1. IInv => NoPanic
  BY DEF IInv, LoopReady, NoPanic
<1> QED
  BY <1>1, Invariance, PTL

\* Place p of buffer b belongs to stage x.
At(p, x, b) ==
  \/ x = "sq_recv" /\ \E i \in DOMAIN sq : p = <<"sq", i>> /\ sq[i] \in SqEntry("recv", b)
  \/ x = "sq_send" /\ \E i \in DOMAIN sq : p = <<"sq", i>> /\ sq[i] \in SqEntry("send", b)
  \/ x = "cq_recv" /\ \E i \in DOMAIN cq : p = <<"cq", i>> /\ cq[i] \in CqEntry("recv", b)
  \/ x = "cq_send" /\ \E i \in DOMAIN cq : p = <<"cq", i>> /\ cq[i] \in CqEntry("send", b)
  \/ x = "shard" /\ \E s \in Shard : \E i \in DOMAIN queue[s] :
                      p = <<"shard", s, i>> /\ queue[s][i] \in ShardEntry(b)
  \/ x = "out" /\ \E i \in DOMAIN out : p = <<"out", i>> /\ out[i] \in OutEntry(b)
  \/ x = "k_recv"  /\ Runs("recv", b) /\ p = <<"kernel", "recv">>
  \/ x = "k_send"  /\ Runs("send", b) /\ p = <<"kernel", "send">>
  \/ x = "k_notif" /\ Runs("notif", b) /\ p = <<"kernel", "notif">>

\* The places are the stages a buffer is in.
LEMMA PlacesAreStages ==
  ASSUME IInv, NEW b \in Buffer
  PROVE  /\ \A p \in Places(b) : \E x \in Stage : At(p, x, b)
         /\ \A x \in Stage : In(x, b) => \E p \in Places(b) : At(p, x, b)
         /\ \A x \in Stage : \A p : At(p, x, b) => In(x, b)
         /\ \A x \in Stage : \A p, q : At(p, x, b) /\ At(q, x, b) => p = q
<1>1. \A i \in DOMAIN sq : /\ sq[i].op \in {"recv", "send"}
                           /\ \A p : sq[i] \in SqEntry(p, b) <=> sq[i].op = p /\ sq[i].idx = b
  <2>1. sq \in Seq(Sqe)
    BY DEF IInv, TypeOK
  <2> TAKE i \in DOMAIN sq
  <2>2. sq[i] \in Sqe
    BY <2>1, Elements
  <2> QED
    BY <2>2, Entries
<1>2. \A i \in DOMAIN cq :
         /\ Op(cq[i]) \in {"recv", "send"}
         /\ \A p \in {"recv", "send"} : cq[i] \in CqEntry(p, b) <=>
               Op(cq[i]) = p /\ Idx(cq[i]) = b /\ ~cq[i].more
  <2>1. cq \in Seq(Cqe)
    BY DEF IInv, TypeOK
  <2> TAKE i \in DOMAIN cq
  <2>2. cq[i] \in Cqe
    BY <2>1, Elements
  <2> QED
    BY <2>2, Completion
<1>3. \A s \in Shard : \A i \in DOMAIN queue[s] :
         queue[s][i] \in ShardEntry(b) <=> queue[s][i] \in Packet /\ queue[s][i].buf_idx = b
  BY DEF ShardEntry
<1>4. \A i \in DOMAIN out : out[i] \in OutEntry(b) <=> out[i].idx = b
  <2>1. out \in Seq(OutElem)
    BY DEF IInv, TypeOK, OutElem
  <2> TAKE i \in DOMAIN out
  <2>2. out[i] \in OutElem
    BY <2>1, Elements
  <2> QED
    BY <2>2, Entries
<1>5. \A e \in inflight : e.op \in {"recv", "send", "notif"}
  BY KernelHas
<1>6. \A p : p \in Places(b) <=>
         \/ \E i \in DOMAIN sq : p = <<"sq", i>> /\ sq[i].idx = b
         \/ \E e \in inflight : p = <<"kernel", e.op>> /\ e.idx = b
         \/ \E i \in DOMAIN cq : p = <<"cq", i>> /\ Idx(cq[i]) = b /\ ~cq[i].more
         \/ \E i \in DOMAIN out : p = <<"out", i>> /\ out[i].idx = b
         \/ \E s \in Shard : \E i \in DOMAIN queue[s] :
               p = <<"shard", s, i>> /\ queue[s][i] \in Packet /\ queue[s][i].buf_idx = b
  BY DEF Places
<1>7. ASSUME NEW p \in Places(b) PROVE \E x \in Stage : At(p, x, b)
  <2>1. ASSUME NEW i \in DOMAIN sq, p = <<"sq", i>>, sq[i].idx = b
        PROVE  At(p, "sq_recv", b) \/ At(p, "sq_send", b)
    BY <1>1, <2>1 DEF At
  <2>2. ASSUME NEW e \in inflight, p = <<"kernel", e.op>>, e.idx = b
        PROVE  At(p, "k_recv", b) \/ At(p, "k_send", b) \/ At(p, "k_notif", b)
    BY <1>5, <2>2 DEF At, Runs
  <2>3. ASSUME NEW i \in DOMAIN cq, p = <<"cq", i>>, Idx(cq[i]) = b, ~cq[i].more
        PROVE  At(p, "cq_recv", b) \/ At(p, "cq_send", b)
    <3>1. cq[i] \in CqEntry("recv", b) \/ cq[i] \in CqEntry("send", b)
      BY <1>2, <2>3
    <3> QED
      BY <2>3, <3>1 DEF At
  <2>4. ASSUME NEW s \in Shard, NEW i \in DOMAIN queue[s], p = <<"shard", s, i>>,
               queue[s][i] \in Packet, queue[s][i].buf_idx = b
        PROVE  At(p, "shard", b)
    BY <1>3, <2>4 DEF At
  <2>5. ASSUME NEW i \in DOMAIN out, p = <<"out", i>>, out[i].idx = b
        PROVE  At(p, "out", b)
    BY <1>4, <2>5 DEF At
  <2> QED
    BY <1>6, <2>1, <2>2, <2>3, <2>4, <2>5 DEF Stage
<1>8. ASSUME NEW x \in Stage, In(x, b) PROVE \E p \in Places(b) : At(p, x, b)
  <2>1. \E p : At(p, x, b)
    BY <1>8 DEF In, At, Has, Queued
  <2>2. \A p : At(p, x, b) => p \in Places(b)
    <3> TAKE p
    <3>1. \A i \in DOMAIN sq : \A o : sq[i] \in SqEntry(o, b) => sq[i].idx = b
      BY <1>1
    <3>2. \A i \in DOMAIN cq, o \in {"recv", "send"} : cq[i] \in CqEntry(o, b) =>
             Idx(cq[i]) = b /\ ~cq[i].more
      BY <1>2
    <3>3. \A o : Runs(o, b) => \E e \in inflight : e.op = o /\ e.idx = b
      BY DEF Runs
    <3> QED
      BY <1>3, <1>4, <1>6, <3>1, <3>2, <3>3 DEF At
  <2> QED
    BY <2>1, <2>2
<1>9. ASSUME NEW x \in Stage, NEW p, At(p, x, b) PROVE In(x, b)
  BY <1>9 DEF In, At, Has, Queued
<1>10. ASSUME NEW x \in Stage, NEW p, NEW q, At(p, x, b), At(q, x, b) PROVE p = q
  <2>1. \A op \in {"recv", "send"} : One(sq, SqEntry(op, b)) /\ One(cq, CqEntry(op, b))
    BY DEF IInv, Single, SingleRing
  <2>2. CASE x # "shard"
    <3>1. One(out, OutEntry(b))
      BY DEF IInv, Single, SingleOut
    <3> QED
      BY <1>10, <2>1, <2>2, <3>1 DEF At, One
  <2>3. CASE x = "shard"
    <3>1. PICK s \in Shard : \E i \in DOMAIN queue[s] :
             p = <<"shard", s, i>> /\ queue[s][i] \in ShardEntry(b)
      BY <1>10, <2>3 DEF At
    <3>2. PICK t \in Shard : \E i \in DOMAIN queue[t] :
             q = <<"shard", t, i>> /\ queue[t][i] \in ShardEntry(b)
      BY <1>10, <2>3 DEF At
    <3>3. SingleShard
      BY DEF IInv, Single
    <3>4. s = t
      BY <3>1, <3>2, <3>3 DEF SingleShard, Has
    <3>5. One(queue[s], ShardEntry(b))
      BY <3>3 DEF SingleShard
    <3> QED
      BY <3>1, <3>2, <3>4, <3>5 DEF One
  <2> QED
    BY <2>2, <2>3
<1> QED
  BY <1>7, <1>8, <1>9, <1>10

\* A buffer is in exactly one place until it falls out of circulation, and in
\* none afterwards, for every size of the pool, of the ring and of the queues.
THEOREM BuffersAreOwned == Spec => []OneOwner
<1>1. IInv => OneOwner
  <2> SUFFICES ASSUME IInv, NEW b \in Buffer
               PROVE  Cardinality(Places(b)) = IF lost[b] = "no" THEN 1 ELSE 0
    BY DEF OneOwner
  <2>1. OwnedOnce(b)
    BY DEF IInv, Owned
  <2>2. \A p, q \in Places(b) : p = q
    <3> SUFFICES ASSUME NEW p \in Places(b), NEW q \in Places(b) PROVE p = q
      OBVIOUS
    <3>1. PICK x \in Stage : At(p, x, b)
      BY PlacesAreStages
    <3>2. PICK y \in Stage : At(q, y, b)
      BY PlacesAreStages
    <3>3. x = y
      BY <2>1, <3>1, <3>2, PlacesAreStages DEF OwnedOnce
    <3> QED
      BY <3>1, <3>2, <3>3, PlacesAreStages
  <2>3. Places(b) = {} <=> ~\E x \in Stage : In(x, b)
    <3>1. (\E x \in Stage : In(x, b)) => Places(b) # {}
      BY PlacesAreStages
    <3>2. Places(b) # {} => \E x \in Stage : In(x, b)
      BY PlacesAreStages
    <3> QED
      BY <3>1, <3>2
  <2>4. Cardinality(Places(b)) = IF Places(b) = {} THEN 0 ELSE 1
    BY <2>2, AtMostOne
  <2> QED
    BY <2>1, <2>3, <2>4 DEF OwnedOnce
<1> QED
  BY <1>1, Invariance, PTL
=============================================================================
