--------------------------- MODULE FirstImplProof ---------------------------
(***************************************************************************)
(* Proofs about FirstImpl, for every size of the pool up to 2^16, every    *)
(* batch size and every set of clients.                                    *)
(***************************************************************************)
EXTENDS FirstImpl, RelayLemmas

(***************************************************************************)
(* Where a buffer is.                                                      *)
(***************************************************************************)

\* The elements of the queues that carry buffer b.  A completion that announces
\* another one (more) carries none.
SqEntry(op, b) == {[op |-> op, idx |-> b]}
CqEntry(op, b) == {[user_data |-> EncodeToken(op, b), more |-> FALSE]}
VecEntry(op, b) == {[op |-> op, idx |-> b, more |-> FALSE]}
ShardEntry(b) == {p \in [buf_idx : Buffer, src : Addr] : p.buf_idx = b}
OutEntry(b) == {x \in [dst : Addr, idx : Buffer] : x.idx = b}

\* The kernel works on operation op of buffer b.
Runs(op, b) == \E e \in inflight : e.op = op /\ e.idx = b

\* The stages of a buffer's round trip.
Stage == {"sq_recv", "k_recv", "cq_recv", "vec_recv", "shard", "out",
          "sq_send", "k_send", "k_notif", "cq_send", "vec_send"}

In(st, b) ==
  \/ st = "sq_recv"  /\ Has(sq, SqEntry("recv", b))
  \/ st = "k_recv"   /\ Runs("recv", b)
  \/ st = "cq_recv"  /\ Has(cq, CqEntry("recv", b))
  \/ st = "vec_recv" /\ Has(completed, VecEntry("recv", b))
  \/ st = "shard"    /\ Has(queue, ShardEntry(b))
  \/ st = "out"      /\ Has(out, OutEntry(b))
  \/ st = "sq_send"  /\ Has(sq, SqEntry("send", b))
  \/ st = "k_send"   /\ Runs("send", b)
  \/ st = "k_notif"  /\ Runs("notif", b)
  \/ st = "cq_send"  /\ Has(cq, CqEntry("send", b))
  \/ st = "vec_send" /\ Has(completed, VecEntry("send", b))

(***************************************************************************)
(* The inductive invariant.                                                *)
(***************************************************************************)

\* Buffer b is in one stage, or lost to a packet without a session.
OwnedOnce(b) ==
  /\ \A x, y \in Stage : In(x, b) /\ In(y, b) => x = y
  /\ lost[b] # "sq_full"
  /\ lost[b] = "no" <=> \E x \in Stage : In(x, b)

Owned == \A b \in Buffer : OwnedOnce(b)

\* In its stage it is there once.
Single ==
  /\ \A b \in Buffer : /\ One(queue, ShardEntry(b)) /\ One(out, OutEntry(b))
                       /\ \A op \in {"recv", "send"} :
                             /\ One(sq, SqEntry(op, b)) /\ One(cq, CqEntry(op, b))
                             /\ One(completed, VecEntry(op, b))
  /\ \A e, f \in inflight : e.idx = f.idx => e = f

\* The head that push() compares with is behind by no more than the pool: the
\* published entries are taken together, the receives posted at the start by
\* the first wait, all others by the submit() right after sync().
RingHasRoom ==
  /\ cached + visible <= PoolSize + Len(sq)
  /\ visible > 0 =>
        visible = Len(sq) /\ \A b \in Buffer : Has(sq, SqEntry("recv", b))
  /\ visible > 0 => \A b \in Buffer : ~Has(sq, SqEntry("send", b))

\* The loop's copy of the completions is worked off before it is filled again;
\* only a send announces another completion.
VecInUse ==
  /\ pc # "panicked"
  /\ pc = "process" <=> completed # <<>>
  /\ \A i \in DOMAIN cq :
        cq[i].more => \E b \in Buffer : cq[i].user_data = EncodeToken("send", b)
  /\ \A i \in DOMAIN completed : completed[i].more => completed[i].op = "send"

\* A packet's marks are set before it is sent.
Marked ==
  \A b \in Buffer :
     /\ In("shard", b) \/ In("out", b) => timestamp[b] = {"recv_cqe", "shard_done"}
     /\ \A x \in {"sq_send", "k_send", "k_notif", "cq_send", "vec_send"} :
           In(x, b) => timestamp[b] = {"recv_cqe", "shard_done", "send_sqe"}

\* Every stage has the address that belongs to the datagram in the buffer,
\* unless an empty datagram has left an earlier one there.
Endpoints == {HostAddr, PeerAddr}

SlotTrue ==
  \A b \in Buffer :
     /\ (In("cq_recv", b) \/ In("vec_recv", b)) /\ slot[b] # NoAddr =>
           memory[b] = slot[b]
     /\ In("sq_send", b) =>
           memory[b] \in Endpoints /\ slot[b] = RouteTo(memory[b])

PacketTrue ==
  \A i \in DOMAIN queue : queue[i].src # NoAddr =>
     memory[queue[i].buf_idx] = queue[i].src

AnswerTrue ==
  \A i \in DOMAIN out :
     /\ memory[out[i].idx] \in Endpoints
     /\ out[i].dst = RouteTo(memory[out[i].idx])

SendTrue ==
  \A e \in inflight : e.op # "recv" =>
     memory[e.idx] \in Endpoints /\ e.dst = RouteTo(memory[e.idx])

Addressed == SlotTrue /\ PacketTrue /\ AnswerTrue /\ SendTrue

IInv ==
  /\ TypeOK /\ Owned /\ Single /\ RingHasRoom /\ VecInUse /\ Marked
  /\ 0 \notin Lens => Addressed

(***************************************************************************)
(* Entries of the queues.                                                  *)
(***************************************************************************)

\* The sizes are numbers, and buffer indices fit into a token.
LEMMA Sizes ==
  /\ PoolSize \in Nat /\ PoolSize > 0 /\ MaxBatch \in Nat /\ MaxBatch > 0
  /\ SqCap = 2 * PoolSize /\ SqCap \in Nat /\ ChanCap = PoolSize
  /\ Buffer \subseteq 0..(IndexRange - 1) /\ Buffer \subseteq Nat
  /\ HostAddr \in Addr /\ PeerAddr \in Addr /\ NoAddr \in Addr
  /\ HostAddr # NoAddr /\ PeerAddr # NoAddr
<1>1. PoolSize \in Nat \ {0} /\ MaxBatch \in Nat \ {0} /\ PoolSize <= IndexRange
  BY FirstAssumption
<1>2. ASSUME NEW n \in Nat, NEW m \in Nat, n <= m
      PROVE  0..(n - 1) \subseteq 0..(m - 1) /\ 0..(n - 1) \subseteq Nat
  BY <1>2
<1>3. /\ HostAddr \in Addr /\ PeerAddr \in Addr /\ NoAddr \in Addr
      /\ HostAddr # NoAddr /\ PeerAddr # NoAddr
  BY FirstAssumption DEF Addr
<1>4. SqCap = 2 * PoolSize /\ SqCap \in Nat /\ ChanCap = PoolSize
  BY <1>1 DEF SqCap, ChanCap
<1>5. PoolSize > 0 /\ MaxBatch > 0
  BY <1>1
<1>6. Buffer \subseteq 0..(IndexRange - 1) /\ Buffer \subseteq Nat
  <2>1. IndexRange \in Nat
    BY DEF IndexRange
  <2> QED
    BY <1>1, <1>2, <2>1 DEF Buffer
<1> QED
  BY <1>1, <1>3, <1>4, <1>5, <1>6

\* A token belongs to one operation and one buffer.
LEMMA TokenUnique ==
  ASSUME NEW o \in {"recv", "send"}, NEW p \in {"recv", "send"},
         NEW b \in Buffer, NEW c \in Buffer
  PROVE  /\ EncodeToken(o, b) = EncodeToken(p, c) => o = p /\ b = c
         /\ DecodeOp(EncodeToken(o, b)) = o /\ DecodeIdx(EncodeToken(o, b)) = b
BY TokenDecodes, Sizes

\* Which entries carry which buffer.
LEMMA Entries ==
  /\ \A o, p, b, c : [op |-> o, idx |-> b] \in SqEntry(p, c) <=> o = p /\ b = c
  /\ \A o, p, b, c, m :
        [op |-> o, idx |-> b, more |-> m] \in VecEntry(p, c) <=>
           o = p /\ b = c /\ m = FALSE
  /\ \A x \in Done : \A p, c :
        x \in VecEntry(p, c) <=> x.op = p /\ x.idx = c /\ ~x.more
  /\ \A o, p \in {"recv", "send"}, b, c \in Buffer, m \in BOOLEAN :
        [user_data |-> EncodeToken(o, b), more |-> m] \in CqEntry(p, c) <=>
           o = p /\ b = c /\ m = FALSE
  /\ \A x \in [buf_idx : Buffer, src : Addr] : \A b : x \in ShardEntry(b) <=> x.buf_idx = b
  /\ \A x \in [dst : Addr, idx : Buffer] : \A b : x \in OutEntry(b) <=> x.idx = b
<1>1. \A o, p, b, c : [op |-> o, idx |-> b] \in SqEntry(p, c) <=> o = p /\ b = c
  BY DEF SqEntry
<1>2. \A o, p, b, c, m :
        [op |-> o, idx |-> b, more |-> m] \in VecEntry(p, c) <=>
           o = p /\ b = c /\ m = FALSE
  BY DEF VecEntry
<1>3. \A x \in Done : \A p, c :
        x \in VecEntry(p, c) <=> x.op = p /\ x.idx = c /\ ~x.more
  <2> SUFFICES ASSUME NEW x \in Done, NEW p, NEW c
               PROVE  x \in VecEntry(p, c) <=> x.op = p /\ x.idx = c /\ ~x.more
    OBVIOUS
  <2>1. x.more \in BOOLEAN /\ x = [op |-> x.op, idx |-> x.idx, more |-> x.more]
    BY DEF Done
  <2>2. x \in VecEntry(p, c) <=> x.op = p /\ x.idx = c /\ x.more = FALSE
    BY <1>2, <2>1
  <2> QED
    BY <2>1, <2>2
<1>4. ASSUME NEW o \in {"recv", "send"}, NEW p \in {"recv", "send"},
             NEW b \in Buffer, NEW c \in Buffer, NEW m \in BOOLEAN
      PROVE  [user_data |-> EncodeToken(o, b), more |-> m] \in CqEntry(p, c) <=>
               o = p /\ b = c /\ m = FALSE
  <2>1. [user_data |-> EncodeToken(o, b), more |-> m] \in CqEntry(p, c) <=>
           EncodeToken(o, b) = EncodeToken(p, c) /\ m = FALSE
    BY DEF CqEntry
  <2> QED
    BY <2>1, TokenUnique
<1>5. /\ \A x \in [buf_idx : Buffer, src : Addr] : \A b : x \in ShardEntry(b) <=> x.buf_idx = b
      /\ \A x \in [dst : Addr, idx : Buffer] : \A b : x \in OutEntry(b) <=> x.idx = b
  BY DEF ShardEntry, OutEntry
<1> QED
  BY <1>1, <1>2, <1>3, <1>4, <1>5

(***************************************************************************)
(* Which stage each action takes a buffer to.                              *)
(***************************************************************************)

\* Buffer b goes from one stage to another, everything else stays.
Moves(b, from, to) ==
  /\ In(from, b)
  /\ \A x \in Stage, c \in Buffer :
        In(x, c)' <=> (In(x, c) /\ ~(x = from /\ c = b)) \/ (x = to /\ c = b)

\* No buffer moves.
Stays == \A x \in Stage, c \in Buffer : In(x, c)' <=> In(x, c)

\* A move keeps the buffers in one stage each.
LEMMA MoveOwned ==
  ASSUME Owned, NEW b \in Buffer, NEW x \in Stage, NEW y \in Stage,
         Moves(b, x, y), lost' = lost
  PROVE  Owned'
<1> SUFFICES ASSUME NEW c \in Buffer PROVE OwnedOnce(c)'
  BY DEF Owned
<1>1. OwnedOnce(c)
  BY DEF Owned
<1>2. CASE c = b
  <2>1. \A z \in Stage : In(z, c)' <=> z = y
    BY <1>1, <1>2 DEF OwnedOnce, Moves
  <2> QED
    BY <1>1, <1>2, <2>1 DEF OwnedOnce, Moves
<1>3. CASE c # b
  BY <1>1, <1>3 DEF OwnedOnce, Moves
<1> QED
  BY <1>2, <1>3

\* Where a buffer is after a move.
LEMMA MoveShape ==
  ASSUME Owned, NEW b \in Buffer, NEW x \in Stage, NEW y \in Stage, Moves(b, x, y)
  PROVE  /\ \A z \in Stage : In(z, b)' <=> z = y
         /\ \A z \in Stage, c \in Buffer : c # b => (In(z, c)' <=> In(z, c))
BY DEF Owned, OwnedOnce, Moves

\* The stages with marks.
LEMMA MoveMarked ==
  ASSUME Owned, Marked, NEW b \in Buffer, NEW x \in Stage, NEW y \in Stage,
         Moves(b, x, y),
         \A c \in Buffer : c # b => timestamp'[c] = timestamp[c],
         y \in {"shard", "out"} => timestamp'[b] = {"recv_cqe", "shard_done"},
         y \in {"sq_send", "k_send", "k_notif", "cq_send", "vec_send"} =>
            timestamp'[b] = {"recv_cqe", "shard_done", "send_sqe"}
  PROVE  Marked'
<1> SUFFICES ASSUME NEW c \in Buffer
             PROVE  /\ In("shard", c)' \/ In("out", c)' =>
                         timestamp'[c] = {"recv_cqe", "shard_done"}
                    /\ \A z \in {"sq_send", "k_send", "k_notif", "cq_send", "vec_send"} :
                         In(z, c)' => timestamp'[c] = {"recv_cqe", "shard_done", "send_sqe"}
  BY DEF Marked
<1>1. CASE c = b
  BY <1>1, MoveShape DEF Stage
<1>2. CASE c # b
  BY <1>2, MoveShape DEF Stage, Marked
<1> QED
  BY <1>1, <1>2

\* The stages that depend on the slot.
LEMMA MoveSlot ==
  ASSUME Owned, SlotTrue, NEW b \in Buffer, NEW x \in Stage, NEW y \in Stage,
         Moves(b, x, y),
         \A c \in Buffer : c # b => slot'[c] = slot[c] /\ memory'[c] = memory[c],
         y \in {"cq_recv", "vec_recv"} /\ slot'[b] # NoAddr => memory'[b] = slot'[b],
         y = "sq_send" => memory'[b] \in Endpoints /\ slot'[b] = RouteTo(memory'[b])
  PROVE  SlotTrue'
<1> SUFFICES ASSUME NEW c \in Buffer
             PROVE  /\ (In("cq_recv", c)' \/ In("vec_recv", c)') /\ slot'[c] # NoAddr =>
                         memory'[c] = slot'[c]
                    /\ In("sq_send", c)' =>
                         memory'[c] \in Endpoints /\ slot'[c] = RouteTo(memory'[c])
  BY DEF SlotTrue, Endpoints, RouteTo
<1>1. CASE c = b
  BY <1>1, MoveShape DEF Stage
<1>2. CASE c # b
  BY <1>2, MoveShape DEF Stage, SlotTrue
<1> QED
  BY <1>1, <1>2

LEMMA StayOwned ==
  ASSUME Owned, Stays, lost' = lost
  PROVE  Owned'
BY DEF Owned, OwnedOnce, Stays

\* A buffer taken out of a stage is in none.
LEMMA Elsewhere ==
  ASSUME Owned, NEW b \in Buffer, NEW x \in Stage, In(x, b)
  PROVE  \A y \in Stage \ {x} : ~In(y, b)
BY DEF Owned, OwnedOnce

\* The ring has no more entries than there are buffers, and fewer when a buffer
\* is elsewhere.
LEMMA RingFits ==
  ASSUME IInv
  PROVE  /\ Len(sq) <= PoolSize
         /\ \A b \in Buffer : ~In("sq_recv", b) /\ ~In("sq_send", b) => Len(sq) < PoolSize
<1> USE DEF IInv
<1>1. /\ sq \in Seq([op : {"recv", "send"}, idx : Buffer])
      /\ Len(sq) \in Nat /\ DOMAIN sq = 1..Len(sq)
  BY DEF TypeOK
<1> DEFINE f == [i \in 1..Len(sq) |-> sq[i].idx]
<1>2. \A i \in 1..Len(sq) : sq[i] \in [op : {"recv", "send"}, idx : Buffer]
  BY <1>1, Elements
<1>3. f \in [1..Len(sq) -> 0..(PoolSize - 1)]
  BY <1>2 DEF Buffer
<1>4. \A i \in 1..Len(sq) : \E o \in {"recv", "send"}, c \in Buffer :
         sq[i] = [op |-> o, idx |-> c]
  <2> TAKE i \in 1..Len(sq)
  <2>1. /\ sq[i].op \in {"recv", "send"} /\ sq[i].idx \in Buffer
        /\ sq[i] = [op |-> sq[i].op, idx |-> sq[i].idx]
    BY <1>2
  <2> QED
    BY <2>1
<1>5. ASSUME NEW b \in Buffer, ~In("sq_recv", b), ~In("sq_send", b), NEW i \in 1..Len(sq)
      PROVE  f[i] # b
  <2>1. PICK o \in {"recv", "send"}, c \in Buffer : sq[i] = [op |-> o, idx |-> c]
    BY <1>4
  <2>2. sq[i] \in SqEntry(o, c) /\ f[i] = c
    BY <2>1, Entries
  <2>3. ~Has(sq, SqEntry("recv", b)) /\ ~Has(sq, SqEntry("send", b))
    BY <1>5 DEF In
  <2> QED
    BY <1>1, <2>2, <2>3 DEF Has
<1>6. ASSUME NEW i \in 1..Len(sq), NEW j \in 1..Len(sq), f[i] = f[j] PROVE i = j
  <2>1. PICK o \in {"recv", "send"}, c \in Buffer : sq[i] = [op |-> o, idx |-> c]
    BY <1>4
  <2>2. PICK p \in {"recv", "send"}, d \in Buffer : sq[j] = [op |-> p, idx |-> d]
    BY <1>4
  <2>3. c = d /\ sq[i] \in SqEntry(o, c) /\ sq[j] \in SqEntry(p, c)
    BY <1>6, <2>1, <2>2, Entries
  <2>4. Has(sq, SqEntry(o, c)) /\ Has(sq, SqEntry(p, c))
    BY <1>1, <2>3 DEF Has
  <2>5. o = p
    <3>1. o # p => In("sq_recv", c) /\ In("sq_send", c)
      BY <2>4 DEF In
    <3> QED
      BY <3>1 DEF Owned, OwnedOnce, Stage
  <2> QED
    BY <1>1, <2>3, <2>5 DEF Single, One
<1> HIDE DEF f
<1> DEFINE n == Len(sq)
<1> HIDE DEF n
<1>7. /\ n <= PoolSize
      /\ \A c \in 0..(PoolSize - 1) : (\A i \in 1..n : f[i] # c) => n < PoolSize
  <2>1. \A i, j \in 1..Len(sq) : f[i] = f[j] => i = j
    BY <1>6
  <2> QED
    BY <1>1, <1>3, <2>1, Fits, Sizes DEF n
<1> QED
  BY <1>5, <1>7 DEF n, Buffer

\* push() finds room for a buffer that is not in the ring.
LEMMA Room ==
  ASSUME IInv, NEW b \in Buffer, ~In("sq_recv", b), ~In("sq_send", b)
  PROVE  cached < SqCap /\ Len(sq) < PoolSize /\ visible = 0
<1>1. /\ visible \in 0..Len(sq) /\ cached \in Len(sq)..SqCap /\ Len(sq) \in Nat
      /\ cached + visible <= PoolSize + Len(sq)
  BY DEF IInv, TypeOK, RingHasRoom
<1>2. visible = 0
  <2>1. ~(visible > 0)
    BY DEF IInv, RingHasRoom, In
  <2> QED
    BY <1>1, <2>1
<1>3. Len(sq) < PoolSize
  BY RingFits
<1> QED
  BY <1>1, <1>2, <1>3, Sizes

(***************************************************************************)
(* The loop.                                                               *)
(***************************************************************************)

\* The elements of the queues.
SqElem    == [op : {"recv", "send"}, idx : Buffer]
ShardElem == [buf_idx : Buffer, src : Addr]
OutElem   == [dst : Addr, idx : Buffer]

\* push() takes the entry of a buffer that is not in the ring.
LEMMA PushMoves ==
  ASSUME IInv, NEW b \in Buffer, NEW op \in {"recv", "send"},
         ~In("sq_recv", b), ~In("sq_send", b), Push(op, b)
  PROVE  /\ sq' \in Seq(SqElem) /\ Len(sq') = Len(sq) + 1
         /\ cached' = cached + 1 /\ cached' \in Len(sq')..SqCap
         /\ visible = 0 /\ cached' <= PoolSize + Len(sq')
         /\ lost' = lost
         /\ \A p \in {"recv", "send"}, c \in Buffer :
               /\ Has(sq', SqEntry(p, c)) <=>
                     Has(sq, SqEntry(p, c)) \/ (p = op /\ c = b)
               /\ One(sq', SqEntry(p, c))
<1>1. sq \in Seq(SqElem) /\ cached \in Len(sq)..SqCap /\ Len(sq) \in Nat
  BY Elements DEF IInv, TypeOK, SqElem
<1>2. cached < SqCap /\ Len(sq) < PoolSize /\ visible = 0
  BY Room
<1> DEFINE e == [op |-> op, idx |-> b]
<1>3. e \in SqElem /\ \A p, c : e \in SqEntry(p, c) <=> op = p /\ b = c
  BY Entries DEF SqElem
<1>4. sq' = Append(sq, e) /\ cached' = cached + 1 /\ lost' = lost
  BY <1>2 DEF Push
<1> HIDE DEF e
<1>5. /\ sq' \in Seq(SqElem) /\ Len(sq') = Len(sq) + 1
      /\ \A T : Has(sq', T) <=> Has(sq, T) \/ e \in T
      /\ \A T : One(sq, T) /\ ~(Has(sq, T) /\ e \in T) => One(sq', T)
  BY <1>1, <1>3, <1>4, HasAppend
<1>6. cached' \in Len(sq')..SqCap /\ cached' <= PoolSize + Len(sq')
  <2>1. cached + visible <= PoolSize + Len(sq)
    BY DEF IInv, RingHasRoom
  <2> QED
    BY <1>1, <1>2, <1>4, <1>5, <2>1, Sizes
<1>7. ~Has(sq, SqEntry("recv", b)) /\ ~Has(sq, SqEntry("send", b))
  BY DEF In
<1>8. ASSUME NEW p \in {"recv", "send"}, NEW c \in Buffer
      PROVE  /\ Has(sq', SqEntry(p, c)) <=>
                    Has(sq, SqEntry(p, c)) \/ (p = op /\ c = b)
             /\ One(sq', SqEntry(p, c))
  <2>1. One(sq, SqEntry(p, c))
    BY DEF IInv, Single
  <2> QED
    BY <1>3, <1>5, <1>7, <2>1
<1> QED
  BY <1>2, <1>4, <1>5, <1>6, <1>8

LEMMA SendMsgMoves ==
  ASSUME IInv, SendMsg
  PROVE  LET b == Head(out).idx
         IN  /\ Head(out) \in OutElem /\ b \in Buffer
             /\ out' \in Seq(OutElem) /\ Len(out') = Len(out) - 1
             /\ Push("send", b)
             /\ Moves(b, "out", "sq_send") /\ Single'
<1> DEFINE b == Head(out).idx
<1>1. out \in Seq(OutElem) /\ out # <<>> /\ out' = Tail(out)
  BY DEF IInv, TypeOK, OutElem, SendMsg
<1>2. /\ Head(out) \in OutElem
      /\ out' \in Seq(OutElem) /\ Len(out') = Len(out) - 1
      /\ \A T : Has(out, T) <=> Has(out', T) \/ Head(out) \in T
      /\ \A T : One(out, T) => One(out', T) /\ ~(Has(out', T) /\ Head(out) \in T)
  BY <1>1, HasTail
<1>3. b \in Buffer /\ \A c : Head(out) \in OutEntry(c) <=> b = c
  BY <1>2, Entries DEF OutElem
<1>4. /\ Push("send", b)
      /\ UNCHANGED <<queue, inflight, cq, completed>>
  BY DEF SendMsg, PostSend
<1> HIDE DEF b
<1>5. \A c \in Buffer :
         /\ Has(out', OutEntry(c)) <=> Has(out, OutEntry(c)) /\ c # b
         /\ One(out', OutEntry(c))
  BY <1>2, <1>3 DEF IInv, Single
<1>6. In("out", b)
  BY <1>2, <1>3 DEF In
<1>7. ~In("sq_recv", b) /\ ~In("sq_send", b)
  BY <1>3, <1>6, Elsewhere DEF IInv, Stage
<1>8. \A p \in {"recv", "send"}, c \in Buffer :
         /\ Has(sq', SqEntry(p, c)) <=>
               Has(sq, SqEntry(p, c)) \/ (p = "send" /\ c = b)
         /\ One(sq', SqEntry(p, c))
  BY <1>3, <1>4, <1>7, PushMoves
<1>9. Moves(b, "out", "sq_send")
  <2> SUFFICES ASSUME NEW x \in Stage, NEW c \in Buffer
               PROVE  In(x, c)' <=> (In(x, c) /\ ~(x = "out" /\ c = b))
                                      \/ (x = "sq_send" /\ c = b)
    BY <1>6 DEF Moves
  <2> QED
    BY <1>4, <1>5, <1>8 DEF In, Stage, Runs
<1>10. Single'
  BY <1>4, <1>5, <1>8 DEF IInv, Single
<1> QED
  BY <1>2, <1>3, <1>4, <1>9, <1>10 DEF b

\* The loop goes to the next completion.
LEMMA TakeCompleted ==
  ASSUME IInv, NextCompleted
  PROVE  LET h == Head(completed)
         IN  /\ h \in Done /\ (h.op = "recv" => ~h.more)
             /\ completed' \in Seq(Done)
             /\ \A p, c : Has(completed, VecEntry(p, c)) <=>
                   Has(completed', VecEntry(p, c)) \/ (p = h.op /\ c = h.idx /\ ~h.more)
             /\ \A p \in {"recv", "send"}, c \in Buffer :
                   /\ One(completed', VecEntry(p, c))
                   /\ ~(Has(completed', VecEntry(p, c))
                         /\ p = h.op /\ c = h.idx /\ ~h.more)
             /\ pc' # "panicked" /\ (pc' = "process" <=> completed' # <<>>)
             /\ \A i \in DOMAIN completed' :
                   completed'[i].more => completed'[i].op = "send"
<1> DEFINE h == Head(completed)
<1>1. completed \in Seq(Done) /\ completed # <<>> /\ completed' = Tail(completed)
  BY DEF IInv, TypeOK, VecInUse, NextCompleted
<1>2. /\ h \in Done /\ h = completed[1] /\ 1 \in DOMAIN completed
      /\ completed' \in Seq(Done) /\ Len(completed') = Len(completed) - 1
      /\ Len(completed) > 0
      /\ \A T : Has(completed, T) <=> Has(completed', T) \/ h \in T
      /\ \A T : One(completed, T) => One(completed', T) /\ ~(Has(completed', T) /\ h \in T)
      /\ \A i \in DOMAIN completed' :
            i + 1 \in DOMAIN completed /\ completed'[i] = completed[i + 1]
  BY <1>1, HasTail
<1>3. \A p, c : h \in VecEntry(p, c) <=> h.op = p /\ h.idx = c /\ ~h.more
  BY <1>2, Entries
<1>4. h.op = "recv" => ~h.more
  BY <1>2 DEF IInv, VecInUse
<1>5. pc' # "panicked" /\ (pc' = "process" <=> completed' # <<>>)
  <2>1. completed' # <<>> <=> Len(completed') # 0
    BY <1>2
  <2>2. Len(completed) \in Nat
    BY <1>1
  <2>3. completed' # <<>> <=> Len(completed) # 1
    BY <1>2, <2>1, <2>2
  <2> QED
    BY <2>3 DEF NextCompleted
<1>6. \A i \in DOMAIN completed' : completed'[i].more => completed'[i].op = "send"
  BY <1>2 DEF IInv, VecInUse
<1> HIDE DEF h
<1>7. \A p, c : Has(completed, VecEntry(p, c)) <=>
         Has(completed', VecEntry(p, c)) \/ (p = h.op /\ c = h.idx /\ ~h.more)
  BY <1>2, <1>3
<1>8. \A p \in {"recv", "send"}, c \in Buffer :
         /\ One(completed', VecEntry(p, c))
         /\ ~(Has(completed', VecEntry(p, c)) /\ p = h.op /\ c = h.idx /\ ~h.more)
  BY <1>2, <1>3 DEF IInv, Single
<1> QED
  BY <1>2, <1>4, <1>5, <1>6, <1>7, <1>8 DEF h

LEMMA HandleRecvMoves ==
  ASSUME IInv, HandleRecv
  PROVE  LET b == Head(completed).idx
         IN  /\ b \in Buffer
             /\ queue' \in Seq(ShardElem) /\ Len(queue') = Len(queue) + 1
             /\ Moves(b, "vec_recv", "shard") /\ Single'
<1> DEFINE b == Head(completed).idx
           e == [buf_idx |-> b, src |-> slot[b]]
<1>1. /\ NextCompleted /\ queue' = Append(queue, e) /\ Head(completed).op = "recv"
      /\ UNCHANGED <<out, sq, inflight, cq>>
  BY DEF HandleRecv, Route, ringVars
<1>2. b \in Buffer /\ ~Head(completed).more
  BY <1>1, TakeCompleted DEF Done
<1>3. e \in ShardElem /\ \A c : e \in ShardEntry(c) <=> b = c
  <2>1. slot[b] \in Addr
    BY <1>2 DEF IInv, TypeOK
  <2> QED
    BY <1>2, <2>1, Entries DEF ShardElem
<1> HIDE DEF b, e
<1>4. queue \in Seq(ShardElem)
  BY DEF IInv, TypeOK, ShardElem
<1>5. /\ queue' \in Seq(ShardElem) /\ Len(queue') = Len(queue) + 1
      /\ \A T : Has(queue', T) <=> Has(queue, T) \/ e \in T
      /\ \A T : One(queue, T) /\ ~(Has(queue, T) /\ e \in T) => One(queue', T)
  BY <1>1, <1>3, <1>4, HasAppend
<1>6. \A p \in {"recv", "send"}, c \in Buffer :
         /\ Has(completed', VecEntry(p, c)) <=>
               Has(completed, VecEntry(p, c)) /\ ~(p = "recv" /\ c = b)
         /\ One(completed', VecEntry(p, c))
  BY <1>1, <1>2, TakeCompleted DEF b
<1>7. In("vec_recv", b)
  BY <1>1, <1>2, TakeCompleted DEF In, b
<1>8. ~In("shard", b)
  BY <1>2, <1>7, Elsewhere DEF IInv, Stage
<1>9. \A c \in Buffer :
         /\ Has(queue', ShardEntry(c)) <=> Has(queue, ShardEntry(c)) \/ c = b
         /\ One(queue', ShardEntry(c))
  BY <1>3, <1>5, <1>8 DEF IInv, Single, In
<1>10. Moves(b, "vec_recv", "shard")
  <2> SUFFICES ASSUME NEW x \in Stage, NEW c \in Buffer
               PROVE  In(x, c)' <=> (In(x, c) /\ ~(x = "vec_recv" /\ c = b))
                                      \/ (x = "shard" /\ c = b)
    BY <1>7 DEF Moves
  <2> QED
    BY <1>1, <1>6, <1>9 DEF In, Stage, Runs
<1>11. Single'
  BY <1>1, <1>6, <1>9 DEF IInv, Single
<1> QED
  BY <1>2, <1>5, <1>10, <1>11 DEF b

LEMMA HandleSendMoreStays ==
  ASSUME IInv, HandleSendMore
  PROVE  Stays /\ Single'
<1>1. /\ NextCompleted /\ Head(completed).more
      /\ UNCHANGED <<queue, out, sq, inflight, cq>>
  BY DEF HandleSendMore, ringVars
<1>2. \A p \in {"recv", "send"}, c \in Buffer :
         /\ Has(completed', VecEntry(p, c)) <=> Has(completed, VecEntry(p, c))
         /\ One(completed', VecEntry(p, c))
  BY <1>1, TakeCompleted
<1>3. Stays
  BY <1>1, <1>2 DEF Stays, In, Stage, Runs
<1> QED
  BY <1>1, <1>2, <1>3 DEF IInv, Single

\* The marks are all there when the last completion of a send is processed.
LEMMA HandleSendLastMoves ==
  ASSUME IInv, HandleSendLast
  PROVE  LET b == Head(completed).idx
         IN  /\ b \in Buffer /\ NextCompleted /\ Push("recv", b)
             /\ Moves(b, "vec_send", "sq_recv") /\ Single'
<1> DEFINE b == Head(completed).idx
<1>1. /\ pc = "process" /\ Head(completed).op = "send" /\ ~Head(completed).more
      /\ Push("recv", b)
      /\ UNCHANGED <<queue, out, inflight, cq>>
  BY DEF HandleSendLast, PostRecv
<1>2. completed \in Seq(Done) /\ completed # <<>>
  BY <1>1 DEF IInv, TypeOK, VecInUse
<1>3. /\ Head(completed) \in Done
      /\ \A T : Has(completed, T) <=> Has(Tail(completed), T) \/ Head(completed) \in T
  BY <1>2, HasTail
<1>4. b \in Buffer /\ Head(completed) \in VecEntry("send", b)
  BY <1>1, <1>3, Entries DEF Done
<1>5. In("vec_send", b)
  BY <1>3, <1>4 DEF In
<1>6. NextCompleted
  <2>1. timestamp[b] = {"recv_cqe", "shard_done", "send_sqe"}
    BY <1>4, <1>5 DEF IInv, Marked
  <2> QED
    BY <2>1 DEF HandleSendLast
<1> HIDE DEF b
<1>7. \A p \in {"recv", "send"}, c \in Buffer :
         /\ Has(completed', VecEntry(p, c)) <=>
               Has(completed, VecEntry(p, c)) /\ ~(p = "send" /\ c = b)
         /\ One(completed', VecEntry(p, c))
  BY <1>1, <1>6, TakeCompleted DEF b
<1>8. ~In("sq_recv", b) /\ ~In("sq_send", b)
  BY <1>4, <1>5, Elsewhere DEF IInv, Stage
<1>9. \A p \in {"recv", "send"}, c \in Buffer :
         /\ Has(sq', SqEntry(p, c)) <=>
               Has(sq, SqEntry(p, c)) \/ (p = "recv" /\ c = b)
         /\ One(sq', SqEntry(p, c))
  BY <1>1, <1>4, <1>8, PushMoves
<1>10. Moves(b, "vec_send", "sq_recv")
  <2> SUFFICES ASSUME NEW x \in Stage, NEW c \in Buffer
               PROVE  In(x, c)' <=> (In(x, c) /\ ~(x = "vec_send" /\ c = b))
                                      \/ (x = "sq_recv" /\ c = b)
    BY <1>5 DEF Moves
  <2> QED
    BY <1>1, <1>7, <1>9 DEF In, Stage, Runs
<1>11. Single'
  BY <1>1, <1>7, <1>9 DEF IInv, Single
<1> QED
  BY <1>1, <1>4, <1>6, <1>10, <1>11 DEF b

\* The kernel takes the whole ring.
Handed(x, c) ==
  \/ x \notin {"sq_recv", "sq_send"} /\ In(x, c)
  \/ x = "k_recv" /\ In("sq_recv", c)
  \/ x = "k_send" /\ In("sq_send", c)

KernelElem == [op : {"recv", "send", "notif"}, idx : Buffer, dst : Addr]

LEMMA SubmitMoves ==
  ASSUME IInv, sq' = <<>>, inflight' = inflight \union Started(Len(sq)),
         UNCHANGED <<cq, completed, queue, out>>
  PROVE  /\ inflight' \subseteq KernelElem
         /\ \A x \in Stage, c \in Buffer : In(x, c)' <=> Handed(x, c)
         /\ Single'
<1>1. /\ sq \in Seq(SqElem) /\ Len(sq) \in Nat /\ DOMAIN sq = 1..Len(sq)
      /\ \A i \in 1..Len(sq) : sq[i] \in SqElem
  <2>1. sq \in Seq(SqElem)
    BY DEF IInv, TypeOK, SqElem
  <2> QED
    BY <2>1, Elements
<1>2. \A i \in 1..Len(sq) :
         /\ sq[i].op \in {"recv", "send"} /\ sq[i].idx \in Buffer
         /\ sq[i] = [op |-> sq[i].op, idx |-> sq[i].idx]
  <2>1. \A x \in SqElem : /\ x.op \in {"recv", "send"} /\ x.idx \in Buffer
                         /\ x = [op |-> x.op, idx |-> x.idx]
    BY DEF SqElem
  <2> QED
    BY <1>1, <2>1
<1>3. \A i \in 1..Len(sq) : \A p, c :
         sq[i] \in SqEntry(p, c) <=> sq[i].op = p /\ sq[i].idx = c
  <2> TAKE i \in 1..Len(sq)
  <2> TAKE p, c
  <2>1. sq[i] = [op |-> sq[i].op, idx |-> sq[i].idx]
    BY <1>2
  <2>2. SqEntry(p, c) = {[op |-> p, idx |-> c]}
    BY DEF SqEntry
  <2> QED
    BY <2>1, <2>2
<1>4. \A e : e \in Started(Len(sq)) <=>
         \E i \in 1..Len(sq) :
            e = [op |-> sq[i].op, idx |-> sq[i].idx, dst |-> slot[sq[i].idx]]
  BY DEF Started
<1>5. Started(Len(sq)) \subseteq KernelElem
  <2> SUFFICES ASSUME NEW i \in 1..Len(sq)
               PROVE  [op |-> sq[i].op, idx |-> sq[i].idx, dst |-> slot[sq[i].idx]]
                         \in KernelElem
    BY <1>4
  <2>1. slot[sq[i].idx] \in Addr
    BY <1>2 DEF IInv, TypeOK
  <2> QED
    BY <1>2, <2>1 DEF KernelElem
<1>6. inflight \subseteq KernelElem
  BY DEF IInv, TypeOK, KernelElem
<1>7. \A p, c : Runs(p, c)' <=> Runs(p, c) \/ Has(sq, SqEntry(p, c))
  <2> SUFFICES ASSUME NEW p, NEW c
               PROVE  (\E e \in Started(Len(sq)) : e.op = p /\ e.idx = c)
                         <=> Has(sq, SqEntry(p, c))
    BY DEF Runs
  <2>1. Has(sq, SqEntry(p, c)) <=> \E i \in 1..Len(sq) : sq[i].op = p /\ sq[i].idx = c
    BY <1>1, <1>3 DEF Has
  <2>2. (\E e \in Started(Len(sq)) : e.op = p /\ e.idx = c) =>
           \E i \in 1..Len(sq) : sq[i].op = p /\ sq[i].idx = c
    BY <1>4
  <2>3. ASSUME NEW i \in 1..Len(sq), sq[i].op = p, sq[i].idx = c
        PROVE  \E e \in Started(Len(sq)) : e.op = p /\ e.idx = c
    <3>1. [op |-> sq[i].op, idx |-> sq[i].idx, dst |-> slot[sq[i].idx]] \in Started(Len(sq))
      BY <1>4
    <3> QED
      BY <2>3, <3>1
  <2> QED
    BY <2>1, <2>2, <2>3
<1>8. \A c \in Buffer : ~Has(sq, SqEntry("notif", c))
  BY <1>1, <1>2, <1>3 DEF Has
<1>9. ASSUME NEW x \in Stage, NEW c \in Buffer PROVE In(x, c)' <=> Handed(x, c)
  <2>1. \A T : ~Has(sq', T)
    BY HasEmpty
  <2> QED
    BY <1>7, <1>8, <2>1 DEF In, Stage, Handed
<1>10. ASSUME NEW e \in inflight', NEW f \in inflight', e.idx = f.idx PROVE e = f
  <2>1. ASSUME NEW a \in inflight, NEW i \in 1..Len(sq) PROVE a.idx # sq[i].idx
    <3>1. a.op \in {"recv", "send", "notif"} /\ a.idx \in Buffer
      BY <1>6 DEF KernelElem
    <3>2. Runs(a.op, a.idx)
      BY DEF Runs
    <3>3. Has(sq, SqEntry(sq[i].op, sq[i].idx))
      BY <1>1, <1>3 DEF Has
    <3>4. \E x \in {"k_recv", "k_send", "k_notif"} : In(x, a.idx)
      BY <3>1, <3>2 DEF In
    <3>5. \E y \in {"sq_recv", "sq_send"} : In(y, sq[i].idx)
      BY <1>2, <3>3 DEF In
    <3>6. OwnedOnce(a.idx)
      BY <3>1 DEF IInv, Owned
    <3> QED
      BY <3>4, <3>5, <3>6 DEF OwnedOnce, Stage
  <2>2. ASSUME NEW i \in 1..Len(sq), NEW j \in 1..Len(sq), sq[i].idx = sq[j].idx
        PROVE  sq[i] = sq[j]
    <3>1. /\ Has(sq, SqEntry(sq[i].op, sq[i].idx))
          /\ Has(sq, SqEntry(sq[j].op, sq[i].idx))
      BY <1>1, <1>3, <2>2 DEF Has
    <3>2. OwnedOnce(sq[i].idx)
      BY <1>2 DEF IInv, Owned
    <3>3. sq[i].op # sq[j].op => In("sq_recv", sq[i].idx) /\ In("sq_send", sq[i].idx)
      <4>1. sq[i].op \in {"recv", "send"} /\ sq[j].op \in {"recv", "send"}
        BY <1>2
      <4>2. sq[i].op # sq[j].op =>
               Has(sq, SqEntry("recv", sq[i].idx)) /\ Has(sq, SqEntry("send", sq[i].idx))
        BY <3>1, <4>1
      <4> QED
        BY <4>2 DEF In
    <3>4. sq[i].op = sq[j].op
      BY <3>2, <3>3 DEF OwnedOnce, Stage
    <3> QED
      BY <1>2, <2>2, <3>4
  <2>3. CASE e \in inflight /\ f \in inflight
    BY <1>10, <2>3 DEF IInv, Single
  <2>4. CASE e \in Started(Len(sq)) /\ f \in Started(Len(sq))
    BY <1>4, <1>10, <2>2, <2>4
  <2>5. e \in inflight /\ f \in Started(Len(sq)) => FALSE
    BY <1>4, <1>10, <2>1
  <2>6. f \in inflight /\ e \in Started(Len(sq)) => FALSE
    BY <1>4, <1>10, <2>1
  <2> QED
    BY <2>3, <2>4, <2>5, <2>6
<1>11. Single'
  <2>1. \A T : One(sq', T)
    BY HasEmpty
  <2>2. /\ \A b \in Buffer : /\ One(queue', ShardEntry(b)) /\ One(out', OutEntry(b))
                             /\ \A op \in {"recv", "send"} :
                                  /\ One(cq', CqEntry(op, b))
                                  /\ One(completed', VecEntry(op, b))
    BY DEF IInv, Single
  <2> QED
    BY <1>10, <2>1, <2>2 DEF Single
<1> QED
  BY <1>5, <1>6, <1>9, <1>11

LEMMA HandedOwned ==
  ASSUME Owned, \A x \in Stage, c \in Buffer : In(x, c)' <=> Handed(x, c), lost' = lost
  PROVE  Owned'
<1> SUFFICES ASSUME NEW c \in Buffer PROVE OwnedOnce(c)'
  BY DEF Owned
<1>1. OwnedOnce(c) /\ \A x \in Stage : In(x, c)' <=> Handed(x, c)
  BY DEF Owned
<1>2. \A x, y \in Stage : In(x, c)' /\ In(y, c)' => x = y
  BY <1>1 DEF OwnedOnce, Handed, Stage
<1>3. (\E x \in Stage : In(x, c)') <=> \E x \in Stage : In(x, c)
  <2>1. ASSUME NEW x \in Stage, In(x, c) PROVE \E y \in Stage : Handed(y, c)
    <3>1. CASE x = "sq_recv"
      BY <2>1, <3>1 DEF Handed, Stage
    <3>2. CASE x = "sq_send"
      BY <2>1, <3>2 DEF Handed, Stage
    <3>3. CASE x \notin {"sq_recv", "sq_send"}
      BY <2>1, <3>3 DEF Handed
    <3> QED
      BY <3>1, <3>2, <3>3
  <2>2. \A x \in Stage : Handed(x, c) => \E y \in Stage : In(y, c)
    BY DEF Handed, Stage
  <2> QED
    BY <1>1, <2>1, <2>2
<1> QED
  BY <1>1, <1>2, <1>3 DEF OwnedOnce

\* The loop copies the completion queue.
Copied(x, c) ==
  \/ x \notin {"cq_recv", "cq_send"} /\ In(x, c)
  \/ x = "vec_recv" /\ In("cq_recv", c)
  \/ x = "vec_send" /\ In("cq_send", c)

\* A completion and what the loop reads in it.
LEMMA Completion ==
  ASSUME IInv, NEW i \in DOMAIN cq
  PROVE  \E o \in {"recv", "send"}, b \in Buffer, m \in BOOLEAN :
            /\ cq[i] = [user_data |-> EncodeToken(o, b), more |-> m]
            /\ Decoded[i] = [op |-> o, idx |-> b, more |-> m]
            /\ m => o = "send"
<1>1. cq \in Seq(Cqe)
  BY DEF IInv, TypeOK
<1>2. cq[i] \in Cqe
  BY <1>1, Elements
<1>3. /\ cq[i].user_data \in {EncodeToken(op, b) : op \in {"recv", "send"}, b \in Buffer}
      /\ cq[i].more \in BOOLEAN
      /\ cq[i] = [user_data |-> cq[i].user_data, more |-> cq[i].more]
  BY <1>2 DEF Cqe
<1>4. PICK o \in {"recv", "send"}, b \in Buffer : cq[i].user_data = EncodeToken(o, b)
  BY <1>3
<1>5. DecodeOp(cq[i].user_data) = o /\ DecodeIdx(cq[i].user_data) = b
  BY <1>4, TokenUnique
<1>6. Decoded[i] = [op |-> o, idx |-> b, more |-> cq[i].more]
  BY <1>5 DEF Decoded
<1>7. cq[i].more => o = "send"
  <2> SUFFICES ASSUME cq[i].more PROVE o = "send"
    OBVIOUS
  <2>1. PICK c \in Buffer : cq[i].user_data = EncodeToken("send", c)
    BY DEF IInv, VecInUse
  <2> QED
    BY <1>4, <2>1, TokenUnique
<1> QED
  BY <1>3, <1>4, <1>6, <1>7

LEMMA ReapMoves ==
  ASSUME IInv, Reap
  PROVE  /\ completed' \in Seq(Done) /\ (completed' = <<>> <=> cq = <<>>)
         /\ \A i \in DOMAIN completed' : completed'[i].more => completed'[i].op = "send"
         /\ \A x \in Stage, c \in Buffer : In(x, c)' <=> Copied(x, c)
         /\ Single'
<1>1. cq \in Seq(Cqe) /\ DOMAIN cq = 1..Len(cq) /\ Len(cq) \in Nat
  <2>1. cq \in Seq(Cqe)
    BY DEF IInv, TypeOK
  <2> QED
    BY <2>1, Elements
<1>2. completed' = Decoded /\ cq' = <<>> /\ UNCHANGED <<queue, out, sq, inflight>>
  BY DEF Reap
<1>3. completed = <<>>
  BY DEF IInv, VecInUse, Reap
<1>4. DOMAIN Decoded = 1..Len(cq)
  BY <1>1 DEF Decoded
<1>5. \A i \in 1..Len(cq) : /\ Decoded[i] \in Done
                            /\ Decoded[i].more => Decoded[i].op = "send"
  <2> TAKE i \in 1..Len(cq)
  <2>1. PICK o \in {"recv", "send"}, b \in Buffer, m \in BOOLEAN :
           Decoded[i] = [op |-> o, idx |-> b, more |-> m] /\ (m => o = "send")
    BY <1>1, Completion
  <2> QED
    BY <2>1 DEF Done
<1>6. \A p \in {"recv", "send"}, c \in Buffer, i \in 1..Len(cq) :
         Decoded[i] \in VecEntry(p, c) <=> cq[i] \in CqEntry(p, c)
  <2> TAKE p \in {"recv", "send"}, c \in Buffer, i \in 1..Len(cq)
  <2>1. PICK o \in {"recv", "send"}, b \in Buffer, m \in BOOLEAN :
           /\ cq[i] = [user_data |-> EncodeToken(o, b), more |-> m]
           /\ Decoded[i] = [op |-> o, idx |-> b, more |-> m]
    BY <1>1, Completion
  <2>2. cq[i] \in CqEntry(p, c) <=> o = p /\ b = c /\ m = FALSE
    BY <2>1, Entries
  <2>3. Decoded[i] \in VecEntry(p, c) <=> o = p /\ b = c /\ m = FALSE
    BY <2>1, Entries
  <2> QED
    BY <2>2, <2>3
<1>7. Decoded \in Seq(Done) /\ (Decoded = <<>> <=> cq = <<>>)
  <2>1. Decoded = [i \in 1..Len(cq) |-> Decoded[i]]
    BY <1>1 DEF Decoded
  <2>2. Decoded \in Seq(Done) /\ Len(Decoded) = Len(cq)
    BY <1>1, <1>4, <1>5, <2>1
  <2> QED
    BY <1>1, <2>2
<1>8. \A p \in {"recv", "send"}, c \in Buffer :
         /\ Has(completed', VecEntry(p, c)) <=> Has(cq, CqEntry(p, c))
         /\ One(completed', VecEntry(p, c))
  BY <1>1, <1>2, <1>4, <1>6 DEF Has, One, IInv, Single
<1>9. ASSUME NEW x \in Stage, NEW c \in Buffer PROVE In(x, c)' <=> Copied(x, c)
  <2>1. \A T : ~Has(cq', T) /\ ~Has(completed, T)
    BY <1>2, <1>3, HasEmpty
  <2> QED
    BY <1>2, <1>8, <2>1 DEF In, Stage, Copied, Runs
<1>10. Single'
  <2>1. \A T : One(cq', T)
    BY <1>2, HasEmpty
  <2> QED
    BY <1>2, <1>8, <2>1 DEF IInv, Single
<1> QED
  BY <1>2, <1>4, <1>5, <1>7, <1>9, <1>10

LEMMA CopiedOwned ==
  ASSUME Owned, \A x \in Stage, c \in Buffer : In(x, c)' <=> Copied(x, c), lost' = lost,
         \A c \in Buffer : ~In("vec_recv", c) /\ ~In("vec_send", c)
  PROVE  Owned'
<1> SUFFICES ASSUME NEW c \in Buffer PROVE OwnedOnce(c)'
  BY DEF Owned
<1>1. OwnedOnce(c) /\ \A x \in Stage : In(x, c)' <=> Copied(x, c)
  BY DEF Owned
<1>2. \A x, y \in Stage : In(x, c)' /\ In(y, c)' => x = y
  BY <1>1 DEF OwnedOnce, Copied, Stage
<1>3. (\E x \in Stage : In(x, c)') <=> \E x \in Stage : In(x, c)
  <2>1. ASSUME NEW x \in Stage, In(x, c) PROVE \E y \in Stage : Copied(y, c)
    <3>1. CASE x = "cq_recv"
      BY <2>1, <3>1 DEF Copied, Stage
    <3>2. CASE x = "cq_send"
      BY <2>1, <3>2 DEF Copied, Stage
    <3>3. CASE x \notin {"cq_recv", "cq_send"}
      BY <2>1, <3>3 DEF Copied
    <3> QED
      BY <3>1, <3>2, <3>3
  <2>2. \A x \in Stage : Copied(x, c) => \E y \in Stage : In(y, c)
    BY DEF Copied, Stage
  <2> QED
    BY <1>1, <2>1, <2>2
<1> QED
  BY <1>1, <1>2, <1>3 DEF OwnedOnce

(***************************************************************************)
(* The shard.                                                              *)
(***************************************************************************)

\* The shard takes a packet off its channel.
LEMMA TakePacket ==
  ASSUME IInv, HandlePacket
  PROVE  LET h == Head(queue)
         IN  /\ h \in ShardElem /\ h.buf_idx \in Buffer /\ h.src \in Addr
             /\ queue' \in Seq(ShardElem) /\ Len(queue') = Len(queue) - 1
             /\ In("shard", h.buf_idx) /\ h = queue[1] /\ 1 \in DOMAIN queue
             /\ \A c \in Buffer :
                   /\ Has(queue', ShardEntry(c)) <=>
                         Has(queue, ShardEntry(c)) /\ c # h.buf_idx
                   /\ One(queue', ShardEntry(c))
             /\ \A i \in DOMAIN queue' :
                   i + 1 \in DOMAIN queue /\ queue'[i] = queue[i + 1]
             /\ UNCHANGED <<sq, inflight, cq, completed>>
<1> DEFINE h == Head(queue)
<1>1. /\ queue \in Seq(ShardElem) /\ queue # <<>> /\ queue' = Tail(queue)
      /\ UNCHANGED <<sq, inflight, cq, completed>>
  BY DEF IInv, TypeOK, ShardElem, HandlePacket, ringVars
<1>2. /\ h \in ShardElem /\ h = queue[1] /\ 1 \in DOMAIN queue
      /\ queue' \in Seq(ShardElem) /\ Len(queue') = Len(queue) - 1
      /\ \A T : Has(queue, T) <=> Has(queue', T) \/ h \in T
      /\ \A T : One(queue, T) => One(queue', T) /\ ~(Has(queue', T) /\ h \in T)
      /\ \A i \in DOMAIN queue' : i + 1 \in DOMAIN queue /\ queue'[i] = queue[i + 1]
  BY <1>1, HasTail
<1>3. /\ h.buf_idx \in Buffer /\ h.src \in Addr
      /\ \A c : h \in ShardEntry(c) <=> h.buf_idx = c
  BY <1>2, Entries DEF ShardElem
<1> HIDE DEF h
<1>4. \A c \in Buffer :
         /\ Has(queue', ShardEntry(c)) <=> Has(queue, ShardEntry(c)) /\ c # h.buf_idx
         /\ One(queue', ShardEntry(c))
  BY <1>2, <1>3 DEF IInv, Single
<1>5. In("shard", h.buf_idx)
  BY <1>2, <1>3 DEF In
<1> QED
  BY <1>1, <1>2, <1>3, <1>4, <1>5 DEF h

LEMMA SessionMoves ==
  ASSUME IInv, HandlePacket, Head(queue).src \in Endpoints
  PROVE  LET b == Head(queue).buf_idx
         IN  /\ out' = Append(out, [dst |-> RouteTo(Head(queue).src), idx |-> b])
             /\ [dst |-> RouteTo(Head(queue).src), idx |-> b] \in OutElem
             /\ out' \in Seq(OutElem) /\ Len(out') = Len(out) + 1
             /\ Len(out) < ChanCap /\ lost' = lost
             /\ Moves(b, "shard", "out") /\ Single'
<1> DEFINE b == Head(queue).buf_idx
           e == [dst |-> RouteTo(Head(queue).src), idx |-> b]
<1>1. out' = Append(out, e) /\ Len(out) < ChanCap /\ lost' = lost
  BY DEF HandlePacket, Endpoints
<1>2. b \in Buffer /\ In("shard", b)
  BY TakePacket
<1>3. e \in OutElem /\ \A c : e \in OutEntry(c) <=> b = c
  <2>1. RouteTo(Head(queue).src) \in Addr
    BY Sizes DEF RouteTo
  <2> QED
    BY <1>2, <2>1, Entries DEF OutElem
<1>4. out \in Seq(OutElem)
  BY DEF IInv, TypeOK, OutElem
<1> HIDE DEF b, e
<1>5. /\ out' \in Seq(OutElem) /\ Len(out') = Len(out) + 1
      /\ \A T : Has(out', T) <=> Has(out, T) \/ e \in T
      /\ \A T : One(out, T) /\ ~(Has(out, T) /\ e \in T) => One(out', T)
  BY <1>1, <1>3, <1>4, HasAppend
<1>6. ~In("out", b)
  BY <1>2, Elsewhere DEF IInv, Stage
<1>7. \A c \in Buffer :
         /\ Has(out', OutEntry(c)) <=> Has(out, OutEntry(c)) \/ c = b
         /\ One(out', OutEntry(c))
  BY <1>3, <1>5, <1>6 DEF IInv, Single, In
<1>8. /\ \A c \in Buffer :
            /\ Has(queue', ShardEntry(c)) <=> Has(queue, ShardEntry(c)) /\ c # b
            /\ One(queue', ShardEntry(c))
      /\ UNCHANGED <<sq, inflight, cq, completed>>
  BY TakePacket DEF b
<1>9. Moves(b, "shard", "out")
  <2> SUFFICES ASSUME NEW x \in Stage, NEW c \in Buffer
               PROVE  In(x, c)' <=> (In(x, c) /\ ~(x = "shard" /\ c = b))
                                      \/ (x = "out" /\ c = b)
    BY <1>2 DEF Moves
  <2> QED
    BY <1>7, <1>8 DEF In, Stage, Runs
<1>10. Single'
  BY <1>7, <1>8 DEF IInv, Single
<1> QED
  BY <1>1, <1>3, <1>5, <1>9, <1>10 DEF b, e

LEMMA NoSessionMoves ==
  ASSUME IInv, HandlePacket, Head(queue).src \notin Endpoints
  PROVE  LET b == Head(queue).buf_idx
         IN  /\ lost' = [lost EXCEPT ![b] = "no_session"] /\ out' = out
             /\ \A x \in Stage, c \in Buffer : In(x, c)' <=> In(x, c) /\ c # b
             /\ Owned' /\ Single'
<1> DEFINE b == Head(queue).buf_idx
<1>1. lost' = [lost EXCEPT ![b] = "no_session"] /\ out' = out
  BY DEF HandlePacket, Endpoints
<1>2. b \in Buffer /\ In("shard", b)
  BY TakePacket
<1> HIDE DEF b
<1>3. \A y \in Stage \ {"shard"} : ~In(y, b)
  BY <1>2, Elsewhere DEF IInv, Stage
<1>4. /\ \A c \in Buffer :
            /\ Has(queue', ShardEntry(c)) <=> Has(queue, ShardEntry(c)) /\ c # b
            /\ One(queue', ShardEntry(c))
      /\ UNCHANGED <<sq, inflight, cq, completed>>
  BY TakePacket DEF b
<1>5. ASSUME NEW x \in Stage, NEW c \in Buffer PROVE In(x, c)' <=> In(x, c) /\ c # b
  <2>1. In(x, c)' <=> In(x, c) /\ ~(x = "shard" /\ c = b)
    BY <1>1, <1>4 DEF In, Stage, Runs
  <2> QED
    BY <1>3, <2>1
<1>6. Single'
  BY <1>1, <1>4 DEF IInv, Single
<1>7. ASSUME NEW c \in Buffer PROVE OwnedOnce(c)'
  <2>1. OwnedOnce(c) /\ lost \in [Buffer -> {"no", "no_session", "sq_full"}]
    BY DEF IInv, Owned, TypeOK
  <2>2. lost'[c] = IF c = b THEN "no_session" ELSE lost[c]
    BY <1>1, <2>1
  <2> QED
    BY <1>5, <2>1, <2>2 DEF OwnedOnce
<1> QED
  BY <1>1, <1>5, <1>6, <1>7 DEF b, Owned

(***************************************************************************)
(* The kernel.                                                             *)
(***************************************************************************)

\* The operations the kernel works on are stages of their buffers.
KernelStage(op) ==
  CASE op = "recv" -> "k_recv" [] op = "send" -> "k_send" [] OTHER -> "k_notif"

LEMMA KernelHas ==
  ASSUME IInv, NEW e \in inflight
  PROVE  /\ e \in KernelElem /\ e.idx \in Buffer /\ e.dst \in Addr
         /\ e.op \in {"recv", "send", "notif"} /\ KernelStage(e.op) \in Stage
         /\ In(KernelStage(e.op), e.idx) /\ Runs(e.op, e.idx)
         /\ \A y \in Stage \ {KernelStage(e.op)} : ~In(y, e.idx)
<1>1. e \in KernelElem
  BY DEF IInv, TypeOK, KernelElem
<1>2. e.idx \in Buffer /\ e.dst \in Addr /\ e.op \in {"recv", "send", "notif"}
  BY <1>1 DEF KernelElem
<1>3. Runs(e.op, e.idx)
  BY DEF Runs
<1>4. KernelStage(e.op) \in Stage /\ In(KernelStage(e.op), e.idx)
  BY <1>2, <1>3 DEF KernelStage, Stage, In
<1> QED
  BY <1>1, <1>2, <1>3, <1>4, Elsewhere DEF IInv

\* A completion is added for an operation that ends or goes on.
LEMMA CompleteAdds ==
  ASSUME IInv, NEW e \in inflight, NEW op \in {"recv", "send"}, NEW m \in BOOLEAN,
         Complete(e, op, m), m => op = "send"
  PROVE  /\ cq' \in Seq(Cqe)
         /\ \A p \in {"recv", "send"}, c \in Buffer :
               /\ Has(cq', CqEntry(p, c)) <=>
                     Has(cq, CqEntry(p, c)) \/ (p = op /\ c = e.idx /\ ~m)
               /\ One(cq', CqEntry(p, c))
         /\ \A i \in DOMAIN cq' :
               cq'[i].more => \E b \in Buffer : cq'[i].user_data = EncodeToken("send", b)
<1> DEFINE x == [user_data |-> EncodeToken(op, e.idx), more |-> m]
<1>1. e.idx \in Buffer /\ ~In("cq_recv", e.idx) /\ ~In("cq_send", e.idx)
  BY KernelHas DEF Stage, KernelStage
<1>2. cq \in Seq(Cqe) /\ cq' = Append(cq, x)
  BY DEF IInv, TypeOK, Complete
<1>3. /\ x \in Cqe
      /\ x.more => x.user_data = EncodeToken("send", e.idx)
  BY <1>1 DEF Cqe
<1>4. \A p \in {"recv", "send"}, c \in Buffer :
         x \in CqEntry(p, c) <=> p = op /\ c = e.idx /\ ~m
  BY <1>1, Entries
<1> HIDE DEF x
<1>5. /\ cq' \in Seq(Cqe) /\ Len(cq') = Len(cq) + 1
      /\ \A T : Has(cq', T) <=> Has(cq, T) \/ x \in T
      /\ \A T : One(cq, T) /\ ~(Has(cq, T) /\ x \in T) => One(cq', T)
  BY <1>2, <1>3, HasAppend
<1>6. ~Has(cq, CqEntry("recv", e.idx)) /\ ~Has(cq, CqEntry("send", e.idx))
  BY <1>1 DEF In
<1>7. ASSUME NEW p \in {"recv", "send"}, NEW c \in Buffer
      PROVE  /\ Has(cq', CqEntry(p, c)) <=>
                    Has(cq, CqEntry(p, c)) \/ (p = op /\ c = e.idx /\ ~m)
             /\ One(cq', CqEntry(p, c))
  <2>1. One(cq, CqEntry(p, c))
    BY DEF IInv, Single
  <2> QED
    BY <1>4, <1>5, <1>6, <2>1
<1>8. ASSUME NEW i \in DOMAIN cq', cq'[i].more
      PROVE  \E b \in Buffer : cq'[i].user_data = EncodeToken("send", b)
  <2>1. (i \in DOMAIN cq /\ cq'[i] = cq[i]) \/ cq'[i] = x
    <3>1. /\ DOMAIN cq = 1..Len(cq) /\ DOMAIN cq' = 1..(Len(cq) + 1) /\ Len(cq) \in Nat
      BY <1>2, <1>5, Elements
    <3>2. i \in 1..Len(cq) \/ i = Len(cq) + 1
      BY <3>1
    <3> QED
      BY <1>2, <1>3, <3>1, <3>2
  <2> QED
    BY <1>1, <1>3, <1>8, <2>1 DEF IInv, VecInUse
<1> QED
  BY <1>5, <1>7, <1>8

\* An operation that ends leaves the kernel.
LEMMA RunsWithout ==
  ASSUME IInv, NEW e \in inflight, inflight' = inflight \ {e}
  PROVE  /\ \A p, c : Runs(p, c)' <=> Runs(p, c) /\ ~(p = e.op /\ c = e.idx)
         /\ \A f, g \in inflight' : f.idx = g.idx => f = g
         /\ inflight' \subseteq KernelElem
<1>1. \A f, g \in inflight : f.idx = g.idx => f = g
  BY DEF IInv, Single
<1>2. ASSUME NEW p, NEW c PROVE Runs(p, c)' <=> Runs(p, c) /\ ~(p = e.op /\ c = e.idx)
  BY <1>1 DEF Runs
<1> QED
  BY <1>1, <1>2, KernelHas

\* KernelRecv, KernelSendFail and KernelNotif.
LEMMA EndMoves ==
  ASSUME IInv, NEW e \in inflight, NEW op \in {"recv", "send"}, Complete(e, op, FALSE),
         inflight' = inflight \ {e}, UNCHANGED <<queue, out, sq, completed>>
  PROVE  /\ Moves(e.idx, KernelStage(e.op), IF op = "recv" THEN "cq_recv" ELSE "cq_send")
         /\ Single'
<1> DEFINE b == e.idx
           from == KernelStage(e.op)
           to == IF op = "recv" THEN "cq_recv" ELSE "cq_send"
<1>1. \A p, c : Runs(p, c)' <=> Runs(p, c) /\ ~(p = e.op /\ c = b)
  BY RunsWithout
<1>2. \A p \in {"recv", "send"}, c \in Buffer :
         /\ Has(cq', CqEntry(p, c)) <=> Has(cq, CqEntry(p, c)) \/ (p = op /\ c = b)
         /\ One(cq', CqEntry(p, c))
  BY CompleteAdds
<1>3. /\ b \in Buffer /\ In(from, b) /\ e.op \in {"recv", "send", "notif"}
      /\ from = IF e.op = "recv" THEN "k_recv" ELSE IF e.op = "send" THEN "k_send"
                ELSE "k_notif"
  BY KernelHas DEF KernelStage
<1> HIDE DEF b, from
<1>4. ASSUME NEW x \in Stage, NEW c \in Buffer
      PROVE  In(x, c)' <=> (In(x, c) /\ ~(x = from /\ c = b)) \/ (x = to /\ c = b)
  BY <1>1, <1>2, <1>3 DEF In, Stage
<1>5. Single'
  <2>1. \A f, g \in inflight' : f.idx = g.idx => f = g
    BY RunsWithout
  <2> QED
    BY <1>2, <2>1 DEF IInv, Single
<1> QED
  BY <1>3, <1>4, <1>5 DEF Moves, b, from

LEMMA KernelSendMoves ==
  ASSUME IInv, NEW e \in inflight, KernelSend(e)
  PROVE  /\ Moves(e.idx, "k_send", "k_notif") /\ Single'
         /\ inflight' \subseteq KernelElem
         /\ \A f \in inflight' :
               f \in inflight \/ (f.op = "notif" /\ f.idx = e.idx /\ f.dst = e.dst)
<1> DEFINE b == e.idx
           n == [e EXCEPT !.op = "notif"]
<1>1. /\ e.op = "send" /\ Complete(e, "send", TRUE)
      /\ inflight' = (inflight \ {e}) \union {n}
      /\ UNCHANGED <<queue, out, sq, completed>>
  BY DEF KernelSend
<1>2. /\ e \in KernelElem /\ b \in Buffer /\ In("k_send", b)
      /\ \A y \in Stage \ {"k_send"} : ~In(y, b)
  BY <1>1, KernelHas DEF KernelStage
<1>3. n \in KernelElem /\ n.op = "notif" /\ n.idx = b /\ n.dst = e.dst
  BY <1>2 DEF KernelElem
<1> HIDE DEF n
<1>4. \A f, g \in inflight : f.idx = g.idx => f = g
  BY DEF IInv, Single
<1>5. \A f, g \in inflight' : f.idx = g.idx => f = g
  BY <1>1, <1>3, <1>4
<1>6. inflight \subseteq KernelElem /\ inflight' \subseteq KernelElem
  BY <1>1, <1>3, KernelHas
<1>7. ASSUME NEW p, NEW c
      PROVE  Runs(p, c)' <=> (Runs(p, c) /\ ~(p = "send" /\ c = b)) \/ (p = "notif" /\ c = b)
  BY <1>1, <1>3, <1>4 DEF Runs
<1>8. \A p \in {"recv", "send"}, c \in Buffer :
         /\ Has(cq', CqEntry(p, c)) <=> Has(cq, CqEntry(p, c))
         /\ One(cq', CqEntry(p, c))
  BY <1>1, CompleteAdds
<1> HIDE DEF b
<1>9. ASSUME NEW x \in Stage, NEW c \in Buffer
      PROVE  In(x, c)' <=> (In(x, c) /\ ~(x = "k_send" /\ c = b)) \/ (x = "k_notif" /\ c = b)
  BY <1>1, <1>7, <1>8 DEF In, Stage
<1>10. Single'
  BY <1>1, <1>5, <1>8 DEF IInv, Single
<1> QED
  BY <1>1, <1>2, <1>3, <1>6, <1>9, <1>10 DEF Moves, b

(***************************************************************************)
(* The invariant holds.                                                    *)
(***************************************************************************)
LEMMA SendMsgKeeps ==
  ASSUME IInv, SendMsg
  PROVE  IInv'
<1> DEFINE b == Head(out).idx
<1>1. /\ pc = "send" /\ out # <<>> /\ out' = Tail(out) /\ pushed < MaxBatch
      /\ slot' = [slot EXCEPT ![b] = Head(out).dst]
      /\ timestamp' = [timestamp EXCEPT ![b] = Mark(@, "send_sqe")]
      /\ pushed' = pushed + 1
      /\ UNCHANGED <<queue, visible, inflight, cq, completed, memory, pc, wire>>
  BY DEF SendMsg, PostSend
<1>2. /\ Head(out) \in OutElem /\ b \in Buffer
      /\ out' \in Seq(OutElem) /\ Len(out') = Len(out) - 1
      /\ Push("send", b) /\ Moves(b, "out", "sq_send") /\ Single'
  BY SendMsgMoves
<1>3. In("out", b) /\ ~In("sq_recv", b) /\ ~In("sq_send", b)
  BY <1>2, Elsewhere DEF IInv, Moves, Stage
<1>4. /\ sq' \in Seq(SqElem) /\ Len(sq') = Len(sq) + 1
      /\ cached' \in Len(sq')..SqCap /\ cached' <= PoolSize + Len(sq')
      /\ visible = 0 /\ lost' = lost
  BY <1>2, <1>3, PushMoves
<1>5. 1 \in DOMAIN out /\ Head(out) = out[1] /\ Head(out).dst \in Addr
  <2>1. out \in Seq(OutElem)
    BY DEF IInv, TypeOK, OutElem
  <2>2. Head(out).dst \in Addr
    BY <1>2 DEF OutElem
  <2> QED
    BY <1>1, <2>1, <2>2, HasTail
<1>6. timestamp[b] = {"recv_cqe", "shard_done"}
  BY <1>2, <1>3 DEF IInv, Marked
<1>7. 0 \notin Lens => memory[b] \in Endpoints /\ Head(out).dst = RouteTo(memory[b])
  BY <1>5 DEF IInv, Addressed, AnswerTrue
<1>8. /\ slot \in [Buffer -> Addr] /\ memory \in [Buffer -> Addr]
      /\ timestamp \in [Buffer -> SUBSET {"recv_cqe", "shard_done", "send_sqe"}]
  BY DEF IInv, TypeOK
<1> HIDE DEF b
<1>9. /\ \A c \in Buffer : c # b => slot'[c] = slot[c] /\ timestamp'[c] = timestamp[c]
      /\ slot'[b] = Head(out).dst
      /\ timestamp'[b] = {"recv_cqe", "shard_done", "send_sqe"}
      /\ slot' \in [Buffer -> Addr]
      /\ timestamp' \in [Buffer -> SUBSET {"recv_cqe", "shard_done", "send_sqe"}]
  BY <1>1, <1>2, <1>5, <1>6, <1>8 DEF Mark, b
<1>10. TypeOK'
  <2>1. /\ out' \in Seq([dst : Addr, idx : Buffer]) /\ Len(out') <= ChanCap
        /\ sq' \in Seq([op : {"recv", "send"}, idx : Buffer])
    <3>1. Len(out) <= ChanCap /\ Len(out) \in Nat
      BY DEF IInv, TypeOK
    <3> QED
      BY <1>2, <1>4, <3>1, Sizes DEF OutElem, SqElem
  <2>2. visible' \in 0..Len(sq') /\ pushed' \in 0..MaxBatch
    <3>1. Len(sq) \in Nat /\ pushed \in 0..MaxBatch
      BY DEF IInv, TypeOK
    <3> QED
      BY <1>1, <1>4, <3>1, Sizes
  <2> QED
    BY <1>1, <1>4, <1>9, <2>1, <2>2 DEF IInv, TypeOK
<1>11. Owned'
  BY <1>2, <1>4, MoveOwned DEF IInv, Stage
<1>12. RingHasRoom'
  <2>1. ~(visible' > 0) /\ visible' = 0
    BY <1>1, <1>4
  <2>2. cached' + visible' <= PoolSize + Len(sq')
    BY <1>4, <1>10, <2>1 DEF TypeOK
  <2> QED
    BY <2>1, <2>2 DEF RingHasRoom
<1>13. VecInUse'
  BY <1>1 DEF IInv, VecInUse
<1>14. Marked'
  BY <1>2, <1>9, MoveMarked DEF IInv, Stage
<1>15. ASSUME 0 \notin Lens PROVE Addressed'
  <2>1. SlotTrue'
    BY <1>1, <1>2, <1>7, <1>9, <1>15, MoveSlot DEF IInv, Stage, Addressed
  <2>2. PacketTrue' /\ SendTrue'
    BY <1>1, <1>15 DEF IInv, Addressed, PacketTrue, SendTrue
  <2>3. AnswerTrue'
    <3>1. out \in Seq(OutElem)
      BY DEF IInv, TypeOK, OutElem
    <3>2. \A i \in DOMAIN out' : i + 1 \in DOMAIN out /\ out'[i] = out[i + 1]
      BY <1>1, <3>1, HasTail
    <3> QED
      BY <1>1, <1>15, <3>2 DEF IInv, Addressed, AnswerTrue
  <2> QED
    BY <2>1, <2>2, <2>3 DEF Addressed
<1> QED
  BY <1>2, <1>10, <1>11, <1>12, <1>13, <1>14, <1>15 DEF IInv

LEMMA HandleRecvKeeps ==
  ASSUME IInv, HandleRecv
  PROVE  IInv'
<1> DEFINE b == Head(completed).idx
           e == [buf_idx |-> b, src |-> slot[b]]
<1>1. /\ NextCompleted /\ Head(completed).op = "recv" /\ Len(queue) < ChanCap
      /\ queue' = Append(queue, e)
      /\ timestamp' = [timestamp EXCEPT ![b] = {"recv_cqe", "shard_done"}]
      /\ UNCHANGED <<out, sq, visible, cached, inflight, cq, memory, slot, pushed,
                     wire, lost>>
  BY DEF HandleRecv, Route, ringVars
<1>2. /\ b \in Buffer /\ queue' \in Seq(ShardElem) /\ Len(queue') = Len(queue) + 1
      /\ Moves(b, "vec_recv", "shard") /\ Single'
  BY HandleRecvMoves
<1>3. In("vec_recv", b)
  BY <1>2 DEF Moves
<1>4. 0 \notin Lens /\ slot[b] # NoAddr => memory[b] = slot[b]
  BY <1>2, <1>3 DEF IInv, Addressed, SlotTrue
<1>5. timestamp \in [Buffer -> SUBSET {"recv_cqe", "shard_done", "send_sqe"}]
  BY DEF IInv, TypeOK
<1>6. queue \in Seq(ShardElem) /\ Len(queue) \in Nat /\ DOMAIN queue = 1..Len(queue)
  <2>1. queue \in Seq(ShardElem)
    BY DEF IInv, TypeOK, ShardElem
  <2> QED
    BY <2>1, Elements
<1>7. e.buf_idx = b /\ e.src = slot[b]
  OBVIOUS
<1>8. e \in ShardElem
  <2>1. slot[b] \in Addr
    BY <1>2 DEF IInv, TypeOK
  <2> QED
    BY <1>2, <2>1 DEF ShardElem
<1> HIDE DEF b, e
<1>9. /\ \A c \in Buffer : c # b => timestamp'[c] = timestamp[c]
      /\ timestamp'[b] = {"recv_cqe", "shard_done"}
      /\ timestamp' \in [Buffer -> SUBSET {"recv_cqe", "shard_done", "send_sqe"}]
  BY <1>1, <1>2, <1>5
<1>10. TypeOK'
  <2>1. queue' \in Seq([buf_idx : Buffer, src : Addr]) /\ Len(queue') <= ChanCap
    BY <1>1, <1>2, <1>6, Sizes DEF ShardElem
  <2>2. completed' \in Seq(Done)
    BY <1>1, TakeCompleted
  <2>3. pc' \in {"send", "reap", "idle", "process", "panicked"}
    BY <1>1 DEF NextCompleted
  <2> QED
    BY <1>1, <1>9, <2>1, <2>2, <2>3 DEF IInv, TypeOK
<1>11. Owned'
  BY <1>1, <1>2, MoveOwned DEF IInv, Stage
<1>12. RingHasRoom'
  BY <1>1 DEF IInv, RingHasRoom
<1>13. VecInUse'
  <2>1. /\ pc' # "panicked" /\ (pc' = "process" <=> completed' # <<>>)
        /\ \A i \in DOMAIN completed' : completed'[i].more => completed'[i].op = "send"
    BY <1>1, TakeCompleted
  <2> QED
    BY <1>1, <2>1 DEF IInv, VecInUse
<1>14. Marked'
  BY <1>2, <1>9, MoveMarked DEF IInv, Stage
<1>15. ASSUME 0 \notin Lens PROVE Addressed'
  <2>1. SlotTrue'
    BY <1>1, <1>2, <1>15, MoveSlot DEF IInv, Stage, Addressed
  <2>2. AnswerTrue' /\ SendTrue'
    BY <1>1, <1>15 DEF IInv, Addressed, AnswerTrue, SendTrue
  <2>3. PacketTrue'
    <3> SUFFICES ASSUME NEW i \in DOMAIN queue', queue'[i].src # NoAddr
                 PROVE  memory[queue'[i].buf_idx] = queue'[i].src
      BY <1>1 DEF PacketTrue
    <3>1. DOMAIN queue' = 1..(Len(queue) + 1)
      BY <1>2, Elements
    <3>2. (i \in 1..Len(queue) /\ queue'[i] = queue[i]) \/ queue'[i] = e
      BY <1>1, <1>6, <1>8, <3>1
    <3> QED
      BY <1>4, <1>6, <1>7, <1>15, <3>2 DEF IInv, Addressed, PacketTrue
  <2> QED
    BY <2>1, <2>2, <2>3 DEF Addressed
<1> QED
  BY <1>2, <1>10, <1>11, <1>12, <1>13, <1>14, <1>15 DEF IInv

\* What depends on the stages only.
LEMMA StayKeeps ==
  ASSUME IInv, Stays, Single', UNCHANGED <<queue, out, sq, visible, cached, inflight,
            memory, slot, timestamp, wire, lost>>
  PROVE  Owned' /\ RingHasRoom' /\ Marked' /\ (0 \notin Lens => Addressed')
<1>1. Owned'
  BY StayOwned DEF IInv
<1>2. RingHasRoom'
  BY DEF IInv, RingHasRoom
<1>3. Marked'
  BY DEF IInv, Marked, Stays, Stage
<1>4. ASSUME 0 \notin Lens PROVE SlotTrue'
  BY <1>4 DEF IInv, Addressed, SlotTrue, Stays, Stage
<1>5. ASSUME 0 \notin Lens PROVE PacketTrue' /\ AnswerTrue' /\ SendTrue'
  BY <1>5 DEF IInv, Addressed, PacketTrue, AnswerTrue, SendTrue
<1> QED
  BY <1>1, <1>2, <1>3, <1>4, <1>5 DEF Addressed

LEMMA HandleSendMoreKeeps ==
  ASSUME IInv, HandleSendMore
  PROVE  IInv'
<1>1. /\ NextCompleted
      /\ UNCHANGED <<queue, out, sq, visible, cached, inflight, cq, memory, slot,
                     timestamp, pushed, wire, lost>>
  BY DEF HandleSendMore, ringVars, poolVars
<1>2. Stays /\ Single'
  BY HandleSendMoreStays
<1>3. /\ completed' \in Seq(Done)
      /\ pc' # "panicked" /\ (pc' = "process" <=> completed' # <<>>)
      /\ \A i \in DOMAIN completed' : completed'[i].more => completed'[i].op = "send"
  BY <1>1, TakeCompleted
<1>4. TypeOK'
  BY <1>1, <1>3 DEF IInv, TypeOK, NextCompleted
<1>5. VecInUse'
  BY <1>1, <1>3 DEF IInv, VecInUse
<1>6. Owned' /\ RingHasRoom' /\ Marked' /\ (0 \notin Lens => Addressed')
  BY <1>1, <1>2, StayKeeps
<1> QED
  BY <1>2, <1>4, <1>5, <1>6 DEF IInv

LEMMA HandleSendLastKeeps ==
  ASSUME IInv, HandleSendLast
  PROVE  IInv'
<1> DEFINE b == Head(completed).idx
<1>1. /\ b \in Buffer /\ NextCompleted /\ Push("recv", b)
      /\ Moves(b, "vec_send", "sq_recv") /\ Single'
  BY HandleSendLastMoves
<1>2. /\ slot' = [slot EXCEPT ![b] = NoAddr]
      /\ timestamp' = [timestamp EXCEPT ![b] = {}]
      /\ UNCHANGED <<queue, out, visible, inflight, cq, memory, pushed, wire>>
  BY DEF HandleSendLast, PostRecv
<1>3. ~In("sq_recv", b) /\ ~In("sq_send", b)
  BY <1>1, Elsewhere DEF IInv, Moves, Stage
<1>4. /\ sq' \in Seq(SqElem) /\ Len(sq') = Len(sq) + 1
      /\ cached' \in Len(sq')..SqCap /\ cached' <= PoolSize + Len(sq')
      /\ visible = 0 /\ lost' = lost
  BY <1>1, <1>3, PushMoves
<1>5. /\ slot \in [Buffer -> Addr]
      /\ timestamp \in [Buffer -> SUBSET {"recv_cqe", "shard_done", "send_sqe"}]
  BY DEF IInv, TypeOK
<1>6. /\ completed' \in Seq(Done)
      /\ pc' # "panicked" /\ (pc' = "process" <=> completed' # <<>>)
      /\ \A i \in DOMAIN completed' : completed'[i].more => completed'[i].op = "send"
  BY <1>1, TakeCompleted
<1> HIDE DEF b
<1>7. /\ \A c \in Buffer : c # b => slot'[c] = slot[c] /\ timestamp'[c] = timestamp[c]
      /\ slot' \in [Buffer -> Addr]
      /\ timestamp' \in [Buffer -> SUBSET {"recv_cqe", "shard_done", "send_sqe"}]
  BY <1>1, <1>2, <1>5, Sizes
<1>8. TypeOK'
  <2>1. sq' \in Seq([op : {"recv", "send"}, idx : Buffer])
    BY <1>4 DEF SqElem
  <2>2. visible' \in 0..Len(sq')
    <3>1. Len(sq) \in Nat
      BY DEF IInv, TypeOK
    <3> QED
      BY <1>2, <1>4, <3>1
  <2>3. pc' \in {"send", "reap", "idle", "process", "panicked"}
    BY <1>1 DEF NextCompleted
  <2> QED
    BY <1>2, <1>4, <1>6, <1>7, <2>1, <2>2, <2>3 DEF IInv, TypeOK
<1>9. Owned'
  BY <1>1, <1>4, MoveOwned DEF IInv, Stage
<1>10. RingHasRoom'
  <2>1. ~(visible' > 0) /\ visible' = 0
    BY <1>2, <1>4
  <2>2. cached' + visible' <= PoolSize + Len(sq')
    BY <1>4, <1>8, <2>1 DEF TypeOK
  <2> QED
    BY <2>1, <2>2 DEF RingHasRoom
<1>11. VecInUse'
  BY <1>2, <1>6 DEF IInv, VecInUse
<1>12. Marked'
  BY <1>1, <1>7, MoveMarked DEF IInv, Stage
<1>13. ASSUME 0 \notin Lens PROVE Addressed'
  <2>1. SlotTrue'
    BY <1>1, <1>2, <1>7, <1>13, MoveSlot DEF IInv, Stage, Addressed
  <2>2. PacketTrue' /\ AnswerTrue' /\ SendTrue'
    BY <1>2, <1>13 DEF IInv, Addressed, PacketTrue, AnswerTrue, SendTrue
  <2> QED
    BY <2>1, <2>2 DEF Addressed
<1> QED
  BY <1>1, <1>8, <1>9, <1>10, <1>11, <1>12, <1>13 DEF IInv

\* Flush and the first ReapNothing: the ring is empty afterwards.
LEMMA SubmitKeeps ==
  ASSUME IInv, sq' = <<>>, visible' = 0, inflight' = inflight \union Started(Len(sq)),
         cached' \in 0..SqCap, cached' <= PoolSize,
         UNCHANGED <<queue, out, cq, completed, memory, slot, timestamp, wire, lost>>,
         pc = "send" \/ pc = "reap", pc' = "reap" \/ pc' = "idle", pushed' \in 0..MaxBatch
  PROVE  IInv'
<1>1. /\ inflight' \subseteq KernelElem
      /\ \A x \in Stage, c \in Buffer : In(x, c)' <=> Handed(x, c)
      /\ Single'
  BY SubmitMoves
<1>2. sq' \in Seq(SqElem) /\ Len(sq') = 0
  OBVIOUS
<1>3. TypeOK'
  <2>1. sq' \in Seq([op : {"recv", "send"}, idx : Buffer])
    BY <1>2 DEF SqElem
  <2>2. visible' \in 0..Len(sq') /\ cached' \in Len(sq')..SqCap
    BY <1>2
  <2> QED
    BY <1>1, <2>1, <2>2 DEF IInv, TypeOK, KernelElem
<1>4. Owned'
  BY <1>1, HandedOwned DEF IInv
<1>5. RingHasRoom'
  <2>1. cached' \in Nat
    BY Sizes
  <2>2. cached' + visible' <= PoolSize + Len(sq')
    <3>1. \A a, n \in Nat : a <= n => a + 0 <= n + 0
      OBVIOUS
    <3>2. cached' \in Nat /\ PoolSize \in Nat /\ cached' <= PoolSize
      BY <2>1, Sizes
    <3>3. cached' + 0 <= PoolSize + 0
      BY <3>1, <3>2
    <3> QED
      BY <1>2, <3>3
  <2> QED
    BY <2>2 DEF RingHasRoom
<1>6. VecInUse'
  BY DEF IInv, VecInUse
<1>7. Marked'
  BY <1>1 DEF IInv, Marked, Handed, Stage
<1>8. ASSUME 0 \notin Lens PROVE Addressed'
  <2>1. SlotTrue'
    BY <1>1, <1>8 DEF IInv, Addressed, SlotTrue, Handed, Stage
  <2>2. PacketTrue' /\ AnswerTrue'
    BY <1>8 DEF IInv, Addressed, PacketTrue, AnswerTrue
  <2>3. SendTrue'
    <3> SUFFICES ASSUME NEW e \in inflight', e.op # "recv"
                 PROVE  memory[e.idx] \in Endpoints /\ e.dst = RouteTo(memory[e.idx])
      BY DEF SendTrue, RouteTo
    <3>1. CASE e \in inflight
      BY <1>8, <3>1 DEF IInv, Addressed, SendTrue
    <3>2. CASE e \in Started(Len(sq))
      <4>1. PICK i \in 1..Len(sq) :
               e = [op |-> sq[i].op, idx |-> sq[i].idx, dst |-> slot[sq[i].idx]]
        BY <3>2 DEF Started
      <4>2. sq[i] \in SqElem /\ DOMAIN sq = 1..Len(sq)
        <5>1. sq \in Seq(SqElem)
          BY DEF IInv, TypeOK, SqElem
        <5> QED
          BY <5>1, Elements
      <4>3. sq[i].idx \in Buffer /\ sq[i] = [op |-> "send", idx |-> sq[i].idx]
        BY <4>1, <4>2 DEF SqElem
      <4>4. Has(sq, SqEntry("send", sq[i].idx))
        BY <4>2, <4>3 DEF Has, SqEntry
      <4>5. In("sq_send", sq[i].idx)
        BY <4>4 DEF In
      <4> QED
        BY <1>8, <4>1, <4>3, <4>5 DEF IInv, Addressed, SlotTrue
    <3> QED
      BY <3>1, <3>2
  <2> QED
    BY <2>1, <2>2, <2>3 DEF Addressed
<1> QED
  BY <1>1, <1>3, <1>4, <1>5, <1>6, <1>7, <1>8 DEF IInv

LEMMA FlushKeeps ==
  ASSUME IInv, Flush
  PROVE  IInv'
<1>1. cached' \in 0..SqCap /\ cached' <= PoolSize
  <2>1. Len(sq) \in Nat /\ Len(sq) <= PoolSize /\ cached' = Len(sq)
    BY RingFits DEF IInv, TypeOK, Flush
  <2> QED
    BY <2>1, Sizes
<1>2. 0 \in 0..MaxBatch
  BY Sizes
<1> QED
  BY <1>1, <1>2, SubmitKeeps DEF Flush, poolVars

LEMMA NoFlushKeeps ==
  ASSUME IInv, NoFlush
  PROVE  IInv'
<1>1. /\ pc = "send" /\ pc' = "reap"
      /\ UNCHANGED <<queue, out, sq, visible, cached, inflight, cq, completed, memory,
                     slot, timestamp, pushed, wire, lost>>
  BY DEF NoFlush, ringVars, poolVars
<1>2. Stays
  BY <1>1 DEF Stays, In, Runs
<1>3. Single'
  BY <1>1 DEF IInv, Single
<1>4. TypeOK'
  BY <1>1 DEF IInv, TypeOK
<1>5. VecInUse'
  BY <1>1 DEF IInv, VecInUse
<1> QED
  BY <1>1, <1>2, <1>3, <1>4, <1>5, StayKeeps DEF IInv

LEMMA ReapNothingKeeps ==
  ASSUME IInv, ReapNothing
  PROVE  IInv'
<1>1. /\ pc = "reap" /\ pc' = "idle" /\ visible' = 0
      /\ UNCHANGED <<queue, out, cached, cq, completed, memory, slot, timestamp, pushed,
                     wire, lost>>
      /\ inflight' = inflight \union Started(visible)
      /\ sq' = SubSeq(sq, visible + 1, Len(sq))
  BY DEF ReapNothing, poolVars
<1>2. /\ sq \in Seq(SqElem) /\ Len(sq) \in Nat /\ visible \in 0..Len(sq)
      /\ cached \in Len(sq)..SqCap /\ pushed \in 0..MaxBatch
  BY DEF IInv, TypeOK, SqElem
<1>3. CASE visible = 0
  <2>1. sq' = sq
    <3>1. SubSeq(sq, 1, Len(sq)) = sq
      BY <1>2
    <3> QED
      BY <1>1, <1>3, <3>1
  <2>2. inflight' = inflight
    <3>1. Started(0) = {}
      BY DEF Started
    <3> QED
      BY <1>1, <1>3, <3>1
  <2>3. Stays
    <3>1. UNCHANGED <<sq, inflight, cq, completed, queue, out>>
      BY <1>1, <2>1, <2>2
    <3> QED
      BY <3>1 DEF Stays, In, Runs
  <2>4. Single'
    BY <1>1, <2>1, <2>2 DEF IInv, Single
  <2>5. TypeOK'
    BY <1>1, <1>3, <2>1, <2>2 DEF IInv, TypeOK
  <2>6. VecInUse'
    BY <1>1 DEF IInv, VecInUse
  <2> QED
    BY <1>1, <1>3, <2>1, <2>2, <2>3, <2>4, <2>5, <2>6, StayKeeps DEF IInv
<1>4. CASE visible > 0
  <2>1. visible = Len(sq) /\ cached + visible <= PoolSize + Len(sq)
    BY <1>4 DEF IInv, RingHasRoom
  <2>2. sq' = <<>>
    <3>1. SubSeq(sq, Len(sq) + 1, Len(sq)) = <<>>
      BY <1>2
    <3> QED
      BY <1>1, <2>1, <3>1
  <2>3. cached' \in 0..SqCap /\ cached' <= PoolSize
    BY <1>1, <1>2, <2>1, Sizes
  <2>4. inflight' = inflight \union Started(Len(sq))
    BY <1>1, <2>1
  <2> QED
    BY <1>1, <1>2, <2>2, <2>3, <2>4, SubmitKeeps
<1> QED
  BY <1>2, <1>3, <1>4

LEMMA ReapKeeps ==
  ASSUME IInv, Reap
  PROVE  IInv'
<1>1. /\ completed' \in Seq(Done) /\ (completed' = <<>> <=> cq = <<>>)
      /\ \A i \in DOMAIN completed' : completed'[i].more => completed'[i].op = "send"
      /\ \A x \in Stage, c \in Buffer : In(x, c)' <=> Copied(x, c)
      /\ Single'
  BY ReapMoves
<1>2. /\ pc \in {"reap", "idle"} /\ cq' = <<>>
      /\ pc' = IF cq = <<>> THEN "send" ELSE "process"
      /\ UNCHANGED <<queue, out, sq, visible, cached, inflight, memory, slot, timestamp,
                     pushed, wire, lost>>
  BY DEF Reap, poolVars
<1>3. TypeOK'
  <2>1. cq' \in Seq(Cqe)
    BY <1>2
  <2> QED
    BY <1>1, <1>2, <2>1 DEF IInv, TypeOK
<1>4. \A c \in Buffer : ~In("vec_recv", c) /\ ~In("vec_send", c)
  <2>1. completed = <<>>
    BY <1>2 DEF IInv, VecInUse
  <2> QED
    BY <2>1, HasEmpty DEF In
<1>5. Owned'
  BY <1>1, <1>2, <1>4, CopiedOwned DEF IInv
<1>6. RingHasRoom'
  BY <1>2 DEF IInv, RingHasRoom
<1>7. VecInUse'
  BY <1>1, <1>2 DEF IInv, VecInUse
<1>8. Marked'
  BY <1>1, <1>2 DEF IInv, Marked, Copied, Stage
<1>9. ASSUME 0 \notin Lens PROVE Addressed'
  <2>1. SlotTrue'
    BY <1>1, <1>2, <1>9 DEF IInv, Addressed, SlotTrue, Copied, Stage
  <2>2. PacketTrue' /\ AnswerTrue' /\ SendTrue'
    BY <1>2, <1>9 DEF IInv, Addressed, PacketTrue, AnswerTrue, SendTrue
  <2> QED
    BY <2>1, <2>2 DEF Addressed
<1> QED
  BY <1>1, <1>3, <1>5, <1>6, <1>7, <1>8, <1>9 DEF IInv

LEMMA HandlePacketKeeps ==
  ASSUME IInv, HandlePacket
  PROVE  IInv'
<1> DEFINE h == Head(queue)
           b == h.buf_idx
<1>1. UNCHANGED <<sq, visible, cached, inflight, cq, completed, memory, slot, timestamp,
                  pc, pushed, wire>>
  BY DEF HandlePacket, ringVars, poolVars
<1>2. /\ h \in ShardElem /\ b \in Buffer /\ h.src \in Addr
      /\ queue' \in Seq(ShardElem) /\ Len(queue') = Len(queue) - 1
      /\ In("shard", b) /\ h = queue[1] /\ 1 \in DOMAIN queue
      /\ \A i \in DOMAIN queue' : i + 1 \in DOMAIN queue /\ queue'[i] = queue[i + 1]
  BY TakePacket
<1>3. queue' \in Seq([buf_idx : Buffer, src : Addr]) /\ Len(queue') <= ChanCap
  <2>1. Len(queue) \in Nat /\ Len(queue) <= ChanCap
    BY DEF IInv, TypeOK
  <2> QED
    BY <1>2, <2>1, Sizes DEF ShardElem
<1>4. RingHasRoom' /\ VecInUse'
  BY <1>1 DEF IInv, RingHasRoom, VecInUse
<1>5. ASSUME 0 \notin Lens PROVE PacketTrue' /\ SendTrue'
  BY <1>1, <1>2, <1>5 DEF IInv, Addressed, PacketTrue, SendTrue
<1>6. CASE h.src \in Endpoints
  <2> DEFINE e == [dst |-> RouteTo(h.src), idx |-> b]
  <2>1. /\ out' = Append(out, e) /\ e \in OutElem
        /\ out' \in Seq(OutElem) /\ Len(out') = Len(out) + 1
        /\ Len(out) < ChanCap /\ lost' = lost
        /\ Moves(b, "shard", "out") /\ Single'
    BY <1>6, SessionMoves
  <2>2. e.dst = RouteTo(h.src) /\ e.idx = b
    OBVIOUS
  <2>3. h.src # NoAddr
    BY <1>6, Sizes DEF Endpoints
  <2>4. /\ 0 \notin Lens => memory[b] = h.src
        /\ timestamp[b] = {"recv_cqe", "shard_done"}
    <3>1. 0 \notin Lens => memory[b] = h.src
      BY <1>2, <2>3 DEF IInv, Addressed, PacketTrue
    <3>2. timestamp[b] = {"recv_cqe", "shard_done"}
      BY <1>2 DEF IInv, Marked
    <3> QED
      BY <3>1, <3>2
  <2> HIDE DEF e, b, h
  <2>5. out \in Seq(OutElem) /\ Len(out) \in Nat /\ DOMAIN out = 1..Len(out)
    <3>1. out \in Seq(OutElem)
      BY DEF IInv, TypeOK, OutElem
    <3> QED
      BY <3>1, Elements
  <2>6. TypeOK'
    <3>1. out' \in Seq([dst : Addr, idx : Buffer]) /\ Len(out') <= ChanCap
      BY <2>1, <2>5, Sizes DEF OutElem
    <3> QED
      BY <1>1, <1>3, <2>1, <3>1 DEF IInv, TypeOK
  <2>7. Owned'
    BY <1>2, <2>1, MoveOwned DEF IInv, Stage
  <2>8. Marked'
    BY <1>1, <1>2, <2>1, <2>4, MoveMarked DEF IInv, Stage
  <2>9. ASSUME 0 \notin Lens PROVE SlotTrue'
    BY <1>1, <1>2, <2>1, <2>9, MoveSlot DEF IInv, Stage, Addressed
  <2>10. ASSUME 0 \notin Lens PROVE AnswerTrue'
    <3> SUFFICES ASSUME NEW i \in DOMAIN out'
                 PROVE  memory[out'[i].idx] \in Endpoints
                        /\ out'[i].dst = RouteTo(memory[out'[i].idx])
      BY <1>1 DEF AnswerTrue, RouteTo
    <3>1. DOMAIN out' = 1..(Len(out) + 1)
      BY <2>1, Elements
    <3>2. (i \in 1..Len(out) /\ out'[i] = out[i]) \/ out'[i] = e
      BY <2>1, <2>5, <3>1
    <3> QED
      BY <1>6, <2>2, <2>4, <2>5, <2>10, <3>2 DEF IInv, Addressed, AnswerTrue
  <2> QED
    BY <1>4, <1>5, <2>1, <2>6, <2>7, <2>8, <2>9, <2>10 DEF IInv, Addressed
<1>7. CASE h.src \notin Endpoints
  <2>1. /\ lost' = [lost EXCEPT ![b] = "no_session"] /\ out' = out
        /\ \A x \in Stage, c \in Buffer : In(x, c)' <=> In(x, c) /\ c # b
        /\ Owned' /\ Single'
    BY <1>7, NoSessionMoves
  <2> HIDE DEF b, h
  <2>2. TypeOK'
    <3>1. lost' \in [Buffer -> {"no", "no_session", "sq_full"}]
      BY <2>1 DEF IInv, TypeOK
    <3> QED
      BY <1>1, <1>3, <2>1, <3>1 DEF IInv, TypeOK
  <2>3. Marked'
    BY <1>1, <2>1 DEF IInv, Marked, Stage
  <2>4. ASSUME 0 \notin Lens PROVE SlotTrue' /\ AnswerTrue'
    BY <1>1, <2>1, <2>4 DEF IInv, Addressed, SlotTrue, AnswerTrue, Stage
  <2> QED
    BY <1>4, <1>5, <2>1, <2>2, <2>3, <2>4 DEF IInv, Addressed
<1> QED
  BY <1>6, <1>7

\* What every end of a kernel operation leaves in place.
LEMMA EndKeeps ==
  ASSUME IInv, NEW e \in inflight, NEW op \in {"recv", "send"}, Complete(e, op, FALSE),
         inflight' = inflight \ {e}, op = "recv" <=> e.op = "recv",
         UNCHANGED <<queue, out, sq, visible, cached, completed, timestamp, pc, pushed, lost>>,
         memory' \in [Buffer -> Addr], slot' \in [Buffer -> Addr], wire' \subseteq Addr \X Addr
  PROVE  TypeOK' /\ Owned' /\ Single' /\ RingHasRoom' /\ VecInUse' /\ Marked'
<1> DEFINE from == KernelStage(e.op)
           to == IF op = "recv" THEN "cq_recv" ELSE "cq_send"
<1>1. Moves(e.idx, from, to) /\ Single'
  BY EndMoves
<1>2. /\ cq' \in Seq(Cqe)
      /\ \A i \in DOMAIN cq' :
            cq'[i].more => \E b \in Buffer : cq'[i].user_data = EncodeToken("send", b)
  BY CompleteAdds
<1>3. inflight' \subseteq KernelElem
  BY RunsWithout
<1>4. e.idx \in Buffer /\ from \in Stage /\ to \in Stage /\ In(from, e.idx)
      /\ (op = "send" => from \in {"k_send", "k_notif"})
  BY KernelHas DEF Stage, KernelStage
<1> HIDE DEF from
<1>5. TypeOK'
  BY <1>2, <1>3 DEF IInv, TypeOK, KernelElem
<1>6. Owned'
  BY <1>1, <1>4, MoveOwned DEF IInv
<1>7. RingHasRoom'
  BY DEF IInv, RingHasRoom
<1>8. VecInUse'
  BY <1>2 DEF IInv, VecInUse
<1>9. to = "cq_send" => timestamp[e.idx] = {"recv_cqe", "shard_done", "send_sqe"}
  BY <1>4 DEF IInv, Marked
<1>10. Marked'
  BY <1>1, <1>4, <1>9, MoveMarked DEF IInv
<1> QED
  BY <1>1, <1>5, <1>6, <1>7, <1>8, <1>10

\* The buffers of packets and answers are not the kernel's.
LEMMA NotWithKernel ==
  ASSUME IInv, NEW e \in inflight
  PROVE  /\ \A i \in DOMAIN queue : queue[i].buf_idx \in Buffer /\ queue[i].buf_idx # e.idx
         /\ \A i \in DOMAIN out : out[i].idx \in Buffer /\ out[i].idx # e.idx
<1>1. ~In("shard", e.idx) /\ ~In("out", e.idx)
  BY KernelHas DEF Stage, KernelStage
<1>2. ASSUME NEW i \in DOMAIN queue
      PROVE  queue[i].buf_idx \in Buffer /\ queue[i].buf_idx # e.idx
  <2>1. queue \in Seq(ShardElem)
    BY DEF IInv, TypeOK, ShardElem
  <2>2. queue[i] \in ShardElem
    BY <2>1, Elements
  <2>3. queue[i].buf_idx \in Buffer /\ queue[i] \in ShardEntry(queue[i].buf_idx)
    BY <2>2, Entries DEF ShardElem
  <2> QED
    BY <1>1, <2>3 DEF In, Has
<1>3. ASSUME NEW i \in DOMAIN out PROVE out[i].idx \in Buffer /\ out[i].idx # e.idx
  <2>1. out \in Seq(OutElem)
    BY DEF IInv, TypeOK, OutElem
  <2>2. out[i] \in OutElem
    BY <2>1, Elements
  <2>3. out[i].idx \in Buffer /\ out[i] \in OutEntry(out[i].idx)
    BY <2>2, Entries DEF OutElem
  <2> QED
    BY <1>1, <2>3 DEF In, Has
<1> QED
  BY <1>2, <1>3

LEMMA KernelRecvKeeps ==
  ASSUME IInv, NEW e \in inflight, NEW src \in Addr, NEW n \in Lens \union {0},
         KernelRecv(e, src, n)
  PROVE  IInv'
<1> DEFINE b == e.idx
<1>1. /\ e.op = "recv" /\ Complete(e, "recv", FALSE) /\ inflight' = inflight \ {e}
      /\ n \in IF src = NoAddr THEN {0} ELSE Lens
      /\ memory' = [memory EXCEPT ![b] = IF n = 0 THEN @ ELSE src]
      /\ slot' = [slot EXCEPT ![b] = src]
      /\ UNCHANGED <<queue, out, sq, visible, cached, completed, timestamp, pc, pushed,
                     wire, lost>>
  BY DEF KernelRecv
<1>2. b \in Buffer
  BY KernelHas
<1>3. memory \in [Buffer -> Addr] /\ slot \in [Buffer -> Addr] /\ wire \subseteq Addr \X Addr
  BY DEF IInv, TypeOK
<1>4. Moves(b, "k_recv", "cq_recv")
  BY <1>1, EndMoves DEF KernelStage
<1> HIDE DEF b
<1>5. /\ memory' \in [Buffer -> Addr] /\ slot' \in [Buffer -> Addr]
      /\ wire' \subseteq Addr \X Addr
      /\ \A c \in Buffer : c # b => slot'[c] = slot[c] /\ memory'[c] = memory[c]
      /\ 0 \notin Lens /\ slot'[b] # NoAddr => memory'[b] = slot'[b]
  BY <1>1, <1>2, <1>3
<1>6. TypeOK' /\ Owned' /\ Single' /\ RingHasRoom' /\ VecInUse' /\ Marked'
  BY <1>1, <1>5, EndKeeps
<1>7. ASSUME 0 \notin Lens PROVE SlotTrue'
  BY <1>2, <1>4, <1>5, <1>7, MoveSlot DEF IInv, Stage, Addressed
<1>8. ASSUME 0 \notin Lens PROVE PacketTrue' /\ AnswerTrue'
  <2>1. /\ \A i \in DOMAIN queue : memory'[queue[i].buf_idx] = memory[queue[i].buf_idx]
        /\ \A i \in DOMAIN out : memory'[out[i].idx] = memory[out[i].idx]
    BY <1>5, NotWithKernel DEF b
  <2> QED
    BY <1>1, <1>8, <2>1 DEF IInv, Addressed, PacketTrue, AnswerTrue
<1>9. ASSUME 0 \notin Lens PROVE SendTrue'
  <2>1. \A f \in inflight' : f \in inflight /\ f.idx \in Buffer /\ f.idx # b
    BY <1>1, KernelHas DEF b, IInv, Single
  <2> QED
    BY <1>5, <1>9, <2>1 DEF IInv, Addressed, SendTrue
<1> QED
  BY <1>6, <1>7, <1>8, <1>9 DEF IInv, Addressed

\* KernelSendFail and KernelNotif.
LEMMA SendEndKeeps ==
  ASSUME IInv, NEW e \in inflight, e.op \in {"send", "notif"}, Complete(e, "send", FALSE),
         inflight' = inflight \ {e},
         UNCHANGED <<queue, out, sq, visible, cached, completed, memory, slot, timestamp,
                     pc, pushed, lost>>,
         wire' \subseteq Addr \X Addr
  PROVE  IInv'
<1>1. memory \in [Buffer -> Addr] /\ slot \in [Buffer -> Addr] /\ e.idx \in Buffer
  BY KernelHas DEF IInv, TypeOK
<1>2. TypeOK' /\ Owned' /\ Single' /\ RingHasRoom' /\ VecInUse' /\ Marked'
  BY <1>1, EndKeeps
<1>3. Moves(e.idx, KernelStage(e.op), "cq_send") /\ KernelStage(e.op) \in Stage
  BY EndMoves, KernelHas
<1>4. ASSUME 0 \notin Lens PROVE SlotTrue'
  BY <1>1, <1>3, <1>4, MoveSlot DEF IInv, Stage, Addressed
<1>5. ASSUME 0 \notin Lens PROVE PacketTrue' /\ AnswerTrue' /\ SendTrue'
  BY <1>5 DEF IInv, Addressed, PacketTrue, AnswerTrue, SendTrue
<1> QED
  BY <1>2, <1>4, <1>5 DEF IInv, Addressed

LEMMA KernelSendKeeps ==
  ASSUME IInv, NEW e \in inflight, KernelSend(e)
  PROVE  IInv'
<1> DEFINE b == e.idx
<1>1. /\ e.op = "send" /\ Complete(e, "send", TRUE)
      /\ UNCHANGED <<queue, out, sq, visible, cached, completed, memory, slot, timestamp,
                     pc, pushed, wire, lost>>
  BY DEF KernelSend, poolVars
<1>2. /\ Moves(b, "k_send", "k_notif") /\ Single' /\ inflight' \subseteq KernelElem
      /\ \A f \in inflight' :
            f \in inflight \/ (f.op = "notif" /\ f.idx = b /\ f.dst = e.dst)
  BY KernelSendMoves
<1>3. b \in Buffer /\ In("k_send", b)
  BY <1>2, KernelHas DEF Moves
<1>4. /\ cq' \in Seq(Cqe)
      /\ \A i \in DOMAIN cq' :
            cq'[i].more => \E c \in Buffer : cq'[i].user_data = EncodeToken("send", c)
  BY <1>1, CompleteAdds
<1>5. 0 \notin Lens => memory[b] \in Endpoints /\ e.dst = RouteTo(memory[b])
  BY <1>1 DEF IInv, Addressed, SendTrue
<1> HIDE DEF b
<1>6. TypeOK'
  BY <1>1, <1>2, <1>4 DEF IInv, TypeOK, KernelElem
<1>7. Owned'
  BY <1>1, <1>2, <1>3, MoveOwned DEF IInv, Stage
<1>8. RingHasRoom'
  BY <1>1 DEF IInv, RingHasRoom
<1>9. VecInUse'
  BY <1>1, <1>4 DEF IInv, VecInUse
<1>10. Marked'
  <2>1. timestamp[b] = {"recv_cqe", "shard_done", "send_sqe"}
    BY <1>3 DEF IInv, Marked
  <2> QED
    BY <1>1, <1>2, <1>3, <2>1, MoveMarked DEF IInv, Stage
<1>11. ASSUME 0 \notin Lens PROVE SlotTrue'
  BY <1>1, <1>2, <1>3, <1>11, MoveSlot DEF IInv, Stage, Addressed
<1>12. ASSUME 0 \notin Lens PROVE PacketTrue' /\ AnswerTrue'
  BY <1>1, <1>12 DEF IInv, Addressed, PacketTrue, AnswerTrue
<1>13. ASSUME 0 \notin Lens PROVE SendTrue'
  BY <1>1, <1>2, <1>5, <1>13 DEF IInv, Addressed, SendTrue
<1> QED
  BY <1>2, <1>6, <1>7, <1>8, <1>9, <1>10, <1>11, <1>12, <1>13 DEF IInv, Addressed

LEMMA InitHolds == Init => IInv
<1> SUFFICES ASSUME Init PROVE IInv
  OBVIOUS
<1> DEFINE q == [i \in 1..PoolSize |-> [op |-> "recv", idx |-> PoolSize - i]]
<1>1. /\ queue = <<>> /\ out = <<>> /\ sq = q
      /\ visible = PoolSize /\ cached = PoolSize
      /\ inflight = {} /\ cq = <<>> /\ completed = <<>>
      /\ memory = [b \in Buffer |-> NoAddr] /\ slot = [b \in Buffer |-> NoAddr]
      /\ timestamp = [b \in Buffer |-> {}]
      /\ pc = "send" /\ pushed = 0
      /\ wire = {} /\ lost = [b \in Buffer |-> "no"]
  BY DEF Init
<1>2. /\ \A i \in 1..PoolSize : PoolSize - i \in Buffer
      /\ \A b \in Buffer : PoolSize - b \in 1..PoolSize /\ PoolSize - (PoolSize - b) = b
      /\ \A i, j \in 1..PoolSize : PoolSize - i = PoolSize - j => i = j
  BY Sizes DEF Buffer
<1>3. /\ q \in Seq(SqElem) /\ Len(q) = PoolSize /\ DOMAIN q = 1..PoolSize
      /\ \A i \in 1..PoolSize : q[i] = [op |-> "recv", idx |-> PoolSize - i]
  <2>1. \A i \in 1..PoolSize : [op |-> "recv", idx |-> PoolSize - i] \in SqElem
    BY <1>2 DEF SqElem
  <2> QED
    BY <2>1, Sizes
<1> HIDE DEF q
<1>4. \A i \in 1..PoolSize : \A p, c : q[i] \in SqEntry(p, c) <=> p = "recv" /\ c = PoolSize - i
  <2> TAKE i \in 1..PoolSize
  <2> TAKE p, c
  <2>1. q[i] = [op |-> "recv", idx |-> PoolSize - i]
    BY <1>3
  <2> QED
    BY <2>1, Entries
<1>5. \A b \in Buffer : /\ Has(q, SqEntry("recv", b)) /\ ~Has(q, SqEntry("send", b))
                        /\ One(q, SqEntry("recv", b)) /\ One(q, SqEntry("send", b))
  <2> TAKE b \in Buffer
  <2>1. PoolSize - b \in 1..PoolSize /\ q[PoolSize - b] \in SqEntry("recv", b)
    BY <1>2, <1>4
  <2>2. Has(q, SqEntry("recv", b))
    BY <1>3, <2>1 DEF Has
  <2>3. ~Has(q, SqEntry("send", b)) /\ One(q, SqEntry("send", b))
    BY <1>3, <1>4 DEF Has, One
  <2>4. One(q, SqEntry("recv", b))
    BY <1>2, <1>3, <1>4 DEF One
  <2> QED
    BY <2>2, <2>3, <2>4
<1>6. \A x \in Stage, b \in Buffer : In(x, b) <=> x = "sq_recv"
  <2>1. \A T : ~Has(<<>>, T)
    BY HasEmpty
  <2>2. \A p, b : ~Runs(p, b)
    BY <1>1 DEF Runs
  <2> QED
    BY <1>1, <1>5, <2>1, <2>2 DEF In, Stage
<1>7. TypeOK
  <2>1. queue \in Seq([buf_idx : Buffer, src : Addr]) /\ Len(queue) <= ChanCap
    BY <1>1, Sizes
  <2>2. out \in Seq([dst : Addr, idx : Buffer]) /\ Len(out) <= ChanCap
    BY <1>1, Sizes
  <2>3. /\ sq \in Seq([op : {"recv", "send"}, idx : Buffer])
        /\ visible \in 0..Len(sq) /\ cached \in Len(sq)..SqCap /\ pushed \in 0..MaxBatch
    <3>1. /\ PoolSize \in 0..PoolSize /\ PoolSize \in PoolSize..SqCap /\ 0 \in 0..MaxBatch
      BY Sizes
    <3> QED
      BY <1>1, <1>3, <3>1 DEF SqElem
  <2>4. cq \in Seq(Cqe) /\ completed \in Seq(Done)
    BY <1>1
  <2>5. /\ memory \in [Buffer -> Addr] /\ slot \in [Buffer -> Addr]
        /\ timestamp \in [Buffer -> SUBSET {"recv_cqe", "shard_done", "send_sqe"}]
        /\ lost \in [Buffer -> {"no", "no_session", "sq_full"}]
    BY <1>1, Sizes
  <2>6. /\ inflight \subseteq [op : {"recv", "send", "notif"}, idx : Buffer, dst : Addr]
        /\ wire \subseteq Addr \X Addr
        /\ pc \in {"send", "reap", "idle", "process", "panicked"}
    BY <1>1
  <2> QED
    BY <2>1, <2>2, <2>3, <2>4, <2>5, <2>6 DEF TypeOK
<1>8. Owned
  <2>1. \A b \in Buffer : lost[b] = "no"
    BY <1>1
  <2> QED
    BY <1>6, <2>1 DEF Owned, OwnedOnce, Stage
<1>9. Single
  <2>1. \A T : One(<<>>, T)
    BY HasEmpty
  <2> QED
    BY <1>1, <1>5, <2>1 DEF Single
<1>10. RingHasRoom
  <2>1. PoolSize + PoolSize <= PoolSize + PoolSize
    BY Sizes
  <2> QED
    BY <1>1, <1>3, <1>5, <2>1 DEF RingHasRoom
<1>11. VecInUse
  BY <1>1 DEF VecInUse
<1>12. Marked
  BY <1>6 DEF Marked, Stage
<1>13. Addressed
  <2>1. SlotTrue
    BY <1>6 DEF SlotTrue, Stage
  <2> QED
    BY <1>1, <2>1 DEF Addressed, PacketTrue, AnswerTrue, SendTrue
<1> QED
  BY <1>7, <1>8, <1>9, <1>10, <1>11, <1>12, <1>13 DEF IInv

LEMMA StepKeeps == IInv /\ [Next]_vars => IInv'
<1> SUFFICES ASSUME IInv, [Next]_vars PROVE IInv'
  OBVIOUS
<1>1. CASE SendMsg
  BY <1>1, SendMsgKeeps
<1>2. CASE Flush
  BY <1>2, FlushKeeps
<1>3. CASE NoFlush
  BY <1>3, NoFlushKeeps
<1>4. CASE ReapNothing
  BY <1>4, ReapNothingKeeps
<1>5. CASE Reap
  BY <1>5, ReapKeeps
<1>6. CASE HandleRecv
  BY <1>6, HandleRecvKeeps
<1>7. CASE HandleSendMore
  BY <1>7, HandleSendMoreKeeps
<1>8. CASE HandleSendLast
  BY <1>8, HandleSendLastKeeps
<1>9. CASE HandlePacket
  BY <1>9, HandlePacketKeeps
<1>10. ASSUME NEW e \in inflight, NEW src \in Addr, NEW n \in Lens \union {0},
              KernelRecv(e, src, n)
       PROVE  IInv'
  BY <1>10, KernelRecvKeeps
<1>11. ASSUME NEW e \in inflight, KernelSend(e) PROVE IInv'
  BY <1>11, KernelSendKeeps
<1>12. ASSUME NEW e \in inflight, KernelSendFail(e) PROVE IInv'
  <2>1. /\ e.op \in {"send", "notif"} /\ Complete(e, "send", FALSE)
        /\ inflight' = inflight \ {e}
        /\ UNCHANGED <<queue, out, sq, visible, cached, completed, memory, slot, timestamp,
                       pc, pushed, wire, lost>>
    BY <1>12 DEF KernelSendFail, poolVars
  <2>2. wire' \subseteq Addr \X Addr
    BY <2>1 DEF IInv, TypeOK
  <2> QED
    BY <2>1, <2>2, SendEndKeeps
<1>13. ASSUME NEW e \in inflight, KernelNotif(e) PROVE IInv'
  <2>1. /\ e.op \in {"send", "notif"} /\ Complete(e, "send", FALSE)
        /\ inflight' = inflight \ {e}
        /\ wire' = wire \union {<<memory[e.idx], e.dst>>}
        /\ UNCHANGED <<queue, out, sq, visible, cached, completed, memory, slot, timestamp,
                       pc, pushed, lost>>
    BY <1>13 DEF KernelNotif, poolVars
  <2>2. wire' \subseteq Addr \X Addr
    <3>1. memory[e.idx] \in Addr /\ e.dst \in Addr
      BY KernelHas DEF IInv, TypeOK
    <3> QED
      BY <2>1, <3>1 DEF IInv, TypeOK
  <2> QED
    BY <2>1, <2>2, SendEndKeeps
<1>14. CASE UNCHANGED vars
  <2>1. UNCHANGED <<queue, out, sq, visible, cached, inflight, cq, completed, memory, slot,
                    timestamp, pc, pushed, wire, lost>>
    BY <1>14 DEF vars
  <2>2. Stays
    BY <2>1 DEF Stays, In, Runs
  <2>3. Single' /\ VecInUse'
    BY <2>1 DEF IInv, Single, VecInUse
  <2>4. TypeOK'
    BY <2>1 DEF IInv, TypeOK
  <2> QED
    BY <2>1, <2>2, <2>3, <2>4, StayKeeps DEF IInv
<1> QED
  BY <1>1, <1>2, <1>3, <1>4, <1>5, <1>6, <1>7, <1>8, <1>9, <1>10, <1>11, <1>12, <1>13,
     <1>14 DEF Next, Loop

\* The inductive invariant holds in every reachable state.
THEOREM Invariance == Spec => []IInv
BY InitHolds, StepKeeps, PTL DEF Spec

(***************************************************************************)
(* What it says.                                                           *)
(***************************************************************************)

\* All variables of the loop, the shard and the kernel keep their types.
THEOREM TypeCorrect == Spec => []TypeOK
<1>1. IInv => TypeOK
  BY DEF IInv
<1> QED
  BY <1>1, Invariance, PTL

\* The unwraps in the Send branch never panic, whatever the size of the pool.
THEOREM UnwrapsSucceed == Spec => []NoPanic
<1>1. IInv => NoPanic
  BY DEF IInv, VecInUse, NoPanic
<1> QED
  BY <1>1, Invariance, PTL

\* Place p of buffer b belongs to stage x.
At(p, x, b) ==
  \/ x = "sq_recv" /\ \E i \in DOMAIN sq : p = <<"sq", i>> /\ sq[i] \in SqEntry("recv", b)
  \/ x = "sq_send" /\ \E i \in DOMAIN sq : p = <<"sq", i>> /\ sq[i] \in SqEntry("send", b)
  \/ x = "cq_recv" /\ \E i \in DOMAIN cq : p = <<"cq", i>> /\ cq[i] \in CqEntry("recv", b)
  \/ x = "cq_send" /\ \E i \in DOMAIN cq : p = <<"cq", i>> /\ cq[i] \in CqEntry("send", b)
  \/ x = "vec_recv" /\ \E i \in DOMAIN completed :
                         p = <<"vec", i>> /\ completed[i] \in VecEntry("recv", b)
  \/ x = "vec_send" /\ \E i \in DOMAIN completed :
                         p = <<"vec", i>> /\ completed[i] \in VecEntry("send", b)
  \/ x = "shard" /\ \E i \in DOMAIN queue :
                      p = <<"shard", i>> /\ queue[i] \in ShardEntry(b)
  \/ x = "out" /\ \E i \in DOMAIN out : p = <<"out", i>> /\ out[i] \in OutEntry(b)
  \/ x = "k_recv"  /\ Runs("recv", b) /\ p = <<"kernel", "recv">>
  \/ x = "k_send"  /\ Runs("send", b) /\ p = <<"kernel", "send">>
  \/ x = "k_notif" /\ Runs("notif", b) /\ p = <<"kernel", "notif">>

\* The places are the stages a buffer is in.
LEMMA PlacesAreStages ==
  ASSUME IInv, NEW b \in Buffer
  PROVE  /\ \A p \in Places(b) : \E x \in Stage : At(p, x, b)
         /\ \A x \in Stage : In(x, b) => \E p \in Places(b) : At(p, x, b)
         /\ \A x \in Stage : \A p : At(p, x, b) => In(x, b)
         /\ \A x \in Stage : \A p, q : At(p, x, b) /\ At(q, x, b) => p = q
<1>1. \A i \in DOMAIN sq : /\ sq[i].op \in {"recv", "send"}
                           /\ \A p : sq[i] \in SqEntry(p, b) <=> sq[i].op = p /\ sq[i].idx = b
  <2>1. sq \in Seq(SqElem)
    BY DEF IInv, TypeOK, SqElem
  <2> TAKE i \in DOMAIN sq
  <2>2. sq[i] \in SqElem
    BY <2>1, Elements
  <2>3. sq[i].op \in {"recv", "send"} /\ sq[i] = [op |-> sq[i].op, idx |-> sq[i].idx]
    BY <2>2 DEF SqElem
  <2> QED
    BY <2>3, Entries
<1>2. \A i \in DOMAIN cq :
         \E o \in {"recv", "send"} :
            \A p \in {"recv", "send"} : cq[i] \in CqEntry(p, b) <=>
               o = p /\ DecodeIdx(cq[i].user_data) = b /\ ~cq[i].more
  <2> TAKE i \in DOMAIN cq
  <2>1. PICK o \in {"recv", "send"}, c \in Buffer, m \in BOOLEAN :
           cq[i] = [user_data |-> EncodeToken(o, c), more |-> m]
    BY Completion
  <2>2. DecodeIdx(cq[i].user_data) = c /\ cq[i].more = m
    BY <2>1, TokenUnique
  <2>3. \A p \in {"recv", "send"} : cq[i] \in CqEntry(p, b) <=> o = p /\ c = b /\ m = FALSE
    BY <2>1, Entries
  <2> QED
    BY <2>2, <2>3
<1>3. \A i \in DOMAIN completed :
         /\ completed[i].op \in {"recv", "send"}
         /\ \A p : completed[i] \in VecEntry(p, b) <=>
               completed[i].op = p /\ completed[i].idx = b /\ ~completed[i].more
  <2>1. completed \in Seq(Done)
    BY DEF IInv, TypeOK
  <2> TAKE i \in DOMAIN completed
  <2>2. completed[i] \in Done
    BY <2>1, Elements
  <2>3. completed[i].op \in {"recv", "send"}
    BY <2>2 DEF Done
  <2> QED
    BY <2>2, <2>3, Entries
<1>4. \A i \in DOMAIN queue : queue[i] \in ShardEntry(b) <=> queue[i].buf_idx = b
  <2>1. queue \in Seq(ShardElem)
    BY DEF IInv, TypeOK, ShardElem
  <2>2. \A i \in DOMAIN queue : queue[i] \in ShardElem
    BY <2>1, Elements
  <2> QED
    BY <2>2, Entries DEF ShardElem
<1>5. \A i \in DOMAIN out : out[i] \in OutEntry(b) <=> out[i].idx = b
  <2>1. out \in Seq(OutElem)
    BY DEF IInv, TypeOK, OutElem
  <2>2. \A i \in DOMAIN out : out[i] \in OutElem
    BY <2>1, Elements
  <2> QED
    BY <2>2, Entries DEF OutElem
<1>6. \A e \in inflight : e.op \in {"recv", "send", "notif"}
  BY KernelHas
<1>7. \A p : p \in Places(b) <=>
         \/ \E i \in DOMAIN sq : p = <<"sq", i>> /\ sq[i].idx = b
         \/ \E e \in inflight : p = <<"kernel", e.op>> /\ e.idx = b
         \/ \E i \in DOMAIN cq : p = <<"cq", i>> /\ DecodeIdx(cq[i].user_data) = b /\ ~cq[i].more
         \/ \E i \in DOMAIN completed :
               p = <<"vec", i>> /\ completed[i].idx = b /\ ~completed[i].more
         \/ \E i \in DOMAIN queue : p = <<"shard", i>> /\ queue[i].buf_idx = b
         \/ \E i \in DOMAIN out : p = <<"out", i>> /\ out[i].idx = b
  BY DEF Places
<1>8. ASSUME NEW p \in Places(b) PROVE \E x \in Stage : At(p, x, b)
  <2>1. ASSUME NEW i \in DOMAIN sq, p = <<"sq", i>>, sq[i].idx = b
        PROVE  At(p, "sq_recv", b) \/ At(p, "sq_send", b)
    BY <1>1, <2>1 DEF At
  <2>2. ASSUME NEW e \in inflight, p = <<"kernel", e.op>>, e.idx = b
        PROVE  At(p, "k_recv", b) \/ At(p, "k_send", b) \/ At(p, "k_notif", b)
    BY <1>6, <2>2 DEF At, Runs
  <2>3. ASSUME NEW i \in DOMAIN cq, p = <<"cq", i>>,
               DecodeIdx(cq[i].user_data) = b, ~cq[i].more
        PROVE  At(p, "cq_recv", b) \/ At(p, "cq_send", b)
    <3>1. cq[i] \in CqEntry("recv", b) \/ cq[i] \in CqEntry("send", b)
      BY <1>2, <2>3
    <3> QED
      BY <2>3, <3>1 DEF At
  <2>4. ASSUME NEW i \in DOMAIN completed, p = <<"vec", i>>,
               completed[i].idx = b, ~completed[i].more
        PROVE  At(p, "vec_recv", b) \/ At(p, "vec_send", b)
    BY <1>3, <2>4 DEF At
  <2>5. ASSUME NEW i \in DOMAIN queue, p = <<"shard", i>>, queue[i].buf_idx = b
        PROVE  At(p, "shard", b)
    BY <1>4, <2>5 DEF At
  <2>6. ASSUME NEW i \in DOMAIN out, p = <<"out", i>>, out[i].idx = b
        PROVE  At(p, "out", b)
    BY <1>5, <2>6 DEF At
  <2> QED
    BY <1>7, <2>1, <2>2, <2>3, <2>4, <2>5, <2>6 DEF Stage
<1>9. ASSUME NEW x \in Stage, In(x, b) PROVE \E p \in Places(b) : At(p, x, b)
  <2>1. \E p : At(p, x, b)
    BY <1>9 DEF In, At, Has
  <2>2. \A p : At(p, x, b) => p \in Places(b)
    <3> TAKE p
    <3>1. \A i \in DOMAIN sq : \A o : sq[i] \in SqEntry(o, b) => sq[i].idx = b
      BY <1>1
    <3>2. \A i \in DOMAIN cq, o \in {"recv", "send"} : cq[i] \in CqEntry(o, b) =>
             DecodeIdx(cq[i].user_data) = b /\ ~cq[i].more
      BY <1>2
    <3>3. \A i \in DOMAIN completed : \A o : completed[i] \in VecEntry(o, b) =>
             completed[i].idx = b /\ ~completed[i].more
      BY <1>3
    <3>4. \A o : Runs(o, b) => \E e \in inflight : e.op = o /\ e.idx = b
      BY DEF Runs
    <3> QED
      BY <1>4, <1>5, <1>7, <3>1, <3>2, <3>3, <3>4 DEF At
  <2> QED
    BY <2>1, <2>2
<1>10. ASSUME NEW x \in Stage, NEW p, At(p, x, b) PROVE In(x, b)
  BY <1>10 DEF In, At, Has
<1>11. ASSUME NEW x \in Stage, NEW p, NEW q, At(p, x, b), At(q, x, b) PROVE p = q
  <2>1. /\ One(queue, ShardEntry(b)) /\ One(out, OutEntry(b))
        /\ \A op \in {"recv", "send"} : /\ One(sq, SqEntry(op, b)) /\ One(cq, CqEntry(op, b))
                                         /\ One(completed, VecEntry(op, b))
    BY DEF IInv, Single
  <2> QED
    BY <1>11, <2>1 DEF At, One
<1> QED
  BY <1>8, <1>9, <1>10, <1>11

\* A buffer is in exactly one place until a packet without a session takes it
\* out of circulation, for every size of the pool: release() always finds room
\* in the ring.
THEOREM BuffersAreOwned == Spec => []OneOwner
<1>1. IInv => OneOwner
  <2> SUFFICES ASSUME IInv, NEW b \in Buffer
               PROVE  /\ lost[b] # "sq_full"
                      /\ Cardinality(Places(b)) = IF lost[b] = "no" THEN 1 ELSE 0
    BY DEF OneOwner
  <2>1. OwnedOnce(b)
    BY DEF IInv, Owned
  <2>2. \A p, q \in Places(b) : p = q
    <3> SUFFICES ASSUME NEW p \in Places(b), NEW q \in Places(b) PROVE p = q
      OBVIOUS
    <3>1. PICK x \in Stage : At(p, x, b)
      BY PlacesAreStages
    <3>2. PICK y \in Stage : At(q, y, b)
      BY PlacesAreStages
    <3>3. x = y
      BY <2>1, <3>1, <3>2, PlacesAreStages DEF OwnedOnce
    <3> QED
      BY <3>1, <3>2, <3>3, PlacesAreStages
  <2>3. Places(b) = {} <=> ~\E x \in Stage : In(x, b)
    <3>1. (\E x \in Stage : In(x, b)) => Places(b) # {}
      BY PlacesAreStages
    <3>2. Places(b) # {} => \E x \in Stage : In(x, b)
      BY PlacesAreStages
    <3> QED
      BY <3>1, <3>2
  <2>4. Cardinality(Places(b)) = IF Places(b) = {} THEN 0 ELSE 1
    BY <2>2, AtMostOne
  <2> QED
    BY <2>1, <2>3, <2>4 DEF OwnedOnce
<1> QED
  BY <1>1, Invariance, PTL

\* The channels have a place left for every buffer that is not in them.
LEMMA ShardHasRoom ==
  ASSUME IInv, NEW b \in Buffer, ~In("shard", b)
  PROVE  Len(queue) < ChanCap
<1>1. queue \in Seq(ShardElem)
  BY DEF IInv, TypeOK, ShardElem
<1>2. /\ Len(queue) \in Nat /\ DOMAIN queue = 1..Len(queue)
      /\ \A i \in DOMAIN queue : queue[i] \in ShardElem
  BY <1>1, Elements
<1>3. \A i \in DOMAIN queue : /\ queue[i].buf_idx \in Buffer
                              /\ \A c : queue[i] \in ShardEntry(c) <=> queue[i].buf_idx = c
  BY <1>2, Entries DEF ShardElem
<1> DEFINE n == Len(queue)
           f == [i \in 1..n |-> queue[i].buf_idx]
<1>4. f \in [1..n -> 0..(PoolSize - 1)]
  BY <1>2, <1>3 DEF Buffer
<1>5. \A i, j \in 1..n : f[i] = f[j] => i = j
  BY <1>2, <1>3 DEF IInv, Single, One
<1>6. \A i \in 1..n : f[i] # b
  BY <1>2, <1>3 DEF In, Has
<1>7. n \in Nat /\ PoolSize \in Nat /\ b \in 0..(PoolSize - 1) /\ ChanCap = PoolSize
  BY <1>2, Sizes DEF Buffer
<1> HIDE DEF n, f
<1>8. n < PoolSize
  <2>1. \A c \in 0..(PoolSize - 1) : (\A i \in 1..n : f[i] # c) => n < PoolSize
    BY <1>4, <1>5, <1>7, Fits
  <2> QED
    BY <1>6, <1>7, <2>1
<1> QED
  BY <1>7, <1>8 DEF n

LEMMA OutHasRoom ==
  ASSUME IInv, NEW b \in Buffer, ~In("out", b)
  PROVE  Len(out) < ChanCap
<1>1. out \in Seq(OutElem)
  BY DEF IInv, TypeOK, OutElem
<1>2. /\ Len(out) \in Nat /\ DOMAIN out = 1..Len(out)
      /\ \A i \in DOMAIN out : out[i] \in OutElem
  BY <1>1, Elements
<1>3. \A i \in DOMAIN out : /\ out[i].idx \in Buffer
                            /\ \A c : out[i] \in OutEntry(c) <=> out[i].idx = c
  BY <1>2, Entries DEF OutElem
<1> DEFINE n == Len(out)
           f == [i \in 1..n |-> out[i].idx]
<1>4. f \in [1..n -> 0..(PoolSize - 1)]
  BY <1>2, <1>3 DEF Buffer
<1>5. \A i, j \in 1..n : f[i] = f[j] => i = j
  BY <1>2, <1>3 DEF IInv, Single, One
<1>6. \A i \in 1..n : f[i] # b
  BY <1>2, <1>3 DEF In, Has
<1>7. n \in Nat /\ PoolSize \in Nat /\ b \in 0..(PoolSize - 1) /\ ChanCap = PoolSize
  BY <1>2, Sizes DEF Buffer
<1> HIDE DEF n, f
<1>8. n < PoolSize
  <2>1. \A c \in 0..(PoolSize - 1) : (\A i \in 1..n : f[i] # c) => n < PoolSize
    BY <1>4, <1>5, <1>7, Fits
  <2> QED
    BY <1>6, <1>7, <2>1
<1> QED
  BY <1>7, <1>8 DEF n

\* The loop never finds the shard's channel full and the shard never the out
\* channel, for every size of the pool: the two cannot wait for each other.
THEOREM ChannelsHaveRoom == Spec => []NeverBlocks
<1>1. IInv => NeverBlocks
  <2> SUFFICES ASSUME IInv PROVE NeverBlocks
    OBVIOUS
  <2>1. ASSUME pc = "process", Head(completed).op = "recv" PROVE Len(queue) < ChanCap
    <3>1. completed \in Seq(Done) /\ completed # <<>>
      BY <2>1 DEF IInv, TypeOK, VecInUse
    <3>2. /\ Head(completed) \in Done /\ Head(completed) = completed[1]
          /\ 1 \in DOMAIN completed
      BY <3>1, HasTail
    <3>3. ~Head(completed).more /\ Head(completed).idx \in Buffer
      BY <2>1, <3>2 DEF IInv, VecInUse, Done
    <3>4. Head(completed) \in VecEntry("recv", Head(completed).idx)
      BY <2>1, <3>2, <3>3, Entries
    <3>5. In("vec_recv", Head(completed).idx)
      BY <3>2, <3>4 DEF In, Has
    <3>6. ~In("shard", Head(completed).idx)
      BY <3>3, <3>5, Elsewhere DEF IInv, Stage
    <3> QED
      BY <3>3, <3>6, ShardHasRoom
  <2>2. ASSUME queue # <<>> PROVE Len(out) < ChanCap
    <3>1. queue \in Seq(ShardElem)
      BY DEF IInv, TypeOK, ShardElem
    <3>2. Head(queue) \in ShardElem /\ Head(queue) = queue[1] /\ 1 \in DOMAIN queue
      BY <2>2, <3>1, HasTail
    <3>3. /\ Head(queue).buf_idx \in Buffer
          /\ Head(queue) \in ShardEntry(Head(queue).buf_idx)
      BY <3>2, Entries DEF ShardElem
    <3>4. In("shard", Head(queue).buf_idx)
      BY <3>2, <3>3 DEF In, Has
    <3>5. ~In("out", Head(queue).buf_idx)
      BY <3>3, <3>4, Elsewhere DEF IInv, Stage
    <3> QED
      BY <3>3, <3>5, OutHasRoom
  <2> QED
    BY <2>1, <2>2 DEF NeverBlocks
<1> QED
  BY <1>1, Invariance, PTL

(***************************************************************************)
(* The relay implements the abstract one.                                  *)
(***************************************************************************)

\* What the refinement mapping gives for held.
HeldBar == [b \in Buffer |-> IF Holding(b) THEN memory[b] ELSE NoAddr]

\* The same by stages: buffer b carries a datagram that is on its way.
Carry(b) == {p \in ShardElem : p.buf_idx = b /\ p.src # NoAddr}

Carrying(b) ==
  \/ (In("cq_recv", b) \/ In("vec_recv", b)) /\ slot[b] # NoAddr
  \/ Has(queue, Carry(b))
  \/ \E x \in {"out", "sq_send", "k_send", "k_notif"} : In(x, b)

StageBar == [b \in Buffer |-> IF Carrying(b) THEN memory[b] ELSE NoAddr]

LEMMA HoldingIs == IInv => HeldBar = StageBar
<1> SUFFICES ASSUME IInv, NEW b \in Buffer PROVE Holding(b) <=> Carrying(b)
  BY DEF HeldBar, StageBar
<1>1. (\E i \in DOMAIN cq : cq[i].user_data = EncodeToken("recv", b)) <=> In("cq_recv", b)
  <2>1. ASSUME NEW i \in DOMAIN cq
        PROVE  cq[i].user_data = EncodeToken("recv", b) <=> cq[i] \in CqEntry("recv", b)
    <3>1. PICK o \in {"recv", "send"}, c \in Buffer, m \in BOOLEAN :
             cq[i] = [user_data |-> EncodeToken(o, c), more |-> m] /\ (m => o = "send")
      BY Completion
    <3>2. cq[i] \in CqEntry("recv", b) <=> o = "recv" /\ c = b /\ m = FALSE
      BY <3>1, Entries
    <3>3. cq[i].user_data = EncodeToken("recv", b) <=> o = "recv" /\ c = b
      BY <3>1, TokenUnique
    <3> QED
      BY <3>1, <3>2, <3>3
  <2> QED
    BY <2>1 DEF In, Has
<1>2. (\E i \in DOMAIN completed : completed[i].idx = b /\ completed[i].op = "recv")
         <=> In("vec_recv", b)
  <2>1. completed \in Seq(Done)
    BY DEF IInv, TypeOK
  <2>2. \A i \in DOMAIN completed :
           completed[i] \in Done /\ (completed[i].op = "recv" => ~completed[i].more)
    BY <2>1, Elements DEF IInv, VecInUse
  <2>3. \A i \in DOMAIN completed : completed[i] \in VecEntry("recv", b) <=>
           completed[i].op = "recv" /\ completed[i].idx = b
    BY <2>2, Entries
  <2> QED
    BY <2>3 DEF In, Has
<1>3. (\E i \in DOMAIN queue : queue[i].buf_idx = b /\ queue[i].src # NoAddr)
         <=> Has(queue, Carry(b))
  <2>1. queue \in Seq(ShardElem)
    BY DEF IInv, TypeOK, ShardElem
  <2>2. \A i \in DOMAIN queue : queue[i] \in ShardElem
    BY <2>1, Elements
  <2> QED
    BY <2>2 DEF Has, Carry
<1>4. (\E i \in DOMAIN out : out[i].idx = b) <=> In("out", b)
  <2>1. out \in Seq(OutElem)
    BY DEF IInv, TypeOK, OutElem
  <2>2. \A i \in DOMAIN out : out[i] \in OutElem
    BY <2>1, Elements
  <2>3. \A i \in DOMAIN out : out[i] \in OutEntry(b) <=> out[i].idx = b
    BY <2>2, Entries DEF OutElem
  <2> QED
    BY <2>3 DEF In, Has
<1>5. (\E i \in DOMAIN sq : sq[i] = [op |-> "send", idx |-> b]) <=> In("sq_send", b)
  BY DEF In, Has, SqEntry
<1>6. (\E e \in inflight : e.idx = b /\ e.op # "recv") <=> In("k_send", b) \/ In("k_notif", b)
  <2>1. \A e \in inflight : e.op \in {"recv", "send", "notif"}
    BY KernelHas
  <2> QED
    BY <2>1 DEF In, Runs
<1> QED
  BY <1>1, <1>2, <1>3, <1>4, <1>5, <1>6 DEF Holding, Carrying

\* A stage and what it means for the datagram.
CarryingInStages ==
  \A b \in Buffer, x \in Stage : In(x, b) =>
     /\ x \in {"cq_recv", "vec_recv"} => (Carrying(b) <=> slot[b] # NoAddr)
     /\ x = "shard" => (Carrying(b) <=> Has(queue, Carry(b)))
     /\ x \in {"out", "sq_send", "k_send", "k_notif"} => Carrying(b)
     /\ x \in {"sq_recv", "k_recv", "cq_send", "vec_send"} => ~Carrying(b)

LEMMA CarryingIn == IInv => CarryingInStages
<1> SUFFICES ASSUME IInv, NEW b \in Buffer, NEW x \in Stage, In(x, b)
    PROVE  /\ x \in {"cq_recv", "vec_recv"} => (Carrying(b) <=> slot[b] # NoAddr)
           /\ x = "shard" => (Carrying(b) <=> Has(queue, Carry(b)))
           /\ x \in {"out", "sq_send", "k_send", "k_notif"} => Carrying(b)
           /\ x \in {"sq_recv", "k_recv", "cq_send", "vec_send"} => ~Carrying(b)
  BY DEF CarryingInStages
<1>1. \A y \in Stage \ {x} : ~In(y, b)
  BY Elsewhere DEF IInv
<1>2. Has(queue, Carry(b)) => In("shard", b)
  <2>1. Carry(b) \subseteq ShardEntry(b)
    BY DEF Carry, ShardEntry, ShardElem
  <2> QED
    BY <2>1 DEF Has, In
<1> QED
  BY <1>1, <1>2 DEF Carrying, Stage

\* A move of a buffer leaves the other datagrams alone.
LEMMA MoveBar ==
  ASSUME IInv, NEW b \in Buffer, NEW x \in Stage, NEW y \in Stage, Moves(b, x, y),
         \A c \in Buffer : c # b => slot'[c] = slot[c] /\ memory'[c] = memory[c]
                                   /\ (Has(queue', Carry(c)) <=> Has(queue, Carry(c)))
  PROVE  StageBar' = [StageBar EXCEPT ![b] = IF Carrying(b)' THEN memory'[b] ELSE NoAddr]
<1>1. ASSUME NEW c \in Buffer, c # b PROVE Carrying(c)' <=> Carrying(c)
  <2>1. \A z \in Stage : In(z, c)' <=> In(z, c)
    BY <1>1, MoveShape DEF IInv
  <2> QED
    BY <1>1, <2>1 DEF Carrying, Stage
<1> QED
  BY <1>1 DEF StageBar

\* No datagram comes, leaves or is dropped.
LEMMA MoveStutters ==
  ASSUME IInv, NEW b \in Buffer, NEW x \in Stage, NEW y \in Stage, Moves(b, x, y),
         \A c \in Buffer : c # b => slot'[c] = slot[c]
                                   /\ (Has(queue', Carry(c)) <=> Has(queue, Carry(c))),
         memory' = memory, Carrying(b)' <=> Carrying(b)
  PROVE  StageBar' = StageBar
<1>1. StageBar' = [StageBar EXCEPT ![b] = IF Carrying(b)' THEN memory'[b] ELSE NoAddr]
  BY MoveBar
<1>2. StageBar[b] = IF Carrying(b) THEN memory[b] ELSE NoAddr
  BY DEF StageBar
<1>3. DOMAIN StageBar = Buffer /\ StageBar = [c \in Buffer |-> StageBar[c]]
  BY DEF StageBar
<1> HIDE DEF StageBar
<1> QED
  BY <1>1, <1>2, <1>3

\* Both facts in the next state.
LEMMA NextState == IInv' => CarryingInStages' /\ HeldBar' = StageBar'
<1>1. IInv' => CarryingInStages'
  BY CarryingIn, PTL
<1>2. IInv' => (HeldBar = StageBar)'
  BY HoldingIs, PTL
<1> QED
  BY <1>1, <1>2

\* After a move, the datagram's state is that of the new stage.
LEMMA MoveCarrying ==
  ASSUME IInv, IInv', NEW b \in Buffer, NEW x \in Stage, NEW y \in Stage, Moves(b, x, y)
  PROVE  /\ x \in {"cq_recv", "vec_recv"} => (Carrying(b) <=> slot[b] # NoAddr)
         /\ x = "shard" => (Carrying(b) <=> Has(queue, Carry(b)))
         /\ x \in {"out", "sq_send", "k_send", "k_notif"} => Carrying(b)
         /\ x \in {"sq_recv", "k_recv", "cq_send", "vec_send"} => ~Carrying(b)
         /\ y \in {"cq_recv", "vec_recv"} => (Carrying(b)' <=> slot'[b] # NoAddr)
         /\ y = "shard" => (Carrying(b)' <=> Has(queue', Carry(b)))
         /\ y \in {"out", "sq_send", "k_send", "k_notif"} => Carrying(b)'
         /\ y \in {"sq_recv", "k_recv", "cq_send", "vec_send"} => ~Carrying(b)'
<1>1. In(x, b) /\ In(y, b)'
  BY DEF Moves
<1>2. CarryingInStages /\ CarryingInStages'
  BY CarryingIn, NextState
<1> QED
  BY <1>1, <1>2 DEF CarryingInStages

Stutters == StageBar' = StageBar /\ wire' = wire

LEMMA SendMsgStutters ==
  ASSUME IInv, IInv', SendMsg
  PROVE  Stutters
<1>1. PICK b \in Buffer : b = Head(out).idx /\ Moves(b, "out", "sq_send")
  BY SendMsgMoves
<1>2. /\ slot' = [slot EXCEPT ![b] = Head(out).dst]
      /\ UNCHANGED <<queue, memory, wire>>
  BY <1>1 DEF SendMsg, PostSend
<1>3. Carrying(b) /\ Carrying(b)'
  BY <1>1, MoveCarrying DEF Stage
<1>4. \A c \in Buffer : c # b => slot'[c] = slot[c]
  BY <1>2 DEF IInv, TypeOK
<1> QED
  BY <1>1, <1>2, <1>3, <1>4, MoveStutters DEF Stage, Stutters

LEMMA HandleRecvStutters ==
  ASSUME IInv, IInv', HandleRecv
  PROVE  Stutters
<1>1. PICK b \in Buffer : b = Head(completed).idx /\ Moves(b, "vec_recv", "shard")
  BY HandleRecvMoves
<1> DEFINE e == [buf_idx |-> b, src |-> slot[b]]
<1>2. queue' = Append(queue, e) /\ UNCHANGED <<slot, memory, wire>>
  BY <1>1 DEF HandleRecv, Route
<1>3. e \in ShardElem /\ \A c : e \in Carry(c) <=> b = c /\ slot[b] # NoAddr
  <2>1. slot[b] \in Addr
    BY <1>1 DEF IInv, TypeOK
  <2> QED
    BY <1>1, <2>1 DEF ShardElem, Carry
<1> HIDE DEF e
<1>4. \A c : Has(queue', Carry(c)) <=> Has(queue, Carry(c)) \/ e \in Carry(c)
  <2>1. queue \in Seq(ShardElem)
    BY DEF IInv, TypeOK, ShardElem
  <2> QED
    BY <1>2, <1>3, <2>1, HasAppend
<1>5. ~Has(queue, Carry(b))
  <2>1. ~In("shard", b)
    BY <1>1, Elsewhere DEF IInv, Moves, Stage
  <2>2. Carry(b) \subseteq ShardEntry(b)
    BY DEF Carry, ShardEntry, ShardElem
  <2> QED
    BY <2>1, <2>2 DEF Has, In
<1>6. Carrying(b) <=> slot[b] # NoAddr
  BY <1>1, MoveCarrying DEF Stage
<1>7. Carrying(b)' <=> Has(queue', Carry(b))
  BY <1>1, MoveCarrying DEF Stage
<1>8. Carrying(b)' <=> Carrying(b)
  BY <1>3, <1>4, <1>5, <1>6, <1>7
<1> QED
  BY <1>1, <1>2, <1>3, <1>4, <1>8, MoveStutters DEF Stage, Stutters

LEMMA HandleSendLastStutters ==
  ASSUME IInv, IInv', HandleSendLast
  PROVE  Stutters
<1>1. PICK b \in Buffer : b = Head(completed).idx /\ Moves(b, "vec_send", "sq_recv")
  BY HandleSendLastMoves
<1>2. /\ slot' = [slot EXCEPT ![b] = NoAddr]
      /\ UNCHANGED <<queue, memory, wire>>
  BY <1>1 DEF HandleSendLast, PostRecv
<1>3. ~Carrying(b) /\ ~Carrying(b)'
  BY <1>1, MoveCarrying DEF Stage
<1>4. \A c \in Buffer : c # b => slot'[c] = slot[c]
  BY <1>2 DEF IInv, TypeOK
<1> QED
  BY <1>1, <1>2, <1>3, <1>4, MoveStutters DEF Stage, Stutters

LEMMA KernelSendStutters ==
  ASSUME IInv, IInv', NEW e \in inflight, KernelSend(e)
  PROVE  Stutters
<1>1. e.idx \in Buffer /\ Moves(e.idx, "k_send", "k_notif")
  BY KernelHas, KernelSendMoves
<1>2. UNCHANGED <<queue, memory, slot, wire>>
  BY DEF KernelSend, poolVars
<1>3. Carrying(e.idx) /\ Carrying(e.idx)'
  BY <1>1, MoveCarrying DEF Stage
<1> QED
  BY <1>1, <1>2, <1>3, MoveStutters DEF Stage, Stutters

\* HandleSendMore, NoFlush and the steps that take whole queues.
LEMMA BulkStutters ==
  ASSUME IInv, UNCHANGED <<queue, memory, slot, wire>>,
         \/ Stays
         \/ \A x \in Stage, c \in Buffer : In(x, c)' <=> Handed(x, c)
         \/ \A x \in Stage, c \in Buffer : In(x, c)' <=> Copied(x, c)
  PROVE  Stutters
<1>1. ASSUME NEW c \in Buffer PROVE Carrying(c)' <=> Carrying(c)
  <2>1. \/ \A x \in Stage : In(x, c)' <=> In(x, c)
        \/ \A x \in Stage : In(x, c)' <=> Handed(x, c)
        \/ \A x \in Stage : In(x, c)' <=> Copied(x, c)
    BY DEF Stays
  <2>2. CASE \A x \in Stage : In(x, c)' <=> In(x, c)
    BY <2>2 DEF Carrying, Stage
  <2>3. CASE \A x \in Stage : In(x, c)' <=> Handed(x, c)
    BY <2>3 DEF Carrying, Stage, Handed
  <2>4. CASE \A x \in Stage : In(x, c)' <=> Copied(x, c)
    BY <2>4 DEF Carrying, Stage, Copied
  <2> QED
    BY <2>1, <2>2, <2>3, <2>4
<1> QED
  BY <1>1 DEF StageBar, Stutters

\* The abstract actions, with the mapping written out.
LEMMA AbstractActions ==
  ASSUME NEW b \in Buffer, NEW c \in Endpoint
  PROVE  /\ HeldBar[b] = NoAddr /\ HeldBar' = [HeldBar EXCEPT ![b] = c] /\ wire' = wire =>
               AbstractRelay!RelayNext
         /\ HeldBar[b] # NoAddr /\ HeldBar' = [HeldBar EXCEPT ![b] = NoAddr] /\ wire' = wire =>
               AbstractRelay!RelayNext
         /\ HeldBar[b] # NoAddr /\ {HeldBar[b], c} = {HostAddr, PeerAddr}
            /\ wire' = wire \union {<<HeldBar[b], c>>}
            /\ HeldBar' = [HeldBar EXCEPT ![b] = NoAddr] =>
               AbstractRelay!RelayNext
<1>1. HeldBar[b] = NoAddr /\ HeldBar' = [HeldBar EXCEPT ![b] = c] /\ wire' = wire =>
         AbstractRelay!Accept(b, c)
  BY DEF AbstractRelay!Accept, HeldBar
<1>2. HeldBar[b] # NoAddr /\ HeldBar' = [HeldBar EXCEPT ![b] = NoAddr] /\ wire' = wire =>
         AbstractRelay!Drop(b)
  BY DEF AbstractRelay!Drop, HeldBar
<1>3. HeldBar[b] # NoAddr /\ {HeldBar[b], c} = {HostAddr, PeerAddr}
      /\ wire' = wire \union {<<HeldBar[b], c>>}
      /\ HeldBar' = [HeldBar EXCEPT ![b] = NoAddr] =>
         AbstractRelay!Forward(b, c)
  BY DEF AbstractRelay!Forward, HeldBar
<1> QED
  BY <1>1, <1>2, <1>3 DEF AbstractRelay!RelayNext

LEMMA HandlePacketRelays ==
  ASSUME 0 \notin Lens, IInv, IInv', HandlePacket
  PROVE  AbstractRelay!RelayNext \/ Stutters
<1>1. PICK b \in Buffer : b = Head(queue).buf_idx /\ In("shard", b)
  BY TakePacket
<1> DEFINE h == Head(queue)
<1>2. h \in ShardElem /\ h = queue[1] /\ 1 \in DOMAIN queue /\ h.src \in Addr
  BY TakePacket
<1>3. UNCHANGED <<memory, slot, wire>> /\ queue' = Tail(queue) /\ queue # <<>>
  BY DEF HandlePacket, poolVars
<1>4. /\ \A c : Has(queue, Carry(c)) <=> Has(queue', Carry(c)) \/ h \in Carry(c)
      /\ One(queue, ShardEntry(b)) => ~(Has(queue', ShardEntry(b)) /\ h \in ShardEntry(b))
  <2>1. queue \in Seq(ShardElem)
    BY DEF IInv, TypeOK, ShardElem
  <2> QED
    BY <1>3, <2>1, HasTail
<1>5. \A c : h \in Carry(c) <=> b = c /\ h.src # NoAddr
  BY <1>1, <1>2 DEF Carry
<1>6. \A c \in Buffer : c # b => (Has(queue', Carry(c)) <=> Has(queue, Carry(c)))
  BY <1>4, <1>5
<1>7. /\ h.src # NoAddr => memory[b] = h.src
      /\ HeldBar = StageBar /\ HeldBar' = StageBar'
  BY <1>1, <1>2, HoldingIs, NextState DEF IInv, Addressed, PacketTrue
<1>8. Carrying(b) <=> Has(queue, Carry(b))
  BY <1>1, CarryingIn DEF CarryingInStages, Stage
<1>9. Has(queue, Carry(b)) <=> h.src # NoAddr
  <2>1. h \in ShardEntry(b)
    BY <1>1, <1>2 DEF ShardEntry, ShardElem
  <2>2. Carry(b) \subseteq ShardEntry(b)
    BY DEF Carry, ShardEntry, ShardElem
  <2>3. ~Has(queue', Carry(b))
    BY <1>4, <2>1, <2>2 DEF IInv, Single, Has
  <2> QED
    BY <1>4, <1>5, <2>3
<1>10. CASE h.src \in Endpoints
  <2>1. Moves(b, "shard", "out")
    BY <1>1, <1>10, SessionMoves
  <2>2. Carrying(b)'
    BY <2>1, MoveCarrying DEF Stage
  <2>3. Carrying(b)
    BY <1>8, <1>9, <1>10, Sizes DEF Endpoints
  <2> QED
    BY <1>3, <1>6, <2>1, <2>2, <2>3, MoveStutters DEF Stage, Stutters
<1>11. CASE h.src \notin Endpoints
  <2>1. \A x \in Stage, c \in Buffer : In(x, c)' <=> In(x, c) /\ c # b
    BY <1>1, <1>11, NoSessionMoves
  <2>2. ~Has(queue', Carry(b))
    <3>1. ~In("shard", b)'
      BY <2>1 DEF Stage
    <3>2. Carry(b) \subseteq ShardEntry(b)
      BY DEF Carry, ShardEntry, ShardElem
    <3> QED
      BY <3>1, <3>2 DEF In, Has
  <2>3. ~Carrying(b)'
    BY <2>1, <2>2 DEF Carrying, Stage
  <2>4. ASSUME NEW c \in Buffer, c # b PROVE Carrying(c)' <=> Carrying(c)
    BY <1>3, <1>6, <2>1, <2>4 DEF Carrying, Stage
  <2>5. StageBar' = [StageBar EXCEPT ![b] = NoAddr]
    BY <1>3, <2>3, <2>4 DEF StageBar
  <2>6. CASE h.src = NoAddr
    <3>1. StageBar[b] = NoAddr
      BY <1>8, <1>9, <2>6 DEF StageBar
    <3>2. StageBar = [c \in Buffer |-> StageBar[c]]
      BY DEF StageBar
    <3> HIDE DEF StageBar
    <3>3. StageBar' = StageBar
      BY <2>5, <3>1, <3>2
    <3> QED
      BY <1>3, <3>3 DEF Stutters
  <2>7. CASE h.src # NoAddr
    <3>1. StageBar[b] # NoAddr
      BY <1>7, <1>8, <1>9, <2>7 DEF StageBar
    <3>2. HostAddr \in Endpoint
      BY FirstAssumption
    <3> QED
      BY <1>3, <1>7, <2>5, <3>1, <3>2, AbstractActions
  <2> QED
    BY <2>6, <2>7
<1> QED
  BY <1>10, <1>11

LEMMA KernelRecvRelays ==
  ASSUME 0 \notin Lens, IInv, IInv', NEW e \in inflight, NEW src \in Addr,
         NEW n \in Lens \union {0}, KernelRecv(e, src, n)
  PROVE  AbstractRelay!RelayNext \/ Stutters
<1> DEFINE b == e.idx
<1>1. /\ e.op = "recv" /\ Complete(e, "recv", FALSE) /\ inflight' = inflight \ {e}
      /\ n \in IF src = NoAddr THEN {0} ELSE Lens
      /\ memory' = [memory EXCEPT ![b] = IF n = 0 THEN @ ELSE src]
      /\ slot' = [slot EXCEPT ![b] = src]
      /\ UNCHANGED <<queue, out, sq, completed, wire>>
  BY DEF KernelRecv
<1>2. b \in Buffer /\ memory \in [Buffer -> Addr] /\ slot \in [Buffer -> Addr]
  BY KernelHas DEF IInv, TypeOK
<1>3. Moves(b, "k_recv", "cq_recv")
  BY <1>1, EndMoves DEF KernelStage
<1>4. /\ ~Carrying(b)
      /\ Carrying(b)' <=> src # NoAddr
  <2>1. ~Carrying(b) /\ (Carrying(b)' <=> slot'[b] # NoAddr)
    BY <1>2, <1>3, MoveCarrying DEF Stage
  <2> QED
    BY <1>1, <1>2, <2>1
<1>5. \A c \in Buffer : c # b => slot'[c] = slot[c] /\ memory'[c] = memory[c]
  BY <1>1, <1>2
<1>6. StageBar' = [StageBar EXCEPT ![b] = IF Carrying(b)' THEN memory'[b] ELSE NoAddr]
  BY <1>1, <1>2, <1>3, <1>5, MoveBar DEF Stage
<1>7. /\ StageBar[b] = NoAddr /\ StageBar = [c \in Buffer |-> StageBar[c]]
      /\ HeldBar = StageBar /\ HeldBar' = StageBar'
  BY <1>2, <1>4, HoldingIs, NextState DEF StageBar
<1> HIDE DEF StageBar
<1>8. CASE src = NoAddr
  <2>1. StageBar' = [StageBar EXCEPT ![b] = NoAddr]
    BY <1>4, <1>6, <1>8
  <2>2. StageBar' = StageBar
    BY <1>7, <2>1
  <2> QED
    BY <1>1, <2>2 DEF Stutters
<1>9. CASE src # NoAddr
  <2>1. memory'[b] = src /\ src \in Endpoint
    BY <1>1, <1>2, <1>9 DEF Addr
  <2>2. StageBar' = [StageBar EXCEPT ![b] = src]
    BY <1>4, <1>6, <1>9, <2>1
  <2> QED
    BY <1>1, <1>2, <1>7, <2>1, <2>2, AbstractActions
<1> QED
  BY <1>8, <1>9

\* The end of a send, whether it worked or not.
LEMMA SendEnds ==
  ASSUME 0 \notin Lens, IInv, IInv', NEW e \in inflight, e.op \in {"send", "notif"},
         Complete(e, "send", FALSE), inflight' = inflight \ {e},
         UNCHANGED <<queue, out, sq, completed, memory, slot>>
  PROVE  /\ e.idx \in Buffer /\ HeldBar[e.idx] = memory[e.idx]
         /\ memory[e.idx] \in Endpoints /\ e.dst = RouteTo(memory[e.idx])
         /\ HeldBar[e.idx] # NoAddr /\ HeldBar' = [HeldBar EXCEPT ![e.idx] = NoAddr]
<1> DEFINE b == e.idx
           x == KernelStage(e.op)
<1>1. b \in Buffer /\ x \in {"k_send", "k_notif"} /\ x \in Stage
  BY KernelHas DEF KernelStage
<1>2. Moves(b, x, "cq_send")
  BY EndMoves
<1> HIDE DEF x
<1>3. Carrying(b) /\ ~Carrying(b)'
  BY <1>1, <1>2, MoveCarrying DEF Stage
<1>4. StageBar' = [StageBar EXCEPT ![b] = IF Carrying(b)' THEN memory'[b] ELSE NoAddr]
  BY <1>1, <1>2, MoveBar DEF Stage
<1>5. StageBar' = [StageBar EXCEPT ![b] = NoAddr]
  BY <1>3, <1>4
<1>6. StageBar[b] = memory[b] /\ HeldBar = StageBar /\ HeldBar' = StageBar'
  BY <1>1, <1>3, HoldingIs, NextState DEF StageBar
<1>7. memory[b] \in Endpoints /\ e.dst = RouteTo(memory[b])
  BY DEF IInv, Addressed, SendTrue
<1>8. memory[b] # NoAddr
  BY <1>7, Sizes DEF Endpoints
<1> QED
  BY <1>1, <1>5, <1>6, <1>7, <1>8

LEMMA KernelNotifRelays ==
  ASSUME 0 \notin Lens, IInv, IInv', NEW e \in inflight, KernelNotif(e)
  PROVE  AbstractRelay!RelayNext
<1>1. /\ e.op \in {"send", "notif"} /\ Complete(e, "send", FALSE)
      /\ inflight' = inflight \ {e}
      /\ wire' = wire \union {<<memory[e.idx], e.dst>>}
      /\ UNCHANGED <<queue, out, sq, completed, memory, slot>>
  BY DEF KernelNotif, poolVars
<1>2. /\ e.idx \in Buffer /\ HeldBar[e.idx] = memory[e.idx]
      /\ memory[e.idx] \in Endpoints /\ e.dst = RouteTo(memory[e.idx])
      /\ HeldBar[e.idx] # NoAddr /\ HeldBar' = [HeldBar EXCEPT ![e.idx] = NoAddr]
  BY <1>1, SendEnds
<1>3. e.dst \in Endpoint /\ {HeldBar[e.idx], e.dst} = {HostAddr, PeerAddr}
  BY <1>2, FirstAssumption DEF Endpoints, RouteTo
<1> QED
  BY <1>1, <1>2, <1>3, AbstractActions

LEMMA KernelSendFailRelays ==
  ASSUME 0 \notin Lens, IInv, IInv', NEW e \in inflight, KernelSendFail(e)
  PROVE  AbstractRelay!RelayNext
<1>1. /\ e.op \in {"send", "notif"} /\ Complete(e, "send", FALSE)
      /\ inflight' = inflight \ {e}
      /\ UNCHANGED <<queue, out, sq, completed, memory, slot, wire>>
  BY DEF KernelSendFail, poolVars
<1>2. /\ e.idx \in Buffer
      /\ HeldBar[e.idx] # NoAddr /\ HeldBar' = [HeldBar EXCEPT ![e.idx] = NoAddr]
  BY <1>1, SendEnds
<1>3. HostAddr \in Endpoint
  BY FirstAssumption
<1> QED
  BY <1>1, <1>2, <1>3, AbstractActions

LEMMA ReapNothingStutters ==
  ASSUME IInv, ReapNothing
  PROVE  Stutters
<1>1. /\ UNCHANGED <<queue, out, cq, completed, memory, slot, wire>>
      /\ inflight' = inflight \union Started(visible)
      /\ sq' = SubSeq(sq, visible + 1, Len(sq))
  BY DEF ReapNothing, poolVars
<1>2. sq \in Seq(SqElem) /\ Len(sq) \in Nat /\ visible \in 0..Len(sq)
  BY DEF IInv, TypeOK, SqElem
<1>3. CASE visible = 0
  <2>1. SubSeq(sq, 1, Len(sq)) = sq /\ Started(0) = {}
    BY <1>2 DEF Started
  <2>2. UNCHANGED <<sq, inflight, cq, completed, queue, out>>
    BY <1>1, <1>3, <2>1
  <2>3. Stays
    BY <2>2 DEF Stays, In, Runs
  <2> QED
    BY <1>1, <2>3, BulkStutters
<1>4. CASE visible > 0
  <2>1. visible = Len(sq)
    BY <1>4 DEF IInv, RingHasRoom
  <2>2. SubSeq(sq, Len(sq) + 1, Len(sq)) = <<>>
    BY <1>2
  <2>3. sq' = <<>> /\ inflight' = inflight \union Started(Len(sq))
    BY <1>1, <2>1, <2>2
  <2>4. \A x \in Stage, c \in Buffer : In(x, c)' <=> Handed(x, c)
    BY <1>1, <2>3, SubmitMoves
  <2> QED
    BY <1>1, <2>4, BulkStutters
<1> QED
  BY <1>2, <1>3, <1>4

LEMMA StepRelays ==
  ASSUME 0 \notin Lens, IInv, IInv', [Next]_vars
  PROVE  [AbstractRelay!RelayNext]_(AbstractRelay!relayVars)
<1>1. Stutters => UNCHANGED AbstractRelay!relayVars
  <2>1. HeldBar = StageBar /\ HeldBar' = StageBar'
    BY HoldingIs, NextState
  <2> QED
    BY <2>1 DEF Stutters, AbstractRelay!relayVars, HeldBar
<1>2. CASE SendMsg
  BY <1>1, <1>2, SendMsgStutters
<1>3. CASE Flush
  <2>1. \A x \in Stage, c \in Buffer : In(x, c)' <=> Handed(x, c)
    BY <1>3, SubmitMoves DEF Flush
  <2>2. UNCHANGED <<queue, memory, slot, wire>>
    BY <1>3 DEF Flush, poolVars
  <2> QED
    BY <1>1, <2>1, <2>2, BulkStutters
<1>4. CASE NoFlush
  <2>1. UNCHANGED <<queue, out, sq, inflight, cq, completed, memory, slot, wire>>
    BY <1>4 DEF NoFlush, ringVars, poolVars
  <2>2. Stays
    BY <2>1 DEF Stays, In, Runs
  <2> QED
    BY <1>1, <2>1, <2>2, BulkStutters
<1>5. CASE ReapNothing
  BY <1>1, <1>5, ReapNothingStutters
<1>6. CASE Reap
  <2>1. \A x \in Stage, c \in Buffer : In(x, c)' <=> Copied(x, c)
    BY <1>6, ReapMoves
  <2>2. UNCHANGED <<queue, memory, slot, wire>>
    BY <1>6 DEF Reap, poolVars
  <2> QED
    BY <1>1, <2>1, <2>2, BulkStutters
<1>7. CASE HandleRecv
  BY <1>1, <1>7, HandleRecvStutters
<1>8. CASE HandleSendMore
  <2>1. Stays
    BY <1>8, HandleSendMoreStays
  <2>2. UNCHANGED <<queue, memory, slot, wire>>
    BY <1>8 DEF HandleSendMore, poolVars
  <2> QED
    BY <1>1, <2>1, <2>2, BulkStutters
<1>9. CASE HandleSendLast
  BY <1>1, <1>9, HandleSendLastStutters
<1>10. CASE HandlePacket
  BY <1>1, <1>10, HandlePacketRelays
<1>11. ASSUME NEW e \in inflight, NEW src \in Addr, NEW n \in Lens \union {0},
              KernelRecv(e, src, n)
       PROVE  AbstractRelay!RelayNext \/ UNCHANGED AbstractRelay!relayVars
  BY <1>1, <1>11, KernelRecvRelays
<1>12. ASSUME NEW e \in inflight, KernelSend(e) PROVE UNCHANGED AbstractRelay!relayVars
  BY <1>1, <1>12, KernelSendStutters
<1>13. ASSUME NEW e \in inflight, KernelSendFail(e) \/ KernelNotif(e)
       PROVE  AbstractRelay!RelayNext
  BY <1>13, KernelSendFailRelays, KernelNotifRelays
<1>14. CASE UNCHANGED vars
  <2>1. UNCHANGED <<queue, out, sq, inflight, cq, completed, memory, slot, wire>>
    BY <1>14 DEF vars
  <2>2. Stays
    BY <2>1 DEF Stays, In, Runs
  <2> QED
    BY <1>1, <2>1, <2>2, BulkStutters
<1> QED
  BY <1>2, <1>3, <1>4, <1>5, <1>6, <1>7, <1>8, <1>9, <1>10, <1>11, <1>12, <1>13, <1>14
  DEF Next, Loop

LEMMA InitRelays == Init => AbstractRelay!RelayInit
<1> SUFFICES ASSUME Init PROVE AbstractRelay!RelayInit
  OBVIOUS
<1>1. (\A b \in Buffer : memory[b] = NoAddr) /\ wire = {}
  BY DEF Init
<1>2. [b \in Buffer |-> IF Holding(b) THEN memory[b] ELSE NoAddr]
         = [b \in Buffer |-> NoAddr]
  BY <1>1
<1>3. {{HostAddr, PeerAddr}} \in SUBSET {{x, y} : x, y \in Endpoint}
  BY FirstAssumption
<1> QED
  BY <1>1, <1>2, <1>3 DEF AbstractRelay!RelayInit

\* The first relay implements the abstract one, for every size of the pool and
\* every batch size: what leaves has been received, leaves once and goes to the
\* other endpoint of the session.  No client may send an empty datagram: it would
\* leave as the datagram that was in the buffer before.
THEOREM Refinement == 0 \notin Lens => (Spec => ImplementsRelay)
<1> SUFFICES ASSUME 0 \notin Lens PROVE Spec => ImplementsRelay
  OBVIOUS
<1>1. IInv /\ IInv' /\ [Next]_vars => [AbstractRelay!RelayNext]_(AbstractRelay!relayVars)
  BY StepRelays
<1> QED
  BY <1>1, InitRelays, Invariance, PTL DEF Spec, ImplementsRelay, AbstractRelay!RelaySpec
=============================================================================
