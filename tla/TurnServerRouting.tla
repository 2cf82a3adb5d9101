------------------------- MODULE TurnServerRouting -------------------------
(***************************************************************************)
(* The router and the shards share no lock: a session travels through the  *)
(* same queue as the packets that need it.  When that queue has room for   *)
(* every buffer and every session, a shard knows the session of a packet   *)
(* before it gets to the packet, and it is the newest of the sender.       *)
(***************************************************************************)
EXTENDS TurnServerProof

\* A queue has room for the whole pool and all sessions.
QueueRoom == QueueCap >= PoolSize + MaxRequests

\* The out channel has room for the whole pool.
OutRoom == OutCap >= PoolSize

(***************************************************************************)
(* The inductive invariant.                                                *)
(***************************************************************************)

\* The sessions of client a.
Naming(a) == {r \in Session : a \in {r.host_addr, r.peer_addr}}

\* The positions in queue q of elements of T.
Positions(q, T) == {i \in DOMAIN q : q[i] \in T}

\* No queue has more sessions than the loop has taken.
Bounded ==
  /\ Len(requests) <= MaxRequests
  /\ \A s \in Shard : Cardinality(Positions(queue[s], Session)) <= taken

\* Request i is the last of those taken that names a.
Latest(i, a) ==
  /\ requests[i] \in Naming(a)
  /\ \A k \in 1..taken : requests[k] \in Naming(a) => k <= i

\* A shard with queue q that knows a by session t will know it by r when it
\* has worked off the queue.
Current(r, q, t, a) ==
  \/ t = r /\ ~Has(q, Naming(a))
  \/ \E j \in DOMAIN q : /\ q[j] = r /\ r \in Naming(a)
                         /\ \A k \in DOMAIN q : q[k] \in Naming(a) => k <= j

\* The shard a client is routed to will know its last session.
Agreed ==
  \A a \in Endpoint :
     LET s == endpoint_to_shard[a]
     IN  IF s = NoShard
         THEN \A k \in 1..taken : requests[k] \notin Naming(a)
         ELSE \E i \in 1..taken :
                 Latest(i, a) /\ Current(requests[i], queue[s], table[s][a], a)

\* A shard that has worked off the first n - 1 messages of q, and knows a by t
\* now, will know a.
Knows(q, t, a, n) == t # NoSession \/ \E i \in 1..(n - 1) : q[i] \in Naming(a)

\* The sender of a queued packet is known when the shard gets to the packet.
Known ==
  \A s \in Shard : \A n \in DOMAIN queue[s] :
     queue[s][n] \in Packet =>
        Knows(queue[s], table[s][queue[s][n].src], queue[s][n].src, n)

Routed == endpoint_to_shard[NoAddr] = NoShard /\ Bounded /\ Agreed /\ Known

NInv == IInv /\ Routed

(***************************************************************************)
(* Counting.                                                               *)
(***************************************************************************)
LEMMA CountAppend ==
  ASSUME NEW S, NEW q \in Seq(S), NEW x \in S, NEW T
  PROVE  /\ IsFiniteSet(Positions(q, T)) /\ Cardinality(Positions(q, T)) \in Nat
         /\ x \in T => Cardinality(Positions(Append(q, x), T)) = Cardinality(Positions(q, T)) + 1
         /\ x \notin T => Positions(Append(q, x), T) = Positions(q, T)
<1>1. /\ Len(q) \in Nat /\ DOMAIN q = 1..Len(q) /\ DOMAIN Append(q, x) = 1..(Len(q) + 1)
      /\ \A i \in 1..Len(q) : Append(q, x)[i] = q[i]
      /\ Append(q, x)[Len(q) + 1] = x
  OBVIOUS
<1> DEFINE p == Append(q, x)
           P == Positions(q, T)
<1> HIDE DEF p
<1>2. /\ \A i \in 1..(Len(q) + 1) : i \in 1..Len(q) \/ i = Len(q) + 1
      /\ 1..Len(q) \subseteq 1..(Len(q) + 1) /\ Len(q) + 1 \in 1..(Len(q) + 1)
      /\ Len(q) + 1 \notin 1..Len(q)
  BY <1>1
<1>3. IsFiniteSet(P) /\ Cardinality(P) \in Nat
  <2>1. IsFiniteSet(1..Len(q))
    BY <1>1, FS_Interval
  <2>2. P \in SUBSET (1..Len(q))
    BY <1>1 DEF Positions
  <2> HIDE DEF P
  <2> QED
    BY <2>1, <2>2, FS_Subset, FS_CardinalityType
<1>4. ASSUME x \in T PROVE Cardinality(Positions(p, T)) = Cardinality(P) + 1
  <2>1. Positions(p, T) = P \union {Len(q) + 1} /\ Len(q) + 1 \notin P
    BY <1>1, <1>2, <1>4 DEF Positions, p
  <2> HIDE DEF P
  <2> QED
    BY <1>3, <2>1, FS_AddElement
<1>5. ASSUME x \notin T PROVE Positions(p, T) = P
  BY <1>1, <1>2, <1>5 DEF Positions, p
<1> QED
  BY <1>3, <1>4, <1>5 DEF p

LEMMA CountTail ==
  ASSUME NEW S, NEW q \in Seq(S), q # <<>>, NEW T
  PROVE  /\ Cardinality(Positions(Tail(q), T)) \in Nat
         /\ Cardinality(Positions(Tail(q), T)) <= Cardinality(Positions(q, T))
<1>1. /\ \A i \in DOMAIN Tail(q) : i + 1 \in DOMAIN q /\ Tail(q)[i] = q[i + 1]
      /\ DOMAIN Tail(q) \subseteq Nat /\ Tail(q) \in Seq(S) /\ Head(q) \in S
  BY HasTail
<1> DEFINE p == Tail(q)
           P == Positions(q, T)
           Q == Positions(p, T)
           f == [i \in Q |-> i + 1]
<1>2. IsFiniteSet(P) /\ IsFiniteSet(Q) /\ Cardinality(Q) \in Nat
  BY <1>1, CountAppend
<1>3. f \in Injection(Q, P)
  <2>1. ASSUME NEW i \in Q PROVE i \in Nat /\ i + 1 \in P
    BY <1>1 DEF Positions
  <2>2. \A i, j \in Q : i + 1 = j + 1 => i = j
    BY <2>1
  <2> HIDE DEF P, Q
  <2> QED
    BY <2>1, <2>2 DEF Injection, IsInjective
<1> HIDE DEF P, Q, f
<1>4. Cardinality(Q) <= Cardinality(P)
  BY <1>2, <1>3, FS_Injection
<1> QED
  BY <1>2, <1>4 DEF P, Q

LEMMA CountBoth ==
  ASSUME NEW S, NEW q \in Seq(S), NEW T, NEW U, S \subseteq T \union U
  PROVE  Len(q) <= Cardinality(Positions(q, T)) + Cardinality(Positions(q, U))
<1> DEFINE P == Positions(q, T)
           Q == Positions(q, U)
<1>1. Len(q) \in Nat /\ DOMAIN q = 1..Len(q) /\ \A i \in 1..Len(q) : q[i] \in S
  OBVIOUS
<1>2. P \union Q = 1..Len(q) /\ P \subseteq 1..Len(q) /\ Q \subseteq 1..Len(q)
  BY <1>1 DEF Positions
<1>3. IsFiniteSet(1..Len(q)) /\ Cardinality(1..Len(q)) = Len(q)
  <2>1. ASSUME NEW n \in Nat PROVE IsFiniteSet(1..n) /\ Cardinality(1..n) = n
    BY FS_Interval
  <2> QED
    BY <1>1, <2>1
<1> HIDE DEF P, Q
<1>4. /\ IsFiniteSet(P) /\ IsFiniteSet(Q) /\ Cardinality(P) \in Nat /\ Cardinality(Q) \in Nat
      /\ IsFiniteSet(P \cap Q) /\ Cardinality(P \cap Q) \in Nat
  <2>1. IsFiniteSet(P) /\ IsFiniteSet(Q)
    BY <1>2, <1>3, FS_Subset
  <2>2. IsFiniteSet(P \cap Q)
    BY <2>1, FS_Subset
  <2> QED
    BY <2>1, <2>2, FS_CardinalityType
<1>5. Cardinality(P \union Q) = Cardinality(P) + Cardinality(Q) - Cardinality(P \cap Q)
  BY <1>4, FS_Union
<1>6. Cardinality(P) + Cardinality(Q) >= Len(q)
  <2>1. Cardinality(P) + Cardinality(Q) - Cardinality(P \cap Q) = Len(q)
    BY <1>2, <1>3, <1>5
  <2> QED
    BY <1>1, <1>4, <2>1
<1> QED
  BY <1>6 DEF P, Q

(***************************************************************************)
(* What a shard will know, as its queue grows and shrinks.                 *)
(***************************************************************************)

\* A session that names a, and no packet, does.
LEMMA NamingIs ==
  /\ \A a, m : m \in Naming(a) => m \in Session /\ m # NoSession
  /\ \A a : \A p \in Packet : p \notin Naming(a)
<1>1. ASSUME NEW r \in Session PROVE r # NoSession
  <2>1. r.host_addr \in Endpoint /\ NoSession.host_addr = NoAddr
    BY DEF Session, NoSession
  <2> QED
    BY <2>1, Sizes
<1> QED
  BY <1>1, SessionOrPacket DEF Naming

\* A message that does not name a changes nothing, one that does is the last.
LEMMA CurrentAppend ==
  ASSUME NEW S, NEW q \in Seq(S), NEW m \in S, NEW r, NEW t, NEW a
  PROVE  /\ m \notin Naming(a) /\ Current(r, q, t, a) => Current(r, Append(q, m), t, a)
         /\ m \in Naming(a) => Current(m, Append(q, m), t, a)
<1>1. /\ Len(q) \in Nat /\ DOMAIN q = 1..Len(q) /\ DOMAIN Append(q, m) = 1..(Len(q) + 1)
      /\ \A i \in 1..Len(q) : Append(q, m)[i] = q[i]
      /\ Append(q, m)[Len(q) + 1] = m
  OBVIOUS
<1> DEFINE p == Append(q, m)
<1> HIDE DEF p
<1>2. /\ \A i \in 1..(Len(q) + 1) : i \in 1..Len(q) \/ i = Len(q) + 1
      /\ 1..Len(q) \subseteq 1..(Len(q) + 1) /\ Len(q) + 1 \in 1..(Len(q) + 1)
      /\ \A i \in 1..(Len(q) + 1) : i <= Len(q) + 1
  BY <1>1
<1>3. ASSUME m \notin Naming(a), Current(r, q, t, a) PROVE Current(r, p, t, a)
  <2>1. ASSUME NEW k \in DOMAIN p, p[k] \in Naming(a) PROVE k \in DOMAIN q /\ q[k] \in Naming(a)
    BY <1>1, <1>2, <1>3, <2>1 DEF p
  <2>2. CASE t = r /\ ~Has(q, Naming(a))
    BY <2>1, <2>2 DEF Current, Has
  <2>3. ASSUME NEW j \in DOMAIN q, q[j] = r, r \in Naming(a),
               \A k \in DOMAIN q : q[k] \in Naming(a) => k <= j
        PROVE  Current(r, p, t, a)
    <3>1. j \in DOMAIN p /\ p[j] = r
      BY <1>1, <1>2, <2>3 DEF p
    <3> QED
      BY <2>1, <2>3, <3>1 DEF Current
  <2> QED
    BY <1>3, <2>2, <2>3 DEF Current
<1>4. ASSUME m \in Naming(a) PROVE Current(m, p, t, a)
  <2>1. Len(q) + 1 \in DOMAIN p /\ p[Len(q) + 1] = m /\ \A k \in DOMAIN p : k <= Len(q) + 1
    BY <1>1, <1>2 DEF p
  <2> QED
    BY <1>4, <2>1 DEF Current
<1> QED
  BY <1>3, <1>4 DEF p

\* Taking the head of the queue, the shard enters it if it names a.
LEMMA CurrentTail ==
  ASSUME NEW S, NEW q \in Seq(S), q # <<>>, NEW r, NEW t, NEW u, NEW a,
         Current(r, q, t, a),
         Head(q) \in Naming(a) => u = Head(q), Head(q) \notin Naming(a) => u = t
  PROVE  Current(r, Tail(q), u, a)
<1>1. /\ DOMAIN q = 1..Len(q) /\ DOMAIN Tail(q) = 1..(Len(q) - 1)
      /\ \A i \in 1..(Len(q) - 1) : Tail(q)[i] = q[i + 1]
      /\ Head(q) = q[1] /\ Len(q) \in Nat /\ Len(q) > 0
  OBVIOUS
<1> DEFINE p == Tail(q)
           h == Head(q)
<1> HIDE DEF p, h
<1>2. \A k \in DOMAIN p : k \in Nat /\ k + 1 \in DOMAIN q /\ p[k] = q[k + 1]
  BY <1>1 DEF p
<1>3. CASE t = r /\ ~Has(q, Naming(a))
  <2>1. h \notin Naming(a) /\ ~Has(p, Naming(a))
    BY <1>1, <1>2, <1>3 DEF Has, h
  <2> QED
    BY <1>3, <2>1 DEF Current, p, h
<1>4. ASSUME NEW j \in DOMAIN q, q[j] = r, r \in Naming(a),
             \A k \in DOMAIN q : q[k] \in Naming(a) => k <= j
      PROVE  Current(r, p, u, a)
  <2>1. ASSUME NEW k \in DOMAIN p, p[k] \in Naming(a) PROVE k + 1 <= j
    BY <1>2, <1>4, <2>1
  <2>2. CASE j = 1
    <3>1. u = r
      BY <1>1, <1>4, <2>2
    <3>2. ~Has(p, Naming(a))
      BY <1>2, <2>1, <2>2 DEF Has
    <3> QED
      BY <3>1, <3>2 DEF Current
  <2>3. CASE j # 1
    <3>1. j - 1 \in DOMAIN p /\ p[j - 1] = r
      BY <1>1, <1>4, <2>3 DEF p
    <3>2. \A k \in DOMAIN p : p[k] \in Naming(a) => k <= j - 1
      BY <1>1, <1>2, <2>1
    <3> QED
      BY <1>4, <3>1, <3>2 DEF Current
  <2> QED
    BY <2>2, <2>3
<1> QED
  BY <1>3, <1>4 DEF Current, p

\* So is a packet's sender known.
LEMMA KnowsAppend ==
  ASSUME NEW S, NEW q \in Seq(S), NEW m \in S, NEW t, NEW a, NEW n \in DOMAIN q,
         Knows(q, t, a, n)
  PROVE  Knows(Append(q, m), t, a, n)
<1>1. \A i \in 1..(n - 1) : Append(q, m)[i] = q[i]
  OBVIOUS
<1> QED
  BY <1>1 DEF Knows

LEMMA KnowsTail ==
  ASSUME NEW S, NEW q \in Seq(S), q # <<>>, NEW t, NEW u, NEW a, NEW n \in DOMAIN Tail(q),
         Knows(q, t, a, n + 1),
         Head(q) \in Naming(a) => u = Head(q), Head(q) \notin Naming(a) => u = t
  PROVE  Knows(Tail(q), u, a, n)
<1>1. /\ DOMAIN Tail(q) = 1..(Len(q) - 1)
      /\ \A i \in 1..(Len(q) - 1) : Tail(q)[i] = q[i + 1]
      /\ Head(q) = q[1] /\ Len(q) \in Nat /\ Len(q) > 0
  OBVIOUS
<1>2. CASE Head(q) \in Naming(a)
  <2>1. u # NoSession
    BY <1>2, NamingIs
  <2> QED
    BY <2>1 DEF Knows
<1>3. CASE Head(q) \notin Naming(a)
  <2>1. CASE t # NoSession
    BY <1>3, <2>1 DEF Knows
  <2>2. ASSUME NEW i \in 1..n, q[i] \in Naming(a) PROVE Knows(Tail(q), u, a, n)
    <3>1. i # 1
      BY <1>1, <1>3, <2>2
    <3>2. i - 1 \in 1..(n - 1) /\ Tail(q)[i - 1] = q[i]
      BY <1>1, <3>1
    <3> QED
      BY <2>2, <3>2 DEF Knows
  <2>3. (n + 1) - 1 = n
    BY <1>1
  <2> QED
    BY <2>1, <2>2, <2>3 DEF Knows
<1> QED
  BY <1>2, <1>3

(***************************************************************************)
(* There is room.                                                          *)
(***************************************************************************)

\* A session that is taken from the control channel fits into every queue.
LEMMA SessionFits ==
  ASSUME QueueRoom, NInv, NEW s \in Shard, taken < Len(requests)
  PROVE  Len(queue[s]) < QueueCap
<1> DEFINE q == queue[s]
           P == Positions(q, Packet)
           f == [i \in P |-> q[i].buf_idx]
<1>1. q \in Seq(Message)
  BY DEF NInv, IInv, TypeOK, Message
<1>2. f \in Injection(P, Buffer)
  <2>1. ASSUME NEW i \in P PROVE i \in DOMAIN q /\ q[i] \in Packet /\ q[i].buf_idx \in Buffer
    BY Entries DEF Positions
  <2>2. ASSUME NEW i \in P, NEW j \in P, q[i].buf_idx = q[j].buf_idx PROVE i = j
    <3>1. PICK b \in Buffer : b = q[i].buf_idx
      BY <2>1
    <3>2. q[i] \in ShardEntry(b) /\ q[j] \in ShardEntry(b)
      BY <2>1, <2>2, <3>1 DEF ShardEntry
    <3>3. One(q, ShardEntry(b))
      BY DEF NInv, IInv, Single, SingleShard
    <3> QED
      BY <2>1, <3>2, <3>3 DEF One
  <2> HIDE DEF P, q
  <2> QED
    BY <2>1, <2>2 DEF Injection, IsInjective
<1>3. IsFiniteSet(Buffer) /\ Cardinality(Buffer) = PoolSize
  BY FS_Interval, Sizes DEF Buffer
<1> HIDE DEF P, f, q
<1>4. Cardinality(P) <= PoolSize
  BY <1>2, <1>3, FS_Injection
<1>5. Len(q) <= Cardinality(Positions(q, Session)) + Cardinality(P)
  BY <1>1, CountBoth DEF Message, P
<1>6. Cardinality(Positions(q, Session)) <= taken /\ Len(requests) <= MaxRequests
  BY DEF NInv, Routed, Bounded, q
<1>7. /\ Len(q) \in Nat /\ Cardinality(P) \in Nat
      /\ Cardinality(Positions(q, Session)) \in Nat
  <2>1. \A T : IsFiniteSet(Positions(q, T)) /\ Cardinality(Positions(q, T)) \in Nat
    <3> SUFFICES ASSUME NEW T
                 PROVE  IsFiniteSet(Positions(q, T)) /\ Cardinality(Positions(q, T)) \in Nat
      OBVIOUS
    <3>1. DOMAIN q = 1..Len(q) /\ Len(q) \in Nat
      BY <1>1, Elements
    <3>2. IsFiniteSet(1..Len(q))
      BY <3>1, FS_Interval
    <3>3. Positions(q, T) \in SUBSET (1..Len(q))
      BY <3>1 DEF Positions
    <3> QED
      BY <3>2, <3>3, FS_Subset, FS_CardinalityType
  <2> QED
    BY <1>1, <2>1, Elements DEF P
<1>8. taken \in Nat /\ Len(requests) \in Nat
  BY DEF NInv, IInv, TypeOK
<1>9. Len(q) < QueueCap
  BY <1>4, <1>5, <1>6, <1>7, <1>8, Sizes DEF QueueRoom
<1> QED
  BY <1>9 DEF q

\* The answer to a packet fits into the out channel: its buffer is not there.
LEMMA AnswerFits ==
  ASSUME OutRoom, IInv, NEW b \in Buffer, In("shard", b)
  PROVE  Len(out) < OutCap
<1> DEFINE f == [i \in 1..Len(out) |-> out[i].idx]
<1>1. out \in Seq(OutElem)
  BY DEF IInv, TypeOK, OutElem
<1>2. Len(out) \in Nat /\ DOMAIN out = 1..Len(out) /\ \A i \in DOMAIN out : out[i] \in OutElem
  BY <1>1, Elements
<1>3. \A i \in 1..Len(out) : out[i].idx \in Buffer /\ out[i] \in OutEntry(out[i].idx)
  BY <1>2 DEF OutElem, OutEntry
<1>4. f \in [1..Len(out) -> 0..(PoolSize - 1)]
  BY <1>3 DEF Buffer
<1>5. ASSUME NEW i \in 1..Len(out), NEW j \in 1..Len(out), f[i] = f[j] PROVE i = j
  <2>1. PICK c \in Buffer : c = out[i].idx
    BY <1>3
  <2>2. out[i] \in OutEntry(c) /\ out[j] \in OutEntry(c)
    BY <1>3, <1>5, <2>1
  <2>3. One(out, OutEntry(c))
    BY DEF IInv, Single, SingleOut
  <2> QED
    BY <1>2, <2>2, <2>3 DEF One
<1>6. ASSUME NEW i \in 1..Len(out) PROVE f[i] # b
  <2>1. ~In("out", b)
    BY Elsewhere DEF IInv, Stage
  <2> QED
    BY <1>2, <1>3, <2>1 DEF In, Has
<1>7. b \in 0..(PoolSize - 1)
  BY DEF Buffer
<1> HIDE DEF f
<1>8. Len(out) < PoolSize
  <2>1. PoolSize \in Nat /\ Len(out) \in Nat
    BY <1>2, Sizes
  <2>2. \A i, j \in 1..Len(out) : f[i] = f[j] => i = j
    BY <1>5
  <2>3. \A c \in 0..(PoolSize - 1) : (\A i \in 1..Len(out) : f[i] # c) => Len(out) < PoolSize
    BY <1>4, <2>1, <2>2, Fits
  <2> QED
    BY <1>6, <1>7, <2>3
<1> QED
  BY <1>2, <1>8, Sizes DEF OutRoom

(***************************************************************************)
(* Every action keeps the router and the shards in agreement.              *)
(***************************************************************************)

\* What the router's shard of client a will know.
AgreedOn(a) ==
  /\ endpoint_to_shard[a] = NoShard => \A k \in 1..taken : requests[k] \notin Naming(a)
  /\ \A s \in Shard : endpoint_to_shard[a] = s =>
        \E i \in 1..taken :
           Latest(i, a) /\ Current(requests[i], queue[s], table[s][a], a)

LEMMA AgreedIs ==
  endpoint_to_shard \in [Addr -> Shard \union {NoShard}]
  => (Agreed <=> \A a \in Endpoint : AgreedOn(a))
<1> SUFFICES ASSUME endpoint_to_shard \in [Addr -> Shard \union {NoShard}]
             PROVE  Agreed <=> \A a \in Endpoint : AgreedOn(a)
  OBVIOUS
<1>1. ASSUME NEW a \in Endpoint
      PROVE  /\ endpoint_to_shard[a] \in Shard \union {NoShard}
             /\ endpoint_to_shard[a] = NoShard => endpoint_to_shard[a] \notin Shard
  BY Sizes
<1> QED
  BY <1>1 DEF Agreed, AgreedOn

LEMMA AgreedNext ==
  ASSUME IInv'
  PROVE  Agreed' <=> \A a \in Endpoint : AgreedOn(a)'
<1>1. (endpoint_to_shard \in [Addr -> Shard \union {NoShard}])'
      => (Agreed <=> \A a \in Endpoint : AgreedOn(a))'
  BY AgreedIs, PTL
<1>2. endpoint_to_shard' \in [Addr -> Shard \union {NoShard}]
  BY DEF IInv, TypeOK
<1> QED
  BY <1>1, <1>2

\* Steps that touch neither the router nor the shards.
LEMMA QuietRouted ==
  ASSUME NInv, UNCHANGED <<requests, taken, endpoint_to_shard, queue, table>>
  PROVE  Routed'
<1>1. Bounded' /\ Known'
  BY DEF NInv, Routed, Bounded, Known
<1>2. Agreed'
  BY DEF NInv, Routed, Agreed, Latest
<1> QED
  BY <1>1, <1>2 DEF NInv, Routed

LEMMA CreateSessionRouted ==
  ASSUME NInv, IInv', NEW r \in Requests, CreateSession(r)
  PROVE  Routed'
<1>1. /\ requests' = Append(requests, r) /\ Len(requests) < MaxRequests
      /\ UNCHANGED <<taken, endpoint_to_shard, queue, table>>
  BY DEF CreateSession, routerVars
<1>2. requests \in Seq(Requests) /\ taken \in 0..Len(requests)
  BY DEF NInv, IInv, TypeOK
<1>3. /\ Len(requests) \in Nat /\ Len(requests') = Len(requests) + 1
      /\ \A i \in 1..taken : requests'[i] = requests[i]
  BY <1>1, <1>2
<1>4. Bounded'
  BY <1>1, <1>3, Sizes DEF NInv, Routed, Bounded
<1>5. Known'
  BY <1>1 DEF NInv, Routed, Known
<1>6. ASSUME NEW a \in Endpoint PROVE AgreedOn(a)'
  <2>1. AgreedOn(a)
    BY AgreedIs DEF NInv, Routed, IInv, TypeOK
  <2>2. ASSUME NEW i \in 1..taken, Latest(i, a) PROVE Latest(i, a)'
    BY <1>1, <1>3, <2>2 DEF Latest
  <2> QED
    BY <1>1, <1>3, <2>1, <2>2 DEF AgreedOn
<1> QED
  BY <1>1, <1>4, <1>5, <1>6, AgreedNext DEF NInv, Routed

\* A shard takes a message, and enters it where it names an address.
LEMMA TakeRouted ==
  ASSUME NInv, IInv', NEW s \in Shard, queue[s] # <<>>,
         queue' = [queue EXCEPT ![s] = Tail(queue[s])],
         UNCHANGED <<requests, taken, endpoint_to_shard>>,
         \A t \in Shard : t # s => table'[t] = table[t],
         \A a \in Addr : /\ Head(queue[s]) \in Naming(a) => table'[s][a] = Head(queue[s])
                         /\ Head(queue[s]) \notin Naming(a) => table'[s][a] = table[s][a]
  PROVE  Routed'
<1>1. queue \in [Shard -> Seq(Message)]
  BY DEF NInv, IInv, TypeOK, Message
<1> DEFINE q == queue[s]
<1>2. q \in Seq(Message) /\ q # <<>>
  BY <1>1
<1>3. queue'[s] = Tail(q) /\ \A t \in Shard : t # s => queue'[t] = queue[t]
  BY <1>1
<1> HIDE DEF q
<1>4. Bounded'
  <2>1. ASSUME NEW t \in Shard PROVE Cardinality(Positions(queue'[t], Session)) <= taken
    <3>1. CASE t = s
      <4>1. /\ Cardinality(Positions(Tail(q), Session)) \in Nat
            /\ Cardinality(Positions(Tail(q), Session)) <= Cardinality(Positions(q, Session))
        BY <1>2, CountTail
      <4>2. Cardinality(Positions(q, Session)) <= taken /\ taken \in Nat
        BY DEF NInv, IInv, TypeOK, Routed, Bounded, q
      <4>3. Cardinality(Positions(q, Session)) \in Nat
        <5>1. Head(q) \in Message
          BY <1>2, HasTail
        <5>2. \A T : Cardinality(Positions(q, T)) \in Nat
          BY <1>2, <5>1, CountAppend
        <5> QED
          BY <5>2
      <4>4. Cardinality(Positions(Tail(q), Session)) <= taken
        BY <4>1, <4>2, <4>3
      <4> QED
        BY <1>3, <3>1, <4>4
    <3>2. CASE t # s
      BY <1>3, <3>2 DEF NInv, Routed, Bounded
    <3> QED
      BY <3>1, <3>2
  <2> QED
    BY <2>1 DEF NInv, Routed, Bounded
<1>5. ASSUME NEW a \in Endpoint PROVE AgreedOn(a)'
  <2>1. AgreedOn(a)
    BY AgreedIs DEF NInv, Routed, IInv, TypeOK
  <2>2. a \in Addr
    BY Sizes
  <2>3. ASSUME NEW t \in Shard, NEW i \in 1..taken,
               Current(requests[i], queue[t], table[t][a], a)
        PROVE  Current(requests[i], queue'[t], table'[t][a], a)
    <3>1. CASE t # s
      BY <1>3, <2>3, <3>1
    <3>2. CASE t = s
      <4>1. Current(requests[i], q, table[s][a], a)
        BY <2>3, <3>2 DEF q
      <4>2. /\ Head(q) \in Naming(a) => table'[s][a] = Head(q)
            /\ Head(q) \notin Naming(a) => table'[s][a] = table[s][a]
        BY <2>2 DEF q
      <4>3. Current(requests[i], Tail(q), table'[s][a], a)
        BY <1>2, <4>1, <4>2, CurrentTail
      <4> QED
        BY <1>3, <3>2, <4>3
    <3> QED
      BY <3>1, <3>2
  <2>4. ASSUME NEW i \in 1..taken, Latest(i, a) PROVE Latest(i, a)'
    BY <2>4 DEF Latest
  <2> QED
    BY <2>1, <2>3, <2>4 DEF AgreedOn
<1>6. Known'
  <2> SUFFICES ASSUME NEW t \in Shard, NEW n \in DOMAIN queue'[t], queue'[t][n] \in Packet
               PROVE  Knows(queue'[t], table'[t][queue'[t][n].src], queue'[t][n].src, n)
    BY DEF Known
  <2>1. CASE t # s
    <3>1. queue'[t] = queue[t] /\ table'[t] = table[t]
      BY <1>3, <2>1
    <3> QED
      BY <3>1 DEF NInv, Routed, Known
  <2>2. CASE t = s
    <3>1. n \in DOMAIN Tail(q) /\ Tail(q)[n] \in Packet
      BY <1>3, <2>2
    <3>2. n + 1 \in DOMAIN q /\ Tail(q)[n] = q[n + 1]
      BY <1>2, <3>1, HasTail
    <3>3. PICK a \in Addr : a = q[n + 1].src
      BY <3>1, <3>2, Entries
    <3>4. Knows(q, table[s][a], a, n + 1)
      BY <3>1, <3>2, <3>3 DEF NInv, Routed, Known, q
    <3>5. /\ Head(q) \in Naming(a) => table'[s][a] = Head(q)
          /\ Head(q) \notin Naming(a) => table'[s][a] = table[s][a]
      BY DEF q
    <3>6. Knows(Tail(q), table'[s][a], a, n)
      BY <1>2, <3>1, <3>4, <3>5, KnowsTail
    <3>7. queue'[t] = Tail(q) /\ table'[t] = table'[s]
      BY <1>3, <2>2
    <3>8. queue'[t][n].src = a
      BY <3>2, <3>3, <3>7
    <3> QED
      BY <3>6, <3>7, <3>8
  <2> QED
    BY <2>1, <2>2
<1> QED
  BY <1>4, <1>5, <1>6, AgreedNext DEF NInv, Routed

LEMMA AddSessionRouted ==
  ASSUME NInv, IInv', NEW s \in Shard, AddSession(s)
  PROVE  Routed'
<1> DEFINE r == Head(queue[s])
<1>1. /\ queue[s] # <<>> /\ r \in Session
      /\ table' = [table EXCEPT ![s][r.host_addr] = r, ![s][r.peer_addr] = r]
      /\ queue' = [queue EXCEPT ![s] = Tail(@)]
      /\ UNCHANGED <<requests, taken, endpoint_to_shard>>
  BY DEF AddSession, routerVars
<1>2. queue' = [queue EXCEPT ![s] = Tail(queue[s])]
  BY <1>1 DEF NInv, IInv, TypeOK
<1>3. table \in [Shard -> [Addr -> Session \union {NoSession}]]
  BY DEF NInv, IInv, TypeOK
<1> HIDE DEF r
<1>4. r.host_addr \in Addr /\ r.peer_addr \in Addr
  BY <1>1, Sizes DEF Session
<1>5. \A t \in Shard : t # s => table'[t] = table[t]
  BY <1>1, <1>3
<1>6. \A a \in Addr : /\ a \in {r.host_addr, r.peer_addr} => table'[s][a] = r
                      /\ a \notin {r.host_addr, r.peer_addr} => table'[s][a] = table[s][a]
  BY <1>1, <1>3, <1>4
<1>7. \A a \in Addr : /\ r \in Naming(a) => table'[s][a] = r
                      /\ r \notin Naming(a) => table'[s][a] = table[s][a]
  BY <1>1, <1>6 DEF Naming
<1> QED
  BY <1>1, <1>2, <1>5, <1>7, TakeRouted DEF r

LEMMA HandlePacketRouted ==
  ASSUME NInv, IInv', NEW s \in Shard, HandlePacket(s)
  PROVE  Routed'
<1>1. /\ queue[s] # <<>> /\ Head(queue[s]) \in Packet
      /\ queue' = [queue EXCEPT ![s] = Tail(@)]
      /\ UNCHANGED <<requests, taken, endpoint_to_shard, table>>
  BY DEF HandlePacket, routerVars
<1>2. queue' = [queue EXCEPT ![s] = Tail(queue[s])]
  BY <1>1 DEF NInv, IInv, TypeOK
<1>3. \A a \in Addr : Head(queue[s]) \notin Naming(a)
  BY <1>1, NamingIs
<1> QED
  BY <1>1, <1>2, <1>3, TakeRouted

\* A packet joins the queue of its sender's shard.
LEMMA HandleRecvRouted ==
  ASSUME NInv, IInv', HandleRecv
  PROVE  Routed'
<1> DEFINE m == RecvPacket
<1>1. PICK b \in Buffer :
         /\ b = Idx(Head(cq)) /\ m \in Packet
         /\ LET s == endpoint_to_shard[slot[b]]
            IN  \/ s \in Shard /\ queue' = [queue EXCEPT ![s] = Append(queue[s], m)]
                \/ queue' = queue
  BY HandleRecvMoves DEF NInv
<1>2. UNCHANGED <<requests, taken, endpoint_to_shard, table>>
  BY DEF HandleRecv, routerVars
<1>3. m.src = slot[b]
  BY <1>1 DEF RecvPacket
<1> HIDE DEF m
<1>4. CASE queue' = queue
  BY <1>2, <1>4, QuietRouted
<1>5. ASSUME NEW s \in Shard, endpoint_to_shard[m.src] = s,
             queue' = [queue EXCEPT ![s] = Append(queue[s], m)]
      PROVE  Routed'
  <2>1. queue \in [Shard -> Seq(Message)] /\ m \in Message
    BY <1>1 DEF NInv, IInv, TypeOK, Message
  <2> DEFINE q == queue[s]
             a0 == m.src
  <2>2. q \in Seq(Message)
    BY <2>1
  <2>3. queue'[s] = Append(q, m) /\ \A t \in Shard : t # s => queue'[t] = queue[t]
    BY <1>5, <2>1
  <2>4. a0 \in Endpoint /\ endpoint_to_shard[a0] = s
    <3>1. a0 \in Addr /\ a0 # NoAddr
      BY <1>1, <1>5, Entries, Sizes DEF NInv, Routed
    <3> QED
      BY <1>5, <3>1 DEF Addr
  <2> HIDE DEF q, a0
  <2>5. m \notin Session /\ \A a : m \notin Naming(a)
    BY <1>1, NamingIs, SessionOrPacket
  <2>6. Bounded'
    <3>1. Positions(Append(q, m), Session) = Positions(q, Session)
      BY <2>1, <2>2, <2>5, CountAppend
    <3>2. \A t \in Shard : Positions(queue'[t], Session) = Positions(queue[t], Session)
      BY <2>3, <3>1 DEF q
    <3> QED
      BY <1>2, <3>2 DEF NInv, Routed, Bounded
  <2>7. ASSUME NEW a \in Endpoint PROVE AgreedOn(a)'
    <3>1. AgreedOn(a)
      BY AgreedIs DEF NInv, Routed, IInv, TypeOK
    <3>2. ASSUME NEW t \in Shard, NEW i \in 1..taken,
                 Current(requests[i], queue[t], table[t][a], a)
          PROVE  Current(requests[i], queue'[t], table'[t][a], a)
      <4>1. CASE t # s
        BY <1>2, <2>3, <3>2, <4>1
      <4>2. CASE t = s
        <5>1. Current(requests[i], q, table[s][a], a)
          BY <3>2, <4>2 DEF q
        <5>2. Current(requests[i], Append(q, m), table[s][a], a)
          BY <2>1, <2>2, <2>5, <5>1, CurrentAppend
        <5> QED
          BY <1>2, <2>3, <4>2, <5>2
      <4> QED
        BY <4>1, <4>2
    <3>3. ASSUME NEW i \in 1..taken, Latest(i, a) PROVE Latest(i, a)'
      BY <1>2, <3>3 DEF Latest
    <3> QED
      BY <1>2, <3>1, <3>2, <3>3 DEF AgreedOn
  <2>8. Known'
    <3> SUFFICES ASSUME NEW t \in Shard, NEW n \in DOMAIN queue'[t], queue'[t][n] \in Packet
                 PROVE  Knows(queue'[t], table'[t][queue'[t][n].src], queue'[t][n].src, n)
      BY DEF Known
    <3>1. CASE t # s
      <4>1. queue'[t] = queue[t] /\ table'[t] = table[t]
        BY <1>2, <2>3, <3>1
      <4> QED
        BY <4>1 DEF NInv, Routed, Known
    <3>2. CASE t = s
      <4>1. /\ Len(q) \in Nat /\ DOMAIN q = 1..Len(q)
            /\ DOMAIN Append(q, m) = 1..(Len(q) + 1)
            /\ \A i \in 1..Len(q) : Append(q, m)[i] = q[i]
            /\ Append(q, m)[Len(q) + 1] = m
        BY <2>1, <2>2
      <4>2. n \in DOMAIN q \/ n = Len(q) + 1
        BY <2>3, <3>2, <4>1
      <4>3. CASE n \in DOMAIN q
        <5>1. queue'[t][n] = q[n] /\ q[n] \in Packet
          BY <2>3, <3>2, <4>1, <4>3
        <5>2. Knows(q, table[s][q[n].src], q[n].src, n)
          BY <4>3, <5>1 DEF NInv, Routed, Known, q
        <5>3. Knows(Append(q, m), table[s][q[n].src], q[n].src, n)
          BY <2>1, <2>2, <4>3, <5>2, KnowsAppend
        <5> QED
          BY <1>2, <2>3, <3>2, <5>1, <5>3
      <4>4. CASE n = Len(q) + 1
        <5>1. queue'[t][n].src = a0
          BY <2>3, <3>2, <4>1, <4>4 DEF a0
        <5>2. AgreedOn(a0)
          BY <2>4, AgreedIs DEF NInv, Routed, IInv, TypeOK
        <5>3. PICK i \in 1..taken : Latest(i, a0) /\ Current(requests[i], q, table[s][a0], a0)
          BY <2>4, <5>2 DEF AgreedOn, q
        <5>4. table[s][a0] # NoSession \/ \E j \in 1..Len(q) : q[j] \in Naming(a0)
          BY <4>1, <5>3, NamingIs DEF Current, Latest
        <5>5. n - 1 = Len(q)
          BY <4>1, <4>4
        <5>6. Knows(Append(q, m), table[s][a0], a0, n)
          BY <4>1, <5>4, <5>5 DEF Knows
        <5> QED
          BY <1>2, <2>3, <3>2, <5>1, <5>6
      <4> QED
        BY <4>2, <4>3, <4>4
    <3> QED
      BY <3>1, <3>2
  <2> QED
    BY <1>2, <2>6, <2>7, <2>8, AgreedNext DEF NInv, Routed
<1> QED
  BY <1>1, <1>3, <1>4, <1>5

\* The loop tells the next shard of a session, and routes both clients there.
LEMMA ControlMsgRouted ==
  ASSUME QueueRoom, NInv, IInv', ControlMsg
  PROVE  Routed'
<1> DEFINE r == requests[taken + 1]
           s == next_shard
           q == queue[s]
<1>1. /\ taken < Len(requests) /\ queue' = Enqueue(s, r)
      /\ endpoint_to_shard' = [endpoint_to_shard EXCEPT ![r.host_addr] = s,
                                                        ![r.peer_addr] = s]
      /\ taken' = taken + 1 /\ UNCHANGED <<requests, table>>
  BY DEF ControlMsg
<1>2. /\ requests \in Seq(Requests) /\ taken \in 0..Len(requests) /\ s \in Shard
      /\ queue \in [Shard -> Seq(Message)]
      /\ endpoint_to_shard \in [Addr -> Shard \union {NoShard}]
  BY DEF NInv, IInv, TypeOK, Message
<1>3. r \in Session /\ taken \in Nat /\ Len(requests) \in Nat /\ taken + 1 \in 1..(taken + 1)
  <2>1. taken + 1 \in 1..Len(requests)
    BY <1>1, <1>2
  <2>2. r \in Requests
    BY <1>2, <2>1, Elements
  <2> QED
    BY <1>2, <2>2, TurnAssumption
<1>4. Len(queue[s]) < QueueCap
  BY <1>1, <1>2, SessionFits
<1>5. queue' = [queue EXCEPT ![s] = Append(queue[s], r)]
  BY <1>1, <1>2, <1>4 DEF Enqueue
<1>6. q \in Seq(Message) /\ r \in Message
  BY <1>2, <1>3 DEF Message
<1>7. queue'[s] = Append(q, r) /\ \A t \in Shard : t # s => queue'[t] = queue[t]
  BY <1>2, <1>5
<1> HIDE DEF r, s, q
<1>8. r.host_addr \in Endpoint /\ r.peer_addr \in Endpoint
  BY <1>3 DEF Session
<1>9. \A a \in Addr : endpoint_to_shard'[a] = IF r \in Naming(a) THEN s ELSE endpoint_to_shard[a]
  <2>1. \A a : r \in Naming(a) <=> a \in {r.host_addr, r.peer_addr}
    BY <1>3 DEF Naming
  <2> QED
    BY <1>1, <1>2, <1>8, <2>1
<1>10. endpoint_to_shard'[NoAddr] = NoShard
  <2>1. r \notin Naming(NoAddr)
    BY <1>8, Sizes DEF Naming
  <2> QED
    BY <1>9, <2>1, Sizes DEF NInv, Routed
<1>11. Bounded'
  <2>1. ASSUME NEW t \in Shard PROVE Cardinality(Positions(queue'[t], Session)) <= taken + 1
    <3>1. /\ Cardinality(Positions(queue[t], Session)) <= taken
          /\ Cardinality(Positions(queue[t], Session)) \in Nat
      <4>1. queue[t] \in Seq(Message)
        BY <1>2
      <4>2. \A T : Cardinality(Positions(queue[t], T)) \in Nat
        BY <1>6, <4>1, CountAppend
      <4> QED
        BY <4>2 DEF NInv, Routed, Bounded
    <3>2. CASE t = s
      <4>1. Cardinality(Positions(Append(q, r), Session)) = Cardinality(Positions(q, Session)) + 1
        BY <1>3, <1>6, CountAppend
      <4>2. Cardinality(Positions(q, Session)) + 1 <= taken + 1
        BY <1>3, <3>1, <3>2 DEF q
      <4> QED
        BY <1>7, <3>2, <4>1, <4>2
    <3>3. CASE t # s
      <4>1. queue'[t] = queue[t]
        BY <1>7, <3>3
      <4>2. Cardinality(Positions(queue[t], Session)) <= taken + 1
        BY <1>3, <3>1
      <4> QED
        BY <4>1, <4>2
    <3> QED
      BY <3>2, <3>3
  <2> QED
    BY <1>1, <2>1 DEF NInv, Routed, Bounded
<1>12. ASSUME NEW a \in Endpoint PROVE AgreedOn(a)'
  <2>1. AgreedOn(a)
    BY <1>2, AgreedIs DEF NInv, Routed
  <2>2. a \in Addr /\ requests'[taken + 1] = r
    BY <1>1, Sizes DEF r
  <2>3. /\ \A k \in 1..(taken + 1) : k \in 1..taken \/ k = taken + 1
        /\ 1..taken \subseteq 1..(taken + 1) /\ \A k \in 1..(taken + 1) : k <= taken + 1
    BY <1>3
  <2>4. CASE r \in Naming(a)
    <3>1. endpoint_to_shard'[a] = s
      BY <1>9, <2>2, <2>4
    <3>2. PICK i \in 1..(taken + 1) : i = taken + 1
      BY <1>3
    <3>5. Latest(i, a)' /\ requests'[i] = r
      BY <1>1, <2>2, <2>3, <2>4, <3>2 DEF Latest
    <3>3. Current(r, queue'[s], table'[s][a], a)
      <4>1. Current(r, Append(q, r), table'[s][a], a)
        BY <1>6, <2>4, CurrentAppend
      <4> QED
        BY <1>7, <4>1
    <3>4. s # NoShard
      BY <1>2, Sizes
    <3> QED
      BY <1>1, <3>1, <3>3, <3>4, <3>5 DEF AgreedOn
  <2>5. CASE r \notin Naming(a)
    <3>1. endpoint_to_shard'[a] = endpoint_to_shard[a]
      BY <1>9, <2>2, <2>5
    <3>2. ASSUME NEW k \in 1..(taken + 1), requests[k] \in Naming(a) PROVE k \in 1..taken
      BY <1>1, <2>2, <2>3, <2>5, <3>2
    <3>3. ASSUME NEW i \in 1..taken, Latest(i, a) PROVE Latest(i, a)'
      BY <1>1, <3>2, <3>3 DEF Latest
    <3>4. ASSUME NEW t \in Shard, NEW i \in 1..taken,
                 Current(requests[i], queue[t], table[t][a], a)
          PROVE  Current(requests[i], queue'[t], table'[t][a], a)
      <4>1. CASE t # s
        BY <1>1, <1>7, <3>4, <4>1
      <4>2. CASE t = s
        <5>1. Current(requests[i], q, table[s][a], a)
          BY <3>4, <4>2 DEF q
        <5>2. Current(requests[i], Append(q, r), table[s][a], a)
          BY <1>6, <2>5, <5>1, CurrentAppend
        <5> QED
          BY <1>1, <1>7, <4>2, <5>2
      <4> QED
        BY <4>1, <4>2
    <3>5. ASSUME endpoint_to_shard'[a] = NoShard
          PROVE  \A k \in 1..taken' : requests'[k] \notin Naming(a)
      BY <1>1, <2>1, <3>1, <3>2, <3>5 DEF AgreedOn
    <3>6. ASSUME NEW t \in Shard, endpoint_to_shard'[a] = t
          PROVE  \E i \in 1..taken' :
                    Latest(i, a)' /\ Current(requests'[i], queue'[t], table'[t][a], a)
      <4>1. PICK i \in 1..taken : Latest(i, a) /\ Current(requests[i], queue[t], table[t][a], a)
        BY <2>1, <3>1, <3>6 DEF AgreedOn
      <4>2. Latest(i, a)' /\ Current(requests[i], queue'[t], table'[t][a], a)
        BY <3>3, <3>4, <4>1
      <4> QED
        BY <1>1, <2>3, <4>2
    <3> QED
      BY <3>5, <3>6 DEF AgreedOn
  <2> QED
    BY <2>4, <2>5
<1>13. Known'
  <2> SUFFICES ASSUME NEW t \in Shard, NEW n \in DOMAIN queue'[t], queue'[t][n] \in Packet
               PROVE  Knows(queue'[t], table'[t][queue'[t][n].src], queue'[t][n].src, n)
    BY DEF Known
  <2>1. CASE t # s
    <3>1. queue'[t] = queue[t] /\ table'[t] = table[t]
      BY <1>1, <1>7, <2>1
    <3> QED
      BY <3>1 DEF NInv, Routed, Known
  <2>2. CASE t = s
    <3>1. /\ Len(q) \in Nat /\ DOMAIN q = 1..Len(q)
          /\ DOMAIN Append(q, r) = 1..(Len(q) + 1)
          /\ \A i \in 1..Len(q) : Append(q, r)[i] = q[i]
          /\ Append(q, r)[Len(q) + 1] = r
      BY <1>6
    <3>2. n \in DOMAIN q
      BY <1>3, <1>7, <2>2, <3>1, SessionOrPacket
    <3>3. queue'[t][n] = q[n] /\ q[n] \in Packet
      BY <1>7, <2>2, <3>1, <3>2
    <3>4. Knows(q, table[s][q[n].src], q[n].src, n)
      BY <1>2, <3>2, <3>3 DEF NInv, Routed, Known, q
    <3>5. Knows(Append(q, r), table[s][q[n].src], q[n].src, n)
      BY <1>6, <3>2, <3>4, KnowsAppend
    <3> QED
      BY <1>1, <1>7, <2>2, <3>3, <3>5
  <2> QED
    BY <2>1, <2>2
<1> QED
  BY <1>10, <1>11, <1>12, <1>13, AgreedNext DEF Routed

LEMMA InitRouted == Init => Routed
<1> SUFFICES ASSUME Init PROVE Routed
  OBVIOUS
<1>1. /\ requests = <<>> /\ taken = 0
      /\ endpoint_to_shard = [a \in Addr |-> NoShard]
      /\ queue = [s \in Shard |-> <<>>]
  BY DEF Init
<1>2. \A T : Positions(<<>>, T) = {}
  BY DEF Positions
<1>3. Bounded
  <2>1. Len(<<>>) = 0 /\ 0 <= MaxRequests
    BY Sizes
  <2>3. Cardinality({}) = 0
    BY FS_EmptySet
  <2>2. \A s \in Shard : queue[s] = <<>>
    BY <1>1
  <2>4. ASSUME NEW s \in Shard PROVE Cardinality(Positions(queue[s], Session)) <= taken
    <3>1. Cardinality(Positions(queue[s], Session)) = 0
      BY <1>2, <2>2, <2>3
    <3> QED
      BY <1>1, <3>1
  <2>5. Len(requests) <= MaxRequests
    BY <1>1, <2>1
  <2> QED
    BY <2>4, <2>5 DEF Bounded
<1>4. Known
  BY <1>1 DEF Known
<1>5. Agreed
  <2>1. \A a \in Endpoint : endpoint_to_shard[a] = NoShard
    BY <1>1, Sizes
  <2>2. 1..taken = {}
    BY <1>1
  <2> QED
    BY <2>1, <2>2 DEF Agreed
<1> QED
  BY <1>1, <1>3, <1>4, <1>5, Sizes DEF Routed

LEMMA StepRouted == QueueRoom /\ NInv /\ [Next]_vars => NInv'
<1> SUFFICES ASSUME QueueRoom, NInv, [Next]_vars PROVE Routed'
  BY StepKeeps DEF NInv
<1> USE DEF routerVars
<1>0. IInv'
  BY StepKeeps DEF NInv
<1>1. ASSUME NEW r \in Requests, CreateSession(r) PROVE Routed'
  BY <1>0, <1>1, CreateSessionRouted
<1>2. CASE ControlMsg
  BY <1>0, <1>2, ControlMsgRouted
<1>3. CASE HandleRecv
  BY <1>0, <1>3, HandleRecvRouted
<1>4. ASSUME NEW s \in Shard, AddSession(s) PROVE Routed'
  BY <1>0, <1>4, AddSessionRouted
<1>5. ASSUME NEW s \in Shard, HandlePacket(s) PROVE Routed'
  BY <1>0, <1>5, HandlePacketRouted
<1>6. CASE ControlDone \/ PublishTail \/ SyncDone \/ SendMsg \/ HandleSendMore \/ HandleSendLast
  BY <1>6, QuietRouted
  DEF ControlDone, PublishTail, SyncDone, SendMsg, HandleSendMore, HandleSendLast
<1>7. CASE KernelTake \/ KernelSleep \/ UNCHANGED vars
  BY <1>7, QuietRouted DEF KernelTake, KernelSleep, vars
<1>8. ASSUME NEW e \in inflight, NEW src \in Addr, NEW n \in Lens \union {0},
             KernelRecv(e, src, n)
      PROVE  Routed'
  BY <1>8, QuietRouted DEF KernelRecv
<1>9. ASSUME NEW e \in inflight, KernelSend(e) \/ KernelSendFail(e) \/ KernelNotif(e)
      PROVE  Routed'
  BY <1>9, QuietRouted DEF KernelSend, KernelSendFail, KernelNotif
<1> QED
  BY <1>1, <1>2, <1>3, <1>4, <1>5, <1>6, <1>7, <1>8, <1>9 DEF Next, Loop

\* The router and the shards stay in agreement in every reachable state.
THEOREM AgreementKept == QueueRoom => (Spec => []NInv)
<1> SUFFICES ASSUME QueueRoom PROVE Spec => []NInv
  OBVIOUS
<1>1. Init => NInv
  BY InitHolds, InitRouted DEF NInv
<1>2. NInv /\ [Next]_vars => NInv'
  BY StepRouted
<1> QED
  BY <1>1, <1>2, PTL DEF Spec

(***************************************************************************)
(* What follows.                                                           *)
(***************************************************************************)

\* The last position is the one that is chosen.
LEMMA LastChosen ==
  ASSUME NEW S \in SUBSET Nat, NEW i \in S, \A k \in S : k <= i
  PROVE  (CHOOSE x \in S : \A y \in S : y <= x) = i
<1>1. \A x \in S : (\A y \in S : y <= x) => x = i
  OBVIOUS
<1> QED
  BY <1>1

LEMMA AgreementShows == NInv => RouterAgreesWithShard
<1> SUFFICES ASSUME NInv, NEW a \in Endpoint
             PROVE  LET s == endpoint_to_shard[a]
                    IN  IF s = NoShard
                        THEN Newest(a) = NoSession
                        ELSE InForce(s, a, Len(queue[s]) + 1) = Newest(a)
  BY DEF RouterAgreesWithShard
<1>1. AgreedOn(a) /\ endpoint_to_shard[a] \in Shard \union {NoShard}
  BY AgreedIs, Sizes DEF NInv, Routed, IInv, TypeOK
<1>2. requests \in Seq(Requests) /\ taken \in 0..Len(requests) /\ Len(requests) \in Nat
  BY DEF NInv, IInv, TypeOK
<1> DEFINE named == {i \in 1..taken : a \in {requests[i].host_addr, requests[i].peer_addr}}
<1>3. \A k \in 1..taken : k \in named <=> requests[k] \in Naming(a)
  <2>1. \A k \in 1..taken : requests[k] \in Session
    BY <1>2, TurnAssumption
  <2> QED
    BY <2>1 DEF Naming
<1>4. named \in SUBSET Nat /\ named \subseteq 1..taken
  BY <1>2
<1>5. Newest(a) = IF named = {} THEN NoSession
                  ELSE requests[CHOOSE i \in named : \A j \in named : j <= i]
  BY DEF Newest
<1> HIDE DEF named
<1>6. CASE endpoint_to_shard[a] = NoShard
  <2>1. named = {}
    BY <1>1, <1>3, <1>4, <1>6 DEF AgreedOn
  <2> QED
    BY <1>5, <1>6, <2>1
<1>7. ASSUME NEW s \in Shard, endpoint_to_shard[a] = s
      PROVE  InForce(s, a, Len(queue[s]) + 1) = Newest(a)
  <2>1. PICK i \in 1..taken : Latest(i, a) /\ Current(requests[i], queue[s], table[s][a], a)
    BY <1>1, <1>7 DEF AgreedOn
  <2>2. Newest(a) = requests[i]
    <3>1. i \in named /\ \A k \in named : k <= i
      BY <1>3, <1>4, <2>1 DEF Latest
    <3> QED
      BY <1>4, <1>5, <3>1, LastChosen
  <2> DEFINE q == queue[s]
             before == {k \in 1..((Len(q) + 1) - 1) :
                          /\ q[k] \in Session
                          /\ a \in {q[k].host_addr, q[k].peer_addr}}
  <2>3. q \in Seq(Message)
    BY DEF NInv, IInv, TypeOK, Message
  <2>4. /\ Len(q) \in Nat /\ DOMAIN q = 1..Len(q) /\ (Len(q) + 1) - 1 = Len(q)
    BY <2>3, Elements
  <2>5. before = {k \in DOMAIN q : q[k] \in Naming(a)} /\ before \in SUBSET Nat
    BY <2>4 DEF Naming
  <2>6. InForce(s, a, Len(q) + 1) =
           IF before = {} THEN table[s][a]
           ELSE q[CHOOSE k \in before : \A j \in before : j <= k]
    BY DEF InForce
  <2> HIDE DEF before
  <2>7. CASE table[s][a] = requests[i] /\ ~Has(q, Naming(a))
    <3>1. before = {}
      BY <2>5, <2>7 DEF Has
    <3> QED
      BY <2>2, <2>6, <2>7, <3>1
  <2>8. ASSUME NEW j \in DOMAIN q, q[j] = requests[i], requests[i] \in Naming(a),
               \A k \in DOMAIN q : q[k] \in Naming(a) => k <= j
        PROVE  InForce(s, a, Len(q) + 1) = Newest(a)
    <3>1. j \in before /\ \A k \in before : k <= j
      BY <2>5, <2>8
    <3> QED
      BY <2>2, <2>5, <2>6, <2>8, <3>1, LastChosen
  <2> QED
    BY <2>1, <2>7, <2>8 DEF Current
<1>8. endpoint_to_shard[a] = NoShard => endpoint_to_shard[a] \notin Shard
  BY Sizes
<1> QED
  BY <1>1, <1>6, <1>7, <1>8

\* The router and the shards agree without a lock, for every number of shards,
\* clients, buffers and sessions for which no shard queue can run full: a packet
\* that is routed now finds, when its shard gets to it, the newest session of
\* its sender that the loop has taken.
THEOREM RouterCorrect == QueueRoom => (Spec => []RouterAgreesWithShard)
BY AgreementKept, AgreementShows, PTL

\* A shard finds a session only under the addresses it names.
TableNames ==
  \A s \in Shard, a \in Addr : table[s][a] # NoSession => table[s][a] \in Naming(a)

LEMMA StepTableNames ==
  ASSUME NInv, TableNames, [Next]_vars
  PROVE  TableNames'
<1>1. table' = table => TableNames'
  BY DEF TableNames
<1>2. ASSUME NEW s \in Shard, AddSession(s) PROVE TableNames'
  <2> DEFINE r == Head(queue[s])
  <2>1. /\ r \in Session
        /\ table' = [table EXCEPT ![s][r.host_addr] = r, ![s][r.peer_addr] = r]
    BY <1>2 DEF AddSession
  <2>2. table \in [Shard -> [Addr -> Session \union {NoSession}]]
    BY DEF NInv, IInv, TypeOK
  <2> HIDE DEF r
  <2>3. ASSUME NEW t \in Shard, NEW a \in Addr
        PROVE  table'[t][a] = table[t][a] \/ (table'[t][a] = r /\ r \in Naming(a))
    <3>1. r.host_addr \in Addr /\ r.peer_addr \in Addr
      BY <2>1, Sizes DEF Session
    <3>2. t # s => table'[t] = table[t]
      BY <2>1, <2>2
    <3>3. a \notin {r.host_addr, r.peer_addr} => table'[s][a] = table[s][a]
      BY <2>1, <2>2, <3>1
    <3>4. a \in {r.host_addr, r.peer_addr} => table'[s][a] = r /\ r \in Naming(a)
      BY <2>1, <2>2, <3>1 DEF Naming
    <3> QED
      BY <3>2, <3>3, <3>4
  <2> QED
    BY <2>3 DEF TableNames
<1>3. CASE ControlMsg \/ ControlDone \/ PublishTail \/ SyncDone \/ SendMsg \/ HandleRecv
           \/ HandleSendMore \/ HandleSendLast \/ KernelTake \/ KernelSleep \/ UNCHANGED vars
  BY <1>1, <1>3 DEF ControlMsg, ControlDone, PublishTail, SyncDone, SendMsg, HandleRecv,
                    HandleSendMore, HandleSendLast, KernelTake, KernelSleep, vars
<1>4. ASSUME \/ \E r \in Requests : CreateSession(r)
             \/ \E s \in Shard : HandlePacket(s)
      PROVE  table' = table
  BY <1>4 DEF CreateSession, HandlePacket
<1>5. ASSUME NEW e \in inflight,
             \/ \E src \in Addr, n \in Lens \union {0} : KernelRecv(e, src, n)
             \/ KernelSend(e) \/ KernelSendFail(e) \/ KernelNotif(e)
      PROVE  table' = table
  BY <1>5 DEF KernelRecv, KernelSend, KernelSendFail, KernelNotif
<1> QED
  BY <1>1, <1>2, <1>3, <1>4, <1>5 DEF Next, Loop

LEMMA StepNeverDrops ==
  ASSUME OutRoom, NInv, TableNames, ShardNeverDrops, [Next]_vars
  PROVE  ShardNeverDrops'
<1>1. lost \in [Buffer -> Lost]
  BY DEF NInv, IInv, TypeOK
<1>2. lost' = lost => ShardNeverDrops'
  BY DEF ShardNeverDrops
<1>3. ASSUME NEW s \in Shard, HandlePacket(s) PROVE ShardNeverDrops'
  <2> DEFINE p == Head(queue[s])
  <2>1. PICK b \in Buffer : b = p.buf_idx /\ In("shard", b)
    BY <1>3, HandlePacketMoves DEF NInv
  <2>2. Len(out) < OutCap /\ Len(out) # OutCap
    <3>1. Len(out) < OutCap
      BY <2>1, AnswerFits DEF NInv
    <3>2. Len(out) \in Nat
      BY DEF NInv, IInv, TypeOK
    <3> QED
      BY <3>1, <3>2, Sizes
  <2>3. queue[s] # <<>> /\ p \in Packet
    BY <1>3 DEF HandlePacket
  <2>4. table[s][p.src] # NoSession
    <3>1. queue[s] \in Seq(Message)
      BY DEF NInv, IInv, TypeOK, Message
    <3>2. 1 \in DOMAIN queue[s] /\ p = queue[s][1]
      BY <2>3, <3>1, HasTail
    <3>3. Knows(queue[s], table[s][p.src], p.src, 1)
      BY <2>3, <3>2 DEF NInv, Routed, Known
    <3> QED
      BY <3>3 DEF Knows
  <2>5. RouteTo(table[s][p.src], p.src) # NoAddr
    <3>1. p.src \in Addr
      BY <2>3, Entries
    <3>2. table[s][p.src] \in Naming(p.src)
      BY <2>4, <3>1 DEF TableNames
    <3> QED
      BY <3>2, Sizes DEF Naming, Session, RouteTo
  <2>6. lost' = [lost EXCEPT ![b] = "no"]
    BY <1>3, <2>1, <2>2, <2>4, <2>5 DEF HandlePacket
  <2> QED
    BY <1>1, <2>6 DEF ShardNeverDrops
<1>4. CASE HandleRecv
  <2>1. PICK b, why : lost' = [lost EXCEPT ![b] = why] /\ why \in {"unknown_src", "queue_full", "no"}
    BY <1>4 DEF HandleRecv, Route
  <2> QED
    BY <1>1, <2>1 DEF ShardNeverDrops
<1>5. CASE SendMsg \/ HandleSendLast
  <2>1. \E b : lost' = lost \/ lost' = [lost EXCEPT ![b] = "sq_full"]
    BY <1>5 DEF SendMsg, HandleSendLast, PostSend, PostRecv, Push
  <2> QED
    BY <1>1, <2>1 DEF ShardNeverDrops
<1>6. ASSUME \/ \E r \in Requests : CreateSession(r)
             \/ ControlMsg \/ ControlDone \/ PublishTail \/ SyncDone \/ HandleSendMore
             \/ \E s \in Shard : AddSession(s)
             \/ KernelTake \/ KernelSleep \/ UNCHANGED vars
      PROVE  lost' = lost
  BY <1>6 DEF CreateSession, ControlMsg, ControlDone, PublishTail, SyncDone, HandleSendMore,
              AddSession, KernelTake, KernelSleep, vars
<1>7. ASSUME NEW e \in inflight,
             \/ \E src \in Addr, n \in Lens \union {0} : KernelRecv(e, src, n)
             \/ KernelSend(e) \/ KernelSendFail(e) \/ KernelNotif(e)
      PROVE  lost' = lost
  BY <1>7 DEF KernelRecv, KernelSend, KernelSendFail, KernelNotif
<1> QED
  BY <1>2, <1>3, <1>4, <1>5, <1>6, <1>7 DEF Next, Loop

\* A packet that has reached a shard is never dropped there, however the loop,
\* the shards and the kernel take turns: its session came before it in the same
\* queue, and the out channel has room for the whole pool.
THEOREM ShardsDropNothing == QueueRoom /\ OutRoom => (Spec => []ShardNeverDrops)
<1> SUFFICES ASSUME QueueRoom, OutRoom PROVE Spec => []ShardNeverDrops
  OBVIOUS
<1>1. Init => TableNames /\ ShardNeverDrops
  BY DEF Init, TableNames, ShardNeverDrops
<1>2. NInv /\ TableNames /\ [Next]_vars => TableNames'
  BY StepTableNames
<1>3. NInv /\ TableNames /\ ShardNeverDrops /\ [Next]_vars => ShardNeverDrops'
  BY StepNeverDrops
<1>4. Spec => []NInv
  BY AgreementKept
<1> QED
  BY <1>1, <1>2, <1>3, <1>4, PTL DEF Spec
=============================================================================
