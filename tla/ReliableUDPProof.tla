-------------------------- MODULE ReliableUDPProof --------------------------
(***************************************************************************)
(* Proofs about ReliableUDP, for every pair of peers, every pair of        *)
(* streams, every sequence-number width and every output capacity.  The    *)
(* ordering theorems assume NoWrap; type correctness does not.             *)
(***************************************************************************)
EXTENDS ReliableUDP, TLAPS

\* The other end of the other end is p again, and there is nobody else.
LEMMA OtherFacts ==
  \A p \in Peer : /\ Other(p) \in Peer
                  /\ Other(p) # p
                  /\ Other(Other(p)) = p
<1>1. PICK x, y \in Peer : x # y /\ Peer = {x, y}
  BY PeerAssumption
<1>2. Other(x) = y /\ Other(y) = x
  BY <1>1 DEF Other
<1> QED
  BY <1>1, <1>2

\* The counters of SharedState start at 0, a u32.
LEMMA ZeroIsSeqNum == 0 \in SeqNum
BY SeqAssumption DEF SeqNum

\* A u32 increment stays a u32.
LEMMA IncType == \A n \in SeqNum : Inc(n) \in SeqNum
BY SeqAssumption DEF SeqNum, Inc

\* The packets the code builds and stores are packets.
LEMMA PacketTypes ==
  /\ \A n \in SeqNum : AckPacket(n) \in Packet
  /\ \A map \in SUBSET Packet, m \in Packet : Insert(map, m) \in SUBSET Packet
BY SeqAssumption DEF AckPacket, Packet, SeqNum, Payload, Insert

\* The next payload send() takes from its stream is a payload.
LEMMA NthElement ==
  ASSUME NEW S, NEW s \in Seq(S), NEW n \in Nat, n < Len(s)
  PROVE  s[n + 1] \in S
OBVIOUS

\* Every step keeps the types; one case per action.
LEMMA TypeStep == TypeOK /\ [Next]_vars => TypeOK'
<1> SUFFICES ASSUME TypeOK, [Next]_vars PROVE TypeOK'
  OBVIOUS
<1> USE OtherFacts, IncType, PacketTypes DEF TypeOK, sendVars, recvVars
<1>1. ASSUME NEW p \in Peer, Send(p) PROVE TypeOK'
  <2> DEFINE m == [seq     |-> Inc(next_seq[p]),
                   ack     |-> receiver_acknowledged[p],
                   payload |-> Stream[p][submitted[p] + 1]]
  <2>1. Stream[p][submitted[p] + 1] \in Payload
    <3>1. /\ Stream[p] \in Seq(Payload)
          /\ submitted[p] \in Nat
          /\ submitted[p] < Len(Stream[p])
      BY <1>1, StreamAssumption DEF Send
    <3> QED
      BY <3>1, NthElement
  <2>2. m \in Packet
    BY <2>1 DEF Packet
  <2> QED
    BY <1>1, <2>2 DEF Send
<1>2. ASSUME NEW p \in Peer, CheckRetransmission(p) PROVE TypeOK'
  BY <1>2 DEF CheckRetransmission
<1>3. ASSUME NEW p \in Peer, NEW n \in ack_queue[p], PeriodicAck(p, n)
      PROVE  TypeOK'
  BY <1>3 DEF PeriodicAck
<1>4. ASSUME NEW p \in Peer, NEW m \in net[p], NEW keep \in BOOLEAN,
             Recv(p, m, keep)
      PROVE  TypeOK'
  <2>1. m \in Packet /\ m.ack \in SeqNum
    BY DEF Packet
  <2>2. Taken(p, m, keep) \in SUBSET Packet
    BY DEF Taken
  <2>3. CASE RecvEqual(p, m, keep)
    BY <2>1, <2>2, <2>3 DEF RecvEqual
  <2>4. CASE RecvGreater(p, m, keep)
    <3>1. Insert(recv_buffer[p], m) \in SUBSET Packet
      BY <2>1
    <3>2. AckPacket(receiver_acknowledged[p]) \in Packet
      OBVIOUS
    <3> QED
      BY <2>2, <2>4, <3>1, <3>2 DEF RecvGreater
  <2>5. CASE RecvLess(p, m, keep)
    BY <2>1, <2>2, <2>5 DEF RecvLess
  <2> QED
    BY <1>4, <2>3, <2>4, <2>5 DEF Recv
<1>5. ASSUME NEW p \in Peer, Output(p) PROVE TypeOK'
  <2>1. hold[p].seq \in SeqNum
    BY DEF Packet
  <2> QED
    BY <1>5, <2>1 DEF Output
<1>6. ASSUME NEW p \in Peer, DrainHit(p) PROVE TypeOK'
  BY <1>6 DEF DrainHit
<1>7. ASSUME NEW p \in Peer, DrainMiss(p) PROVE TypeOK'
  BY <1>7, ZeroIsSeqNum DEF DrainMiss
<1>8. ASSUME NEW p \in Peer, OutputBuffered(p) PROVE TypeOK'
  BY <1>8 DEF OutputBuffered
<1>9. ASSUME NEW p \in Peer, Consume(p) PROVE TypeOK'
  BY <1>9 DEF Consume
<1>10. ASSUME NEW p \in Peer, Lose(p) PROVE TypeOK'
  BY <1>10 DEF Lose
<1>11. CASE UNCHANGED vars
  BY <1>11 DEF vars
<1> QED
  BY <1>1, <1>2, <1>3, <1>4, <1>5, <1>6, <1>7, <1>8, <1>9, <1>10, <1>11
  DEF Next

(***************************************************************************)
(* Type correctness: no counter leaves the u32 range, and nothing but      *)
(* packets is ever in flight, buffered or delivered, wrapped or not.       *)
(***************************************************************************)
THEOREM TypeCorrect == Spec => []TypeOK
<1>1. Init => TypeOK
  BY PacketTypes, SeqAssumption DEF Init, TypeOK, SeqNum
<1> QED
  BY <1>1, TypeStep, PTL DEF Spec

(***************************************************************************)
(* The inductive invariant behind in-order delivery.                       *)
(***************************************************************************)

\* A packet that q has built once it has submitted k payloads: position 0
\* is an ACK, position n > 0 is the n-th payload of q's stream.
Built(q, k, m) ==
  /\ m.seq <= k
  /\ m.seq = 0 => m.payload = None
  /\ m.seq > 0 => m.payload = Stream[q][m.seq]

\* ... and m has come, or may come, from q's present state.
From(q, m) == Built(q, submitted[q], m)

\* send numbers the payloads 1, 2, 3, ... in the order it takes them.
Numbering ==
  \A p \in Peer : /\ submitted[p] <= Len(Stream[p])
                  /\ next_seq[p] = submitted[p]

\* Whatever is in flight, remembered, buffered or held was built by the end
\* it comes from.
Genuine ==
  \A p \in Peer : /\ \A m \in net[p] : From(Other(p), m)
                  /\ \A m \in unacked[p] : From(p, m)
                  /\ \A m \in recv_buffer[p] : From(Other(p), m)
                  /\ From(Other(p), hold[p])

\* The packets on the output channel carry 0, 1, 2, ...
Consecutive ==
  \A p \in Peer : \A i \in 1..Len(output[p]) :
     output[p][i].seq = i - 1 /\ From(Other(p), output[p][i])

\* How the recv task's counters relate to what it has handed over: on the
\* drain path they run one ahead of the output channel.
Counters ==
  \A p \in Peer :
     /\ Len(output[p]) = IF pc[p] = "output_buffered"
                         THEN expected_sequence[p] - 1
                         ELSE expected_sequence[p]
     /\ pc[p] = "output" => hold[p].seq = expected_sequence[p]
     /\ pc[p] \in {"drain", "output_buffered"} =>
          hold[p].seq = expected_sequence[p] - 1
     /\ receiver_acknowledged[p] = IF expected_sequence[p] = 0
                                   THEN 0
                                   ELSE expected_sequence[p] - 1

\* recv_buffer holds one packet per key and only packets not yet delivered;
\* the expected one itself only while recv is draining.
Ahead ==
  \A p \in Peer :
     /\ \A m \in recv_buffer[p] :
          /\ m.seq >= expected_sequence[p]
          /\ pc[p] \in {"recv_from", "output"} => m.seq # expected_sequence[p]
     /\ \A m, n \in recv_buffer[p] : m.seq = n.seq => m = n

IInv == TypeOK /\ Numbering /\ Genuine /\ Consecutive /\ Counters /\ Ahead

\* Below the top of the range, Inc is + 1.
LEMMA IncPlain == \A n \in SeqNum : n < MaxSeq => Inc(n) = n + 1
BY SeqAssumption DEF SeqNum, Inc

\* A freshly created pair of ends satisfies the invariant.
LEMMA IInvInit == Init => IInv
<1> SUFFICES ASSUME Init PROVE IInv
  OBVIOUS
<1>1. TypeOK
  BY PacketTypes, ZeroIsSeqNum DEF Init, TypeOK
<1>2. Numbering /\ Genuine /\ Consecutive /\ Counters /\ Ahead
  BY OtherFacts, StreamAssumption
  DEF Init, AckPacket, Numbering, Genuine, Consecutive, Counters, Ahead, From,
      Built
<1> QED
  BY <1>1, <1>2 DEF IInv

\* send(): the new packet is the next of the stream, and older packets stay
\* genuine because submitted only grows.
LEMMA SendStep ==
  ASSUME NoWrap, IInv, NEW p \in Peer, Send(p)
  PROVE  (Numbering /\ Genuine /\ Consecutive /\ Counters /\ Ahead)'
<1> DEFINE n == submitted[p]
           m == [seq     |-> Inc(next_seq[p]),
                 ack     |-> receiver_acknowledged[p],
                 payload |-> Stream[p][n + 1]]
<1>1. /\ n \in Nat /\ n < Len(Stream[p]) /\ Len(Stream[p]) \in Nat
      /\ Len(Stream[p]) < MaxSeq /\ MaxSeq \in Nat
      /\ next_seq[p] = n /\ n \in SeqNum
  BY StreamAssumption, SeqAssumption DEF IInv, TypeOK, Numbering, Send, NoWrap
<1>2. Inc(next_seq[p]) = n + 1
  BY <1>1, IncPlain
<1>3. /\ submitted' = [submitted EXCEPT ![p] = n + 1]
      /\ next_seq' = [next_seq EXCEPT ![p] = n + 1]
      /\ unacked' = [unacked EXCEPT ![p] = Insert(unacked[p], m)]
      /\ net' = [net EXCEPT ![Other(p)] = net[Other(p)] \union {m}]
      /\ UNCHANGED <<expected_sequence, receiver_acknowledged, recv_buffer, pc,
                     hold, output>>
  BY <1>2 DEF Send, recvVars
<1>4. \A q \in Peer : submitted'[q] \in Nat /\ submitted'[q] >= submitted[q]
  BY <1>1, <1>3 DEF IInv, TypeOK
<1>5. \A q \in Peer, x \in Packet :
         Built(q, submitted[q], x) => Built(q, submitted'[q], x)
  <2> SUFFICES ASSUME NEW q \in Peer, NEW x \in Packet,
                      Built(q, submitted[q], x)
               PROVE  Built(q, submitted'[q], x)
    OBVIOUS
  <2>1. x.seq \in Nat /\ submitted[q] \in Nat
    BY SeqAssumption DEF Packet, SeqNum, IInv, TypeOK
  <2> QED
    BY <1>4, <2>1 DEF Built
<1>6. Built(p, submitted'[p], m)
  <2>1. m.seq = n + 1 /\ m.payload = Stream[p][n + 1]
    BY <1>2
  <2>2. submitted'[p] = n + 1
    BY <1>3 DEF IInv, TypeOK
  <2> QED
    BY <1>1, <2>1, <2>2 DEF Built
<1>7. Numbering'
  BY <1>1, <1>3 DEF Numbering, IInv, TypeOK
<1>8. Genuine'
  <2> SUFFICES ASSUME NEW q \in Peer
               PROVE  LET o == Other(q) IN
                      /\ \A x \in net'[q] : Built(o, submitted'[o], x)
                      /\ \A x \in unacked'[q] : Built(q, submitted'[q], x)
                      /\ \A x \in recv_buffer'[q] : Built(o, submitted'[o], x)
                      /\ Built(o, submitted'[o], hold'[q])
    BY DEF Genuine, From
  <2>1. \A x \in net[q] \union recv_buffer[q] \union {hold[q]} :
           Built(Other(q), submitted'[Other(q)], x)
    BY <1>5, OtherFacts DEF IInv, TypeOK, Genuine, From
  <2>2. \A x \in unacked[q] : Built(q, submitted'[q], x)
    BY <1>5 DEF IInv, TypeOK, Genuine, From
  <2>3. \A x \in net'[q] : x \in net[q] \/ (q = Other(p) /\ x = m)
    BY <1>3, OtherFacts DEF IInv, TypeOK
  <2>4. \A x \in unacked'[q] : x \in unacked[q] \/ (q = p /\ x = m)
    BY <1>3 DEF IInv, TypeOK, Insert
  <2> QED
    BY <1>3, <1>6, <2>1, <2>2, <2>3, <2>4, OtherFacts
<1>9. Consecutive'
  <2> SUFFICES ASSUME NEW q \in Peer, NEW i \in 1..Len(output[q])
               PROVE  /\ output[q][i].seq = i - 1
                      /\ Built(Other(q), submitted'[Other(q)], output[q][i])
    BY <1>3 DEF Consecutive, From
  <2>1. output[q][i] \in Packet
    BY DEF IInv, TypeOK
  <2> QED
    BY <1>5, <2>1, OtherFacts DEF IInv, Consecutive, From
<1>10. Counters' /\ Ahead'
  BY <1>3 DEF IInv, Counters, Ahead
<1> QED
  BY <1>7, <1>8, <1>9, <1>10

\* Steps that touch the network, the ACK queue or the application's position
\* only: retransmission, ACKs, old packets, loss, consumption.
LEMMA QuietStep ==
  ASSUME IInv, UNCHANGED <<sendVars, recvVars, output>>,
         \A q \in Peer : \A x \in net'[q] : From(Other(q), x)
  PROVE  (Numbering /\ Genuine /\ Consecutive /\ Counters /\ Ahead)'
BY DEF IInv, sendVars, recvVars, Numbering, Genuine, Consecutive, Counters,
       Ahead, From

\* An ACK, whoever sends it, is genuine.
LEMMA AckGenuine ==
  ASSUME IInv, NEW q \in Peer, NEW n PROVE From(q, AckPacket(n))
BY DEF IInv, TypeOK, From, Built, AckPacket

\* What is left on the network after a receive was there before.
LEMMA TakenOld ==
  ASSUME IInv, NEW p \in Peer, NEW m, NEW keep \in BOOLEAN
  PROVE  Taken(p, m, keep) \subseteq net[p]
BY DEF Taken

\* recv, Equal: the packet it takes in hand is the next genuine one.
LEMMA RecvEqualStep ==
  ASSUME IInv, NEW p \in Peer, NEW m \in net[p], NEW keep \in BOOLEAN,
         RecvEqual(p, m, keep)
  PROVE  (Numbering /\ Genuine /\ Consecutive /\ Counters /\ Ahead)'
<1>1. /\ pc[p] = "recv_from" /\ pc' = [pc EXCEPT ![p] = "output"]
      /\ m.seq = expected_sequence[p]
      /\ hold' = [hold EXCEPT ![p] = m]
      /\ net' = [net EXCEPT ![p] = Taken(p, m, keep)]
      /\ UNCHANGED <<next_seq, unacked, submitted, expected_sequence,
                     receiver_acknowledged, recv_buffer, output>>
  BY DEF RecvEqual, sendVars
<1>2. Numbering' /\ Consecutive'
  BY <1>1 DEF IInv, Numbering, Consecutive, From
<1>3. Genuine'
  BY <1>1, TakenOld, OtherFacts DEF IInv, TypeOK, Genuine, From
<1>4. Counters'
  BY <1>1 DEF IInv, TypeOK, Counters
<1>5. Ahead'
  BY <1>1 DEF IInv, TypeOK, Ahead
<1> QED
  BY <1>2, <1>3, <1>4, <1>5

\* recv, Greater: what enters recv_buffer is genuine and still ahead.
LEMMA RecvGreaterStep ==
  ASSUME IInv, NEW p \in Peer, NEW m \in net[p], NEW keep \in BOOLEAN,
         RecvGreater(p, m, keep)
  PROVE  (Numbering /\ Genuine /\ Consecutive /\ Counters /\ Ahead)'
<1> DEFINE ack == AckPacket(receiver_acknowledged[p])
<1>1. /\ pc[p] = "recv_from" /\ m.seq > expected_sequence[p]
      /\ recv_buffer' = [recv_buffer EXCEPT ![p] = Insert(recv_buffer[p], m)]
      /\ net' = [[net EXCEPT ![p] = Taken(p, m, keep)]
                   EXCEPT ![Other(p)] = net[Other(p)] \union {ack}]
      /\ UNCHANGED <<next_seq, unacked, submitted, expected_sequence,
                     receiver_acknowledged, pc, hold, output>>
  BY OtherFacts DEF RecvGreater, sendVars, IInv, TypeOK
<1>2. Numbering' /\ Consecutive' /\ Counters'
  BY <1>1 DEF IInv, Numbering, Consecutive, Counters, From
<1>3. From(p, ack)
  BY AckGenuine
<1>4. \A q \in Peer : \A x \in recv_buffer'[q] :
         x \in recv_buffer[q] \/ (q = p /\ x = m)
  BY <1>1 DEF IInv, TypeOK, Insert
<1>5. Genuine'
  <2>1. \A q \in Peer : \A x \in net'[q] :
           x \in net[q] \/ (q = Other(p) /\ x = ack)
    BY <1>1, TakenOld, OtherFacts DEF IInv, TypeOK
  <2>2. From(Other(p), m)
    BY DEF IInv, Genuine
  <2> QED
    BY <1>1, <1>3, <1>4, <2>1, <2>2, OtherFacts DEF IInv, Genuine, From
<1>6. Ahead'
  <2>1. \A x \in recv_buffer'[p] : x # m => x \in recv_buffer[p] /\ x.seq # m.seq
    BY <1>1 DEF IInv, TypeOK, Insert
  <2>2. m.seq >= expected_sequence[p] /\ m.seq # expected_sequence[p]
    <3>1. m.seq \in Nat /\ expected_sequence[p] \in Nat
      BY SeqAssumption DEF IInv, TypeOK, Packet, SeqNum
    <3> QED
      BY <1>1, <3>1
  <2>3. \A q \in Peer : q # p => recv_buffer'[q] = recv_buffer[q]
    BY <1>1 DEF IInv, TypeOK
  <2> QED
    BY <1>1, <1>4, <2>1, <2>2, <2>3 DEF IInv, Ahead
<1> QED
  BY <1>2, <1>5, <1>6

\* Handing over the held packet keeps the output consecutive when the held
\* packet is the next one.
LEMMA AppendStep ==
  ASSUME IInv, NEW p \in Peer, UNCHANGED submitted,
         hold[p].seq = Len(output[p]),
         output' = [output EXCEPT ![p] = Append(output[p], hold[p])]
  PROVE  /\ Consecutive'
         /\ Len(output'[p]) = Len(output[p]) + 1
         /\ \A q \in Peer : q # p => output'[q] = output[q]
<1>1. output[p] \in Seq(Packet) /\ hold[p] \in Packet
  BY DEF IInv, TypeOK
<1>2. /\ output'[p] = Append(output[p], hold[p])
      /\ \A q \in Peer : q # p => output'[q] = output[q]
  BY DEF IInv, TypeOK
<1>3. /\ Len(output'[p]) = Len(output[p]) + 1
      /\ \A i \in 1..Len(output[p]) : output'[p][i] = output[p][i]
      /\ output'[p][Len(output[p]) + 1] = hold[p]
  BY <1>1, <1>2
<1>4. \A i \in 1..Len(output'[p]) :
         i \in 1..Len(output[p]) \/ i = Len(output[p]) + 1
  BY <1>1, <1>3
<1>5. \A i \in 1..Len(output'[p]) :
         output'[p][i].seq = i - 1 /\ From(Other(p), output'[p][i])
  <2> SUFFICES ASSUME NEW i \in 1..Len(output'[p])
               PROVE  output'[p][i].seq = i - 1 /\ From(Other(p), output'[p][i])
    OBVIOUS
  <2>1. CASE i \in 1..Len(output[p])
    BY <1>3, <2>1 DEF IInv, Consecutive
  <2>2. CASE i = Len(output[p]) + 1
    <3>1. hold[p].seq = i - 1
      BY <1>1, <2>2
    <3> QED
      BY <1>3, <2>2, <3>1 DEF IInv, Genuine
  <2> QED
    BY <1>4, <2>1, <2>2
<1>6. Consecutive'
  BY <1>2, <1>5 DEF IInv, Consecutive, From
<1> QED
  BY <1>2, <1>3, <1>6

\* The hand-over of the expected packet: the output grows by the next one,
\* and the counters catch up with it.
LEMMA OutputStep ==
  ASSUME NoWrap, IInv, NEW p \in Peer, Output(p)
  PROVE  /\ (Numbering /\ Genuine /\ Consecutive /\ Counters /\ Ahead)'
         /\ receiver_acknowledged' =
              [receiver_acknowledged EXCEPT ![p] = expected_sequence[p]]
<1> DEFINE e == expected_sequence[p]
<1>1. /\ pc[p] = "output" /\ hold[p].seq = e /\ Len(output[p]) = e
      /\ e \in Nat /\ e \in SeqNum
  BY SeqAssumption DEF Output, IInv, Counters, TypeOK, SeqNum
<1>2. e < MaxSeq
  <2>1. /\ e <= submitted[Other(p)]
        /\ submitted[Other(p)] \in Nat
        /\ submitted[Other(p)] <= Len(Stream[Other(p)])
        /\ Len(Stream[Other(p)]) \in Nat
        /\ Len(Stream[Other(p)]) < MaxSeq
    BY <1>1, OtherFacts, StreamAssumption
    DEF IInv, Genuine, From, Built, Numbering, NoWrap, TypeOK
  <2> QED
    BY <1>1, <2>1, SeqAssumption
<1>3. /\ output' = [output EXCEPT ![p] = Append(output[p], hold[p])]
      /\ expected_sequence' = [expected_sequence EXCEPT ![p] = e + 1]
      /\ receiver_acknowledged' = [receiver_acknowledged EXCEPT ![p] = e]
      /\ pc' = [pc EXCEPT ![p] = "drain"]
      /\ UNCHANGED <<next_seq, unacked, submitted, recv_buffer, hold, net>>
  BY <1>1, <1>2, IncPlain DEF Output, sendVars
<1>4. Numbering' /\ Genuine'
  BY <1>3 DEF IInv, Numbering, Genuine, From
<1>5. /\ Consecutive' /\ Len(output'[p]) = e + 1
      /\ \A q \in Peer : q # p => output'[q] = output[q]
  BY <1>1, <1>3, AppendStep
<1>6. Counters'
  BY <1>1, <1>3, <1>5 DEF IInv, TypeOK, Counters
<1>7. Ahead'
  <2>1. \A x \in recv_buffer[p] : x.seq \in Nat
    BY SeqAssumption DEF IInv, TypeOK, Packet, SeqNum
  <2>2. \A x \in recv_buffer[p] : x.seq >= e /\ x.seq # e
    BY <1>1 DEF IInv, Ahead
  <2>3. \A x \in recv_buffer[p] : x.seq >= e + 1
    BY <1>1, <2>1, <2>2
  <2> QED
    BY <1>3, <2>3 DEF IInv, TypeOK, Ahead
<1> QED
  BY <1>3, <1>4, <1>5, <1>6, <1>7

\* The drain loop takes the next packet from recv_buffer: the counters run
\* one ahead of the output until it is handed over.
LEMMA DrainHitStep ==
  ASSUME NoWrap, IInv, NEW p \in Peer, DrainHit(p)
  PROVE  /\ (Numbering /\ Genuine /\ Consecutive /\ Counters /\ Ahead)'
         /\ receiver_acknowledged' =
              [receiver_acknowledged EXCEPT ![p] = expected_sequence[p]]
<1> DEFINE e == expected_sequence[p]
<1>1. /\ pc[p] = "drain" /\ hold[p].seq = e - 1 /\ Len(output[p]) = e
      /\ e \in SeqNum /\ e \in Nat /\ hold[p].seq \in SeqNum
      /\ hold[p].seq \in Nat /\ MaxSeq \in Nat
  BY SeqAssumption DEF DrainHit, IInv, Counters, TypeOK, SeqNum, Packet
<1>2. e > 0 /\ hold[p].seq < MaxSeq /\ e <= MaxSeq
  BY <1>1 DEF SeqNum
<1>3. Inc(hold[p].seq) = e
  BY <1>1, <1>2, IncPlain
<1>4. PICK m \in recv_buffer[p] :
         /\ m.seq = e
         /\ recv_buffer' = [recv_buffer EXCEPT ![p] = recv_buffer[p] \ {m}]
         /\ hold' = [hold EXCEPT ![p] = m]
  BY <1>3 DEF DrainHit
<1>5. e < MaxSeq
  <2>1. /\ e <= submitted[Other(p)]
        /\ submitted[Other(p)] \in Nat
        /\ submitted[Other(p)] <= Len(Stream[Other(p)])
        /\ Len(Stream[Other(p)]) \in Nat
        /\ Len(Stream[Other(p)]) < MaxSeq
    BY <1>4, OtherFacts, StreamAssumption
    DEF IInv, Genuine, From, Built, Numbering, NoWrap, TypeOK
  <2> QED
    BY <1>1, <2>1
<1>6. receiver_acknowledged[p] = e - 1 /\ e - 1 \in SeqNum
  BY <1>1, <1>2 DEF IInv, Counters
<1>7. Inc(e) = e + 1 /\ Inc(e - 1) = e
  BY <1>1, <1>2, <1>5, <1>6, IncPlain
<1>8. /\ expected_sequence' = [expected_sequence EXCEPT ![p] = e + 1]
      /\ receiver_acknowledged' = [receiver_acknowledged EXCEPT ![p] = e]
      /\ pc' = [pc EXCEPT ![p] = "output_buffered"]
      /\ UNCHANGED <<next_seq, unacked, submitted, output, net>>
  BY <1>6, <1>7 DEF DrainHit, sendVars
<1>9. Numbering' /\ Consecutive'
  BY <1>8 DEF IInv, Numbering, Consecutive, From
<1>10. Genuine'
  BY <1>4, <1>8 DEF IInv, TypeOK, Genuine, From
<1>11. Counters'
  BY <1>1, <1>4, <1>8 DEF IInv, TypeOK, Counters
<1>12. Ahead'
  <2>1. \A x \in recv_buffer[p] \ {m} : x.seq >= e + 1
    <3>1. \A x \in recv_buffer[p] : x.seq \in Nat
      BY SeqAssumption DEF IInv, TypeOK, Packet, SeqNum
    <3>2. \A x \in recv_buffer[p] \ {m} : x.seq >= e /\ x.seq # e
      BY <1>4 DEF IInv, Ahead
    <3> QED
      BY <1>1, <3>1, <3>2
  <2> QED
    BY <1>4, <1>8, <2>1 DEF IInv, TypeOK, Ahead
<1> QED
  BY <1>8, <1>9, <1>10, <1>11, <1>12

\* The drain loop ends: everything left in recv_buffer is ahead.
LEMMA DrainMissStep ==
  ASSUME IInv, NEW p \in Peer, DrainMiss(p)
  PROVE  (Numbering /\ Genuine /\ Consecutive /\ Counters /\ Ahead)'
<1> DEFINE e == expected_sequence[p]
<1>1. /\ pc[p] = "drain" /\ hold[p].seq = e - 1
      /\ e \in SeqNum /\ e \in Nat /\ hold[p].seq \in SeqNum
      /\ hold[p].seq \in Nat /\ MaxSeq \in Nat
  BY SeqAssumption DEF DrainMiss, IInv, Counters, TypeOK, SeqNum, Packet
<1>2. Inc(hold[p].seq) = e
  <2>1. hold[p].seq < MaxSeq
    BY <1>1 DEF SeqNum
  <2> QED
    BY <1>1, <2>1, IncPlain
<1>3. /\ pc' = [pc EXCEPT ![p] = "recv_from"]
      /\ hold' = [hold EXCEPT ![p] = AckPacket(0)]
      /\ \A x \in recv_buffer[p] : x.seq # e
      /\ UNCHANGED <<next_seq, unacked, submitted, expected_sequence,
                     receiver_acknowledged, recv_buffer, output, net>>
  BY <1>2 DEF DrainMiss, sendVars
<1>4. Numbering' /\ Consecutive'
  BY <1>3 DEF IInv, Numbering, Consecutive, From
<1>5. Genuine'
  BY <1>3, AckGenuine, OtherFacts DEF IInv, TypeOK, Genuine, From
<1>6. Counters'
  BY <1>1, <1>3 DEF IInv, TypeOK, Counters
<1>7. Ahead'
  BY <1>3 DEF IInv, TypeOK, Ahead
<1> QED
  BY <1>4, <1>5, <1>6, <1>7

\* The hand-over of a buffered packet: the output catches up.
LEMMA OutputBufferedStep ==
  ASSUME IInv, NEW p \in Peer, OutputBuffered(p)
  PROVE  (Numbering /\ Genuine /\ Consecutive /\ Counters /\ Ahead)'
<1> DEFINE e == expected_sequence[p]
<1>1. /\ pc[p] = "output_buffered" /\ hold[p].seq = e - 1
      /\ Len(output[p]) = e - 1 /\ e \in Nat
  BY SeqAssumption DEF OutputBuffered, IInv, Counters, TypeOK, SeqNum
<1>2. /\ output' = [output EXCEPT ![p] = Append(output[p], hold[p])]
      /\ pc' = [pc EXCEPT ![p] = "drain"]
      /\ UNCHANGED <<next_seq, unacked, submitted, expected_sequence,
                     receiver_acknowledged, recv_buffer, hold, net>>
  BY DEF OutputBuffered, sendVars
<1>3. Numbering' /\ Genuine'
  BY <1>2 DEF IInv, Numbering, Genuine, From
<1>4. /\ Consecutive' /\ Len(output'[p]) = e
      /\ \A q \in Peer : q # p => output'[q] = output[q]
  <2>1. /\ Consecutive' /\ Len(output'[p]) = Len(output[p]) + 1
        /\ \A q \in Peer : q # p => output'[q] = output[q]
    <3>1. hold[p].seq = Len(output[p])
      BY <1>1
    <3> QED
      BY <1>2, <3>1, AppendStep
  <2>2. Len(output[p]) + 1 = e
    BY <1>1
  <2> QED
    BY <2>1, <2>2
<1>5. Counters'
  BY <1>1, <1>2, <1>4 DEF IInv, TypeOK, Counters
<1>6. Ahead'
  BY <1>1, <1>2 DEF IInv, TypeOK, Ahead
<1> QED
  BY <1>3, <1>4, <1>5, <1>6

\* Every step keeps the invariant; one case per action.
LEMMA IInvStep ==
  ASSUME NoWrap, IInv, [Next]_vars
  PROVE  IInv'
<1> DEFINE Rest == Numbering /\ Genuine /\ Consecutive /\ Counters /\ Ahead
<1>1. TypeOK'
  BY TypeStep DEF IInv
<1>2. ASSUME NEW p \in Peer, Send(p) PROVE Rest'
  BY <1>2, SendStep
<1>3. ASSUME NEW p \in Peer, CheckRetransmission(p) PROVE Rest'
  <2>1. \A q \in Peer : \A x \in net'[q] : From(Other(q), x)
    BY <1>3, OtherFacts DEF CheckRetransmission, IInv, TypeOK, Genuine
  <2> QED
    BY <1>3, <2>1, QuietStep DEF CheckRetransmission
<1>4. ASSUME NEW p \in Peer, NEW n \in ack_queue[p], PeriodicAck(p, n)
      PROVE  Rest'
  <2>1. \A q \in Peer : \A x \in net'[q] :
           x \in net[q] \/ (q = Other(p) /\ x = AckPacket(n))
    BY <1>4, OtherFacts DEF PeriodicAck, IInv, TypeOK
  <2>2. \A q \in Peer : \A x \in net'[q] : From(Other(q), x)
    BY <2>1, AckGenuine, OtherFacts DEF IInv, Genuine
  <2> QED
    BY <1>4, <2>2, QuietStep DEF PeriodicAck
<1>5. ASSUME NEW p \in Peer, NEW m \in net[p], NEW keep \in BOOLEAN,
             Recv(p, m, keep)
      PROVE  Rest'
  <2>1. CASE RecvEqual(p, m, keep)
    BY <2>1, RecvEqualStep
  <2>2. CASE RecvGreater(p, m, keep)
    BY <2>2, RecvGreaterStep
  <2>3. CASE RecvLess(p, m, keep)
    <3>1. \A q \in Peer : \A x \in net'[q] : From(Other(q), x)
      BY <2>3, TakenOld DEF RecvLess, IInv, TypeOK, Genuine
    <3> QED
      BY <2>3, <3>1, QuietStep DEF RecvLess
  <2> QED
    BY <1>5, <2>1, <2>2, <2>3 DEF Recv
<1>6. ASSUME NEW p \in Peer, Output(p) PROVE Rest'
  BY <1>6, OutputStep
<1>7. ASSUME NEW p \in Peer, DrainHit(p) PROVE Rest'
  BY <1>7, DrainHitStep
<1>8. ASSUME NEW p \in Peer, DrainMiss(p) PROVE Rest'
  BY <1>8, DrainMissStep
<1>9. ASSUME NEW p \in Peer, OutputBuffered(p) PROVE Rest'
  BY <1>9, OutputBufferedStep
<1>10. ASSUME NEW p \in Peer, Consume(p) PROVE Rest'
  <2>1. \A q \in Peer : \A x \in net'[q] : From(Other(q), x)
    BY <1>10 DEF Consume, IInv, Genuine
  <2> QED
    BY <1>10, <2>1, QuietStep DEF Consume
<1>11. ASSUME NEW p \in Peer, Lose(p) PROVE Rest'
  <2>1. \A q \in Peer : \A x \in net'[q] : From(Other(q), x)
    BY <1>11 DEF Lose, IInv, TypeOK, Genuine
  <2> QED
    BY <1>11, <2>1, QuietStep DEF Lose
<1>12. CASE UNCHANGED vars
  <2>1. \A q \in Peer : \A x \in net'[q] : From(Other(q), x)
    BY <1>12 DEF vars, IInv, Genuine
  <2>2. UNCHANGED <<sendVars, recvVars, output>>
    BY <1>12 DEF vars, sendVars, recvVars
  <2> QED
    BY <1>1, <2>1, <2>2, QuietStep DEF IInv
<1>13. CASE Next
  BY <1>1, <1>2, <1>3, <1>4, <1>5, <1>6, <1>7, <1>8, <1>9, <1>10, <1>11, <1>13
  DEF Next, IInv
<1> QED
  BY <1>12, <1>13

\* What the invariant says about the application and the buffer.
LEMMA IInvImplies ==
  ASSUME IInv PROVE InOrder /\ BufferIsAhead
<1>1. InOrder
  <2> SUFFICES ASSUME NEW p \in Peer, NEW i \in 1..Len(output[p])
               PROVE  IF i = 1
                      THEN output[p][i].payload = None
                      ELSE /\ i - 1 <= submitted[Other(p)]
                           /\ output[p][i].payload = Stream[Other(p)][i - 1]
    BY DEF InOrder
  <2>1. output[p][i].seq = i - 1 /\ Built(Other(p), submitted[Other(p)], output[p][i])
    BY DEF IInv, Consecutive, From
  <2>2. i \in Nat /\ i >= 1
    BY DEF IInv, TypeOK
  <2>3. CASE i = 1
    BY <2>1, <2>3 DEF Built
  <2>4. CASE i # 1
    <3>1. i - 1 > 0
      BY <2>2, <2>4
    <3> QED
      BY <2>1, <2>4, <3>1 DEF Built
  <2> QED
    BY <2>3, <2>4
<1>2. BufferIsAhead
  <2> SUFFICES ASSUME NEW p \in Peer, pc[p] = "recv_from",
                      NEW m \in recv_buffer[p]
               PROVE  m.seq > expected_sequence[p]
    BY DEF BufferIsAhead
  <2>1. m.seq \in Nat /\ expected_sequence[p] \in Nat
    BY SeqAssumption DEF IInv, TypeOK, Packet, SeqNum
  <2>2. m.seq >= expected_sequence[p] /\ m.seq # expected_sequence[p]
    BY DEF IInv, Ahead
  <2> QED
    BY <2>1, <2>2
<1> QED
  BY <1>1, <1>2

\* As long as neither end sends 2^32 - 1 packets, the invariant holds.
THEOREM Invariance == ASSUME NoWrap PROVE Spec => []IInv
<1>1. IInv /\ [Next]_vars => IInv'
  BY IInvStep
<1> QED
  BY <1>1, IInvInit, PTL DEF Spec

(***************************************************************************)
(* The safety promise of the layer: whatever the network loses, duplicates *)
(* or reorders and however the four tasks interleave, the application gets *)
(* each payload once and in order.                                         *)
(***************************************************************************)
THEOREM DeliversInOrder == ASSUME NoWrap PROVE Spec => []InOrder
BY Invariance, IInvImplies, PTL

\* recv never goes back to the socket with the expected packet, or one it
\* has delivered, still in recv_buffer: the drain loop leaves no gap.
THEOREM BufferAhead == ASSUME NoWrap PROVE Spec => []BufferIsAhead
BY Invariance, IInvImplies, PTL

(***************************************************************************)
(* Acknowledgements.  A header's number was receiver_acknowledged when the *)
(* packet was built, and that only grows.                                  *)
(***************************************************************************)
Claims(p) == unacked[p] \union {x \in net[Other(p)] : x.seq > 0}

ClaimsBelow == \A p \in Peer : \A m \in Claims(p) : m.ack <= receiver_acknowledged[p]

\* receiver_acknowledged never goes back.
LEMMA AckGrows ==
  ASSUME NoWrap, IInv, [Next]_vars
  PROVE  \A q \in Peer : /\ receiver_acknowledged[q] \in Nat
                         /\ receiver_acknowledged'[q] \in Nat
                         /\ receiver_acknowledged[q] <= receiver_acknowledged'[q]
<1>1. \A q \in Peer : /\ receiver_acknowledged[q] \in Nat
                      /\ expected_sequence[q] \in Nat
                      /\ receiver_acknowledged[q] <= expected_sequence[q]
  <2>1. \A q \in Peer : receiver_acknowledged[q] \in Nat /\ expected_sequence[q] \in Nat
    BY SeqAssumption DEF IInv, TypeOK, SeqNum
  <2> QED
    BY <2>1 DEF IInv, Counters
<1>2. receiver_acknowledged \in [Peer -> SeqNum]
  BY DEF IInv, TypeOK
<1>3. ASSUME NEW p \in Peer,
             receiver_acknowledged' =
               [receiver_acknowledged EXCEPT ![p] = expected_sequence[p]],
             NEW q \in Peer
      PROVE  /\ receiver_acknowledged'[q] \in Nat
             /\ receiver_acknowledged[q] <= receiver_acknowledged'[q]
  <2>1. receiver_acknowledged'[q] =
          IF q = p THEN expected_sequence[p] ELSE receiver_acknowledged[q]
    BY <1>2, <1>3
  <2> QED
    BY <1>1, <2>1
<1>4. ASSUME receiver_acknowledged' = receiver_acknowledged, NEW q \in Peer
      PROVE  /\ receiver_acknowledged'[q] \in Nat
             /\ receiver_acknowledged[q] <= receiver_acknowledged'[q]
  BY <1>1, <1>4
<1>5. \/ \E p \in Peer : Output(p) \/ DrainHit(p)
      \/ receiver_acknowledged' = receiver_acknowledged
  <2>1. CASE UNCHANGED vars
    BY <2>1 DEF vars
  <2>2. CASE Next
    BY <2>2 DEF Next, Send, CheckRetransmission, PeriodicAck, Recv, RecvEqual,
       RecvGreater, RecvLess, DrainMiss, OutputBuffered, Consume, Lose, recvVars
  <2> QED
    BY <2>1, <2>2
<1> QED
  BY <1>1, <1>3, <1>4, <1>5, OutputStep, DrainHitStep

\* A step whose new claims are the counter's.
LEMMA ClaimsKept ==
  ASSUME NoWrap, IInv, [Next]_vars, ClaimsBelow,
         \A q \in Peer : \A x \in unacked'[q] :
            x \in unacked[q] \/ x.ack = receiver_acknowledged[q],
         \A q \in Peer : \A x \in net'[Other(q)] :
            \/ x \in net[Other(q)] \/ x \in unacked[q] \/ x.seq = 0
            \/ x.ack = receiver_acknowledged[q]
  PROVE  ClaimsBelow'
<1> SUFFICES ASSUME NEW q \in Peer, NEW x \in Claims(q)'
             PROVE  x.ack <= receiver_acknowledged'[q]
  BY DEF ClaimsBelow
<1>1. x \in unacked'[q] \/ (x \in net'[Other(q)] /\ x.seq > 0)
  BY DEF Claims
<1>2. TypeOK'
  BY TypeStep DEF IInv
<1>3. x \in Packet
  BY <1>1, <1>2, OtherFacts DEF TypeOK
<1>4. x.ack \in Nat /\ x.seq \in Nat
  BY <1>3, SeqAssumption DEF Packet, SeqNum
<1>5. x \in Claims(q) \/ x.ack = receiver_acknowledged[q]
  BY <1>1, <1>4 DEF Claims
<1>6. x.ack <= receiver_acknowledged[q]
  BY <1>4, <1>5, AckGrows DEF ClaimsBelow
<1> QED
  BY <1>4, <1>6, AckGrows

\* Every step keeps the claims below the counter.
LEMMA ClaimsStep ==
  ASSUME NoWrap, IInv, [Next]_vars, ClaimsBelow
  PROVE  ClaimsBelow'
<1> DEFINE Fair == /\ \A q \in Peer : \A x \in unacked'[q] :
                         x \in unacked[q] \/ x.ack = receiver_acknowledged[q]
                   /\ \A q \in Peer : \A x \in net'[Other(q)] :
                         \/ x \in net[Other(q)] \/ x \in unacked[q] \/ x.seq = 0
                         \/ x.ack = receiver_acknowledged[q]
<1> USE OtherFacts DEF IInv, TypeOK
<1>1. ASSUME NEW p \in Peer, Send(p) PROVE Fair
  <2>1. PICK m : /\ m.ack = receiver_acknowledged[p]
                 /\ unacked' = [unacked EXCEPT ![p] = Insert(unacked[p], m)]
                 /\ net' = [net EXCEPT ![Other(p)] = net[Other(p)] \union {m}]
    BY <1>1 DEF Send
  <2> QED
    BY <2>1 DEF Insert
<1>2. ASSUME NEW p \in Peer, CheckRetransmission(p) PROVE Fair
  BY <1>2 DEF CheckRetransmission, sendVars
<1>3. ASSUME NEW p \in Peer, NEW n \in ack_queue[p], PeriodicAck(p, n) PROVE Fair
  BY <1>3 DEF PeriodicAck, AckPacket, sendVars
<1>4. ASSUME NEW p \in Peer, NEW m \in net[p], NEW keep \in BOOLEAN, Recv(p, m, keep)
      PROVE  Fair
  <2>1. unacked' = unacked
    BY <1>4 DEF Recv, RecvEqual, RecvGreater, RecvLess, sendVars
  <2>2. \A q \in Peer : \A x \in net'[q] :
           x \in net[q] \/ x = AckPacket(receiver_acknowledged[p])
    <3>1. Taken(p, m, keep) \subseteq net[p]
      BY TakenOld
    <3>2. CASE RecvEqual(p, m, keep)
      BY <3>1, <3>2 DEF RecvEqual
    <3>3. CASE RecvGreater(p, m, keep)
      BY <3>1, <3>3 DEF RecvGreater
    <3>4. CASE RecvLess(p, m, keep)
      BY <3>1, <3>4 DEF RecvLess
    <3> QED
      BY <1>4, <3>2, <3>3, <3>4 DEF Recv
  <2> QED
    BY <2>1, <2>2 DEF AckPacket
<1>5. ASSUME NEW p \in Peer, Output(p) \/ DrainHit(p) \/ DrainMiss(p) \/ OutputBuffered(p)
      PROVE  Fair
  BY <1>5 DEF Output, DrainHit, DrainMiss, OutputBuffered, sendVars
<1>6. ASSUME NEW p \in Peer, Consume(p) \/ Lose(p) PROVE Fair
  BY <1>6 DEF Consume, Lose, sendVars
<1>7. ASSUME UNCHANGED vars PROVE Fair
  <2>1. unacked' = unacked /\ net' = net
    BY <1>7 DEF vars
  <2> QED
    BY <2>1
<1>8. Fair
  <2> HIDE DEF Fair, IInv, TypeOK
  <2>1. ASSUME Next PROVE Fair
    BY <1>1, <1>2, <1>3, <1>4, <1>5, <1>6, <2>1 DEF Next
  <2> QED
    BY <1>7, <2>1
<1> QED
  BY <1>8, ClaimsKept

\* What is below the counter is delivered, or in recv's hand.
LEMMA ClaimsDelivered ==
  ASSUME IInv, ClaimsBelow PROVE OwnAckIsHonest
<1> SUFFICES ASSUME NEW p \in Peer, NEW ack \in OwnAcks(p), NEW n \in 1..ack
             PROVE  \/ \E i \in 1..Len(output[p]) : output[p][i].seq = n
                    \/ pc[p] = "output_buffered" /\ hold[p].seq = n
  BY DEF OwnAckIsHonest
<1> DEFINE e == expected_sequence[p]
<1>1. e \in Nat /\ receiver_acknowledged[p] \in Nat
  BY SeqAssumption DEF IInv, TypeOK, SeqNum
<1>2. ack \in Nat /\ ack <= receiver_acknowledged[p]
  <2>1. CASE ack = receiver_acknowledged[p]
    BY <1>1, <2>1
  <2>2. CASE \E m \in Claims(p) : ack = m.ack
    <3>1. PICK m \in Claims(p) : ack = m.ack
      BY <2>2
    <3>2. m \in Packet
      BY OtherFacts DEF Claims, IInv, TypeOK
    <3>3. m.ack \in Nat
      BY <3>2, SeqAssumption DEF Packet, SeqNum
    <3> QED
      BY <3>1, <3>3 DEF ClaimsBelow
  <2> QED
    BY <2>1, <2>2 DEF OwnAcks, Claims
<1>3. n \in Nat /\ n >= 1 /\ n <= receiver_acknowledged[p]
  BY <1>1, <1>2
<1>4. e > 0 /\ receiver_acknowledged[p] = e - 1
  BY <1>1, <1>3 DEF IInv, Counters
<1>5. CASE pc[p] = "output_buffered" /\ n = e - 1
  BY <1>5 DEF IInv, Counters
<1>6. CASE ~(pc[p] = "output_buffered" /\ n = e - 1)
  <2>1. n + 1 \in 1..Len(output[p])
    <3>1. Len(output[p]) = IF pc[p] = "output_buffered" THEN e - 1 ELSE e
      BY DEF IInv, Counters
    <3> QED
      BY <1>1, <1>3, <1>4, <1>6, <3>1
  <2>2. output[p][n + 1].seq = (n + 1) - 1
    BY <2>1 DEF IInv, Consecutive
  <2> QED
    BY <1>3, <2>1, <2>2
<1> QED
  BY <1>5, <1>6

\* No number this end acknowledges by itself, in a header built now or resent
\* long after, claims more than what was delivered and the packet in hand.
THEOREM HonestAck == ASSUME NoWrap PROVE Spec => []OwnAckIsHonest
<1>1. Init => ClaimsBelow
  BY OtherFacts DEF Init, ClaimsBelow, Claims
<1>2. IInv /\ ClaimsBelow /\ [Next]_vars => ClaimsBelow'
  BY ClaimsStep
<1>3. IInv /\ ClaimsBelow => OwnAckIsHonest
  BY ClaimsDelivered
<1> QED
  BY <1>1, <1>2, <1>3, Invariance, PTL DEF Spec

(***************************************************************************)
(* Refinement.  Send is Submit; handing a packet of number n > 0 over is   *)
(* Handover; everything else, the ACK at position 0 included, stutters.    *)
(***************************************************************************)
SentBar == [p \in Peer |-> SubSeq(Stream[p], 1, submitted[p])]
RcvdBar == [p \in Peer |-> Payloads(output[p])]

\* Taking one more payload appends it.
LEMMA SubSeqGrows ==
  ASSUME NEW S, NEW s \in Seq(S), NEW n \in Nat, n < Len(s)
  PROVE  SubSeq(s, 1, n + 1) = Append(SubSeq(s, 1, n), s[n + 1])
OBVIOUS

\* One more packet on output_rx is one more payload, except the first.
LEMMA PayloadsGrow ==
  ASSUME NEW o \in Seq(Packet), NEW x \in Packet
  PROVE  /\ o = <<>> => Payloads(Append(o, x)) = Payloads(o)
         /\ o # <<>> => /\ Payloads(Append(o, x)) = Append(Payloads(o), x.payload)
                        /\ Len(Payloads(o)) = Len(o) - 1
<1>1. Append(o, x) # <<>> /\ Len(Append(o, x)) - 1 = Len(o) /\ Len(o) \in Nat
  OBVIOUS
<1>2. Payloads(Append(o, x)) = [i \in 1..Len(o) |-> Append(o, x)[i + 1].payload]
  BY <1>1 DEF Payloads
<1>3. ASSUME o = <<>> PROVE Payloads(Append(o, x)) = Payloads(o)
  <2>1. Payloads(Append(o, x)) = [i \in 1..0 |-> Append(o, x)[i + 1].payload]
    BY <1>2, <1>3
  <2>2. Payloads(o) = <<>>
    BY <1>3 DEF Payloads
  <2> QED
    BY <2>1, <2>2
<1>4. ASSUME o # <<>>
      PROVE  /\ Payloads(Append(o, x)) = Append(Payloads(o), x.payload)
             /\ Len(Payloads(o)) = Len(o) - 1
  <2> DEFINE pay(i) == IF i = Len(o) THEN x.payload ELSE o[i + 1].payload
  <2>1. Len(o) > 0
    BY <1>1, <1>4
  <2>2. Payloads(o) = [i \in 1..(Len(o) - 1) |-> o[i + 1].payload]
    BY <1>4 DEF Payloads
  <2>3. Len(Payloads(o)) = Len(o) - 1
    BY <1>1, <2>1, <2>2
  <2>4. Append(Payloads(o), x.payload) = [i \in 1..Len(o) |-> pay(i)]
    BY <1>1, <2>1, <2>2, <2>3
  <2>5. \A i \in 1..Len(o) : Append(o, x)[i + 1].payload = pay(i)
    OBVIOUS
  <2> QED
    BY <1>2, <2>3, <2>4, <2>5
<1> QED
  BY <1>3, <1>4

\* Handing the held packet over is Handover, or a stutter at position 0.
LEMMA HandoverStep ==
  ASSUME IInv, NEW p \in Peer, UNCHANGED submitted,
         hold[p].seq = Len(output[p]),
         output' = [output EXCEPT ![p] = Append(output[p], hold[p])]
  PROVE  Chan!Handover(p) \/ UNCHANGED Chan!chanVars
<1> DEFINE q == Other(p)
           o == output[p]
           n == hold[p].seq
<1>1. o \in Seq(Packet) /\ hold[p] \in Packet /\ q \in Peer /\ n \in Nat
  BY OtherFacts DEF IInv, TypeOK
<1>2. SentBar' = SentBar
  BY DEF SentBar
<1>3. RcvdBar' = [RcvdBar EXCEPT ![p] = Payloads(Append(o, hold[p]))]
  BY DEF RcvdBar, IInv, TypeOK
<1>4. CASE o = <<>>
  <2>1. Payloads(Append(o, hold[p])) = Payloads(o)
    BY <1>1, <1>4, PayloadsGrow
  <2>2. RcvdBar' = RcvdBar
    BY <1>3, <2>1 DEF RcvdBar
  <2> QED
    BY <1>2, <2>2 DEF Chan!chanVars, SentBar, RcvdBar
<1>5. CASE o # <<>>
  <2>1. n > 0
    BY <1>1, <1>5
  <2>2. /\ RcvdBar[p] = Payloads(o) /\ Len(RcvdBar[p]) = n - 1
        /\ Payloads(Append(o, hold[p])) = Append(RcvdBar[p], hold[p].payload)
    BY <1>1, <1>5, PayloadsGrow DEF RcvdBar
  <2>3. /\ submitted[q] \in Nat /\ n <= submitted[q]
        /\ submitted[q] <= Len(Stream[q]) /\ Stream[q] \in Seq(Payload)
        /\ hold[p].payload = Stream[q][n]
    BY <1>1, <2>1, StreamAssumption
    DEF IInv, TypeOK, Genuine, From, Built, Numbering
  <2>4. SentBar[q] = SubSeq(Stream[q], 1, submitted[q])
    BY <1>1 DEF SentBar
  <2>5. Len(SentBar[q]) = submitted[q] /\ SentBar[q][n] = Stream[q][n]
    BY <1>1, <2>1, <2>3, <2>4
  <2>6. Len(RcvdBar[p]) < Len(SentBar[q]) /\ Len(RcvdBar[p]) + 1 = n
    BY <1>1, <2>2, <2>3, <2>5
  <2>7. RcvdBar' = [RcvdBar EXCEPT
                      ![p] = Append(RcvdBar[p], SentBar[q][Len(RcvdBar[p]) + 1])]
    BY <1>3, <2>2, <2>3, <2>5, <2>6
  <2> QED
    BY <1>2, <2>6, <2>7
    DEF Chan!Handover, Chan!Other, Other, SentBar, RcvdBar
<1> QED
  BY <1>4, <1>5

\* Every step of the layer is a step of the channel or a stutter.
LEMMA ChannelStep ==
  ASSUME NoWrap, IInv, [Next]_vars
  PROVE  [Chan!ChanNext]_(Chan!chanVars)
<1>1. ASSUME UNCHANGED <<submitted, output>> PROVE UNCHANGED Chan!chanVars
  BY <1>1 DEF Chan!chanVars
<1>2. ASSUME NEW p \in Peer, Send(p) PROVE Chan!Submit(p)
  <2>1. /\ submitted[p] \in Nat /\ submitted[p] < Len(Stream[p])
        /\ Stream[p] \in Seq(Payload)
        /\ submitted' = [submitted EXCEPT ![p] = submitted[p] + 1]
        /\ output' = output
    BY <1>2, StreamAssumption DEF Send, IInv, TypeOK
  <2>2. /\ Stream[p][submitted[p] + 1] \in Payload
        /\ SubSeq(Stream[p], 1, submitted[p] + 1) =
             Append(SubSeq(Stream[p], 1, submitted[p]), Stream[p][submitted[p] + 1])
    BY <2>1, NthElement, SubSeqGrows
  <2>3. SentBar' = [SentBar EXCEPT
                      ![p] = Append(SentBar[p], Stream[p][submitted[p] + 1])]
    BY <2>1, <2>2 DEF SentBar, IInv, TypeOK
  <2>4. RcvdBar' = RcvdBar
    BY <2>1 DEF RcvdBar
  <2> QED
    BY <2>2, <2>3, <2>4 DEF Chan!Submit, SentBar, RcvdBar
<1>3. ASSUME NEW p \in Peer, Output(p)
      PROVE  Chan!Handover(p) \/ UNCHANGED Chan!chanVars
  <2>1. /\ hold[p].seq = Len(output[p]) /\ UNCHANGED submitted
        /\ output' = [output EXCEPT ![p] = Append(output[p], hold[p])]
    BY <1>3 DEF Output, sendVars, IInv, Counters
  <2> QED
    BY <2>1, HandoverStep
<1>4. ASSUME NEW p \in Peer, OutputBuffered(p)
      PROVE  Chan!Handover(p) \/ UNCHANGED Chan!chanVars
  <2>1. /\ hold[p].seq = Len(output[p]) /\ UNCHANGED submitted
        /\ output' = [output EXCEPT ![p] = Append(output[p], hold[p])]
    BY <1>4 DEF OutputBuffered, sendVars, IInv, Counters
  <2> QED
    BY <2>1, HandoverStep
<1>5. ASSUME NEW p \in Peer,
             \/ CheckRetransmission(p)
             \/ \E n \in ack_queue[p] : PeriodicAck(p, n)
             \/ \E m \in net[p], keep \in BOOLEAN : Recv(p, m, keep)
             \/ DrainHit(p) \/ DrainMiss(p) \/ Consume(p) \/ Lose(p)
      PROVE  UNCHANGED <<submitted, output>>
  BY <1>5 DEF CheckRetransmission, PeriodicAck, Recv, RecvEqual, RecvGreater,
              RecvLess, DrainHit, DrainMiss, Consume, Lose, sendVars
<1>6. UNCHANGED vars => UNCHANGED <<submitted, output>>
  BY DEF vars
<1> QED
  BY <1>1, <1>2, <1>3, <1>4, <1>5, <1>6 DEF Next, Chan!ChanNext

(***************************************************************************)
(* The layer implements a lossless FIFO channel in each direction: the     *)
(* payloads the application takes from output_rx are those the other end   *)
(* submitted, each handed over once, in order, after it was submitted.     *)
(***************************************************************************)
THEOREM Refinement == ASSUME NoWrap PROVE Spec => ImplementsChannel
<1>1. Init => Chan!ChanInit
  <2> SUFFICES ASSUME Init PROVE Chan!ChanInit
    OBVIOUS
  <2>1. \A p \in Peer : SubSeq(Stream[p], 1, submitted[p]) = <<>>
    <3> SUFFICES ASSUME NEW p \in Peer
                 PROVE  SubSeq(Stream[p], 1, 0) = <<>>
      BY DEF Init
    <3>1. Stream[p] \in Seq(Payload)
      BY StreamAssumption
    <3> QED
      BY <3>1
  <2>2. \A p \in Peer : Payloads(output[p]) = <<>>
    BY DEF Init, Payloads
  <2> QED
    BY <2>1, <2>2 DEF Chan!ChanInit
<1>2. IInv /\ [Next]_vars => [Chan!ChanNext]_(Chan!chanVars)
  BY ChannelStep
<1> QED
  BY <1>1, <1>2, Invariance, PTL DEF Spec, ImplementsChannel, Chan!ChanSpec

=============================================================================
