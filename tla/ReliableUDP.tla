---------------------------- MODULE ReliableUDP ----------------------------
(***************************************************************************)
(* common/src/singleconnection.rs: the reliable, ordered layer over UDP    *)
(* that both ends of a connection run.  Each end has four concurrent       *)
(* tasks: recv (the receiver loop), send (new data and retransmission),    *)
(* periodic_acks, and the application that reads output_rx.  They share    *)
(* SharedState and two channels.                                           *)
(*                                                                         *)
(* A task is modelled as the steps between its .await points on a channel; *)
(* the shared counters are atomics, and every other task may run between   *)
(* two steps.  The network may lose, duplicate and reorder datagrams.      *)
(*                                                                         *)
(* Data sequence numbers start at 1, while a receiver expects 0 first: the *)
(* packet that fills position 0 is always an ACK, which carries seq 0.     *)
(*                                                                         *)
(* An operator A_Fault just before A is A with a bug a programmer could    *)
(* have made.  No specification uses it: putting it in A's place shows     *)
(* that a property below can fail.                                         *)
(***************************************************************************)
EXTENDS Peers, Integers, Sequences

CONSTANTS
  Data,      \* non-empty payloads
  None,      \* Packet.payload = None, or a payload of no bytes
  Stream,    \* Stream[p]: the payloads p's application hands to send()
  MaxSeq,    \* the largest sequence number: u32::MAX
  OutCap     \* capacity of the output channel: mpsc::channel(100)

Payload == Data \union {None}

ASSUME DataAssumption   == None \notin Data
ASSUME StreamAssumption == Stream \in [Peer -> Seq(Payload)]
ASSUME SeqAssumption    == MaxSeq \in Nat \ {0}
ASSUME OutCapAssumption == OutCap \in Nat \ {0}

SeqNum == 0..MaxSeq

\* fetch_add(1) and, in a release build, "+ 1" on a u32.
Inc(n) == IF n = MaxSeq THEN 0 ELSE n + 1

(***************************************************************************)
(* A packet is what serialize writes and deserialize reads back: seq, ack  *)
(* and the rest of the datagram.  A payload of no bytes leaves no trace on *)
(* the wire and reads back as None, so the two are one value here.         *)
(***************************************************************************)
Packet == [seq : SeqNum, ack : SeqNum, payload : Payload]

\* Fault: the ACK names the last packet exclusively.
AckPacket_Exclusive(n) == [seq |-> 0, ack |-> n - 1, payload |-> None]

AckPacket(n) == [seq |-> 0, ack |-> n, payload |-> None]

VARIABLES
  \* sender half of SharedState
  next_seq,               \* the last sequence number used
  unacked,                \* DashMap<u32, SentPacket>: a set keyed by seq
  submitted,              \* how much of Stream[p] send() has taken from rx
  \* receiver half of SharedState
  expected_sequence,
  receiver_acknowledged,
  recv_buffer,            \* DashMap<u32, Packet>: a set keyed by seq
  \* the recv task
  pc,                     \* where it is suspended
  hold,                   \* the packet it is handing to output_tx
  \* channels and network
  ack_queue,              \* ack_tx -> ack_rx: numbers waiting to be sent
  output,                 \* everything ever pushed to output_tx, in order
  consumed,               \* how much of it the application has read
  net                     \* net[p]: datagrams in flight to p

sendVars == <<next_seq, unacked, submitted>>
recvVars == <<expected_sequence, receiver_acknowledged, recv_buffer, pc, hold>>
vars == <<next_seq, unacked, submitted, expected_sequence,
          receiver_acknowledged, recv_buffer, pc, hold, ack_queue, output,
          consumed, net>>

TypeOK ==
  /\ next_seq \in [Peer -> SeqNum]
  /\ unacked \in [Peer -> SUBSET Packet]
  /\ submitted \in [Peer -> Nat]
  /\ expected_sequence \in [Peer -> SeqNum]
  /\ receiver_acknowledged \in [Peer -> SeqNum]
  /\ recv_buffer \in [Peer -> SUBSET Packet]
  /\ pc \in [Peer -> {"recv_from", "output", "drain", "output_buffered"}]
  /\ hold \in [Peer -> Packet]
  /\ ack_queue \in [Peer -> SUBSET SeqNum]
  /\ output \in [Peer -> Seq(Packet)]
  /\ consumed \in [Peer -> Nat]
  /\ net \in [Peer -> SUBSET Packet]

Init ==
  /\ next_seq = [p \in Peer |-> 0]
  /\ unacked = [p \in Peer |-> {}]
  /\ submitted = [p \in Peer |-> 0]
  /\ expected_sequence = [p \in Peer |-> 0]
  /\ receiver_acknowledged = [p \in Peer |-> 0]
  /\ recv_buffer = [p \in Peer |-> {}]
  /\ pc = [p \in Peer |-> "recv_from"]
  /\ hold = [p \in Peer |-> AckPacket(0)]
  /\ ack_queue = [p \in Peer |-> {}]
  /\ output = [p \in Peer |-> <<>>]
  /\ consumed = [p \in Peer |-> 0]
  /\ net = [p \in Peer |-> {}]

\* DashMap::insert: the new packet replaces the one under the same key.
Insert(map, m) == {x \in map : x.seq # m.seq} \union {m}

(***************************************************************************)
(* The send task.                                                          *)
(***************************************************************************)

\* Fault: the header acknowledges the number that is still expected.
Send_AcksExpected(p) ==
  /\ submitted[p] < Len(Stream[p])
  /\ LET m == [seq     |-> Inc(next_seq[p]),
               ack     |-> expected_sequence[p],
               payload |-> Stream[p][submitted[p] + 1]]
     IN  /\ next_seq' = [next_seq EXCEPT ![p] = m.seq]
         /\ unacked' = [unacked EXCEPT ![p] = Insert(@, m)]
         /\ net' = [net EXCEPT ![Other(p)] = @ \union {m}]
  /\ submitted' = [submitted EXCEPT ![p] = @ + 1]
  /\ UNCHANGED <<recvVars, ack_queue, output, consumed>>

\* rx.recv() yields PacketType::Data: number it, remember it, send it.
Send(p) ==
  /\ submitted[p] < Len(Stream[p])
  /\ LET m == [seq     |-> Inc(next_seq[p]),
               ack     |-> receiver_acknowledged[p],
               payload |-> Stream[p][submitted[p] + 1]]
     IN  /\ next_seq' = [next_seq EXCEPT ![p] = m.seq]
         /\ unacked' = [unacked EXCEPT ![p] = Insert(@, m)]
         /\ net' = [net EXCEPT ![Other(p)] = @ \union {m}]
  /\ submitted' = [submitted EXCEPT ![p] = @ + 1]
  /\ UNCHANGED <<recvVars, ack_queue, output, consumed>>

\* Fault: the newest entry is never old enough.
CheckRetransmission_NotLast(p) ==
  /\ \E expired \in SUBSET {m \in unacked[p] : m.seq < next_seq[p]} \ {{}} :
        net' = [net EXCEPT ![Other(p)] = @ \union expired]
  /\ UNCHANGED <<sendVars, recvVars, ack_queue, output, consumed>>

\* retransmit_interval.tick(): resend every entry older than the timeout;
\* which entries those are is the clock's choice.
CheckRetransmission(p) ==
  /\ \E expired \in SUBSET unacked[p] \ {{}} :
        net' = [net EXCEPT ![Other(p)] = @ \union expired]
  /\ UNCHANGED <<sendVars, recvVars, ack_queue, output, consumed>>

\* periodic_acks: send one number of the ack channel as an ACK packet.
PeriodicAck(p, n) ==
  /\ n \in ack_queue[p]
  /\ ack_queue' = [ack_queue EXCEPT ![p] = @ \ {n}]
  /\ net' = [net EXCEPT ![Other(p)] = @ \union {AckPacket(n)}]
  /\ UNCHANGED <<sendVars, recvVars, output, consumed>>

(***************************************************************************)
(* The recv task.  Receiving takes the datagram off the network or leaves  *)
(* a duplicate of it there (keep).                                         *)
(***************************************************************************)
Taken(p, m, keep) == IF keep THEN net[p] ELSE net[p] \ {m}

\* Fault: a packet from the future is accepted as the expected one.
RecvEqual_OrLater(p, m, keep) ==
  /\ pc[p] = "recv_from"
  /\ m \in net[p]
  /\ m.seq >= expected_sequence[p]
  /\ net' = [net EXCEPT ![p] = Taken(p, m, keep)]
  /\ pc' = [pc EXCEPT ![p] = "output"]
  /\ hold' = [hold EXCEPT ![p] = m]
  /\ UNCHANGED <<sendVars, expected_sequence, receiver_acknowledged,
                 recv_buffer, ack_queue, output, consumed>>

\* The packet everyone waits for: it goes to output_tx first.
RecvEqual(p, m, keep) ==
  /\ pc[p] = "recv_from"
  /\ m \in net[p]
  /\ m.seq = expected_sequence[p]
  /\ net' = [net EXCEPT ![p] = Taken(p, m, keep)]
  /\ pc' = [pc EXCEPT ![p] = "output"]
  /\ hold' = [hold EXCEPT ![p] = m]
  /\ UNCHANGED <<sendVars, expected_sequence, receiver_acknowledged,
                 recv_buffer, ack_queue, output, consumed>>

\* A packet from the future: buffer it and answer with an instant ACK.
RecvGreater(p, m, keep) ==
  /\ pc[p] = "recv_from"
  /\ m \in net[p]
  /\ m.seq > expected_sequence[p]
  /\ recv_buffer' = [recv_buffer EXCEPT ![p] = Insert(@, m)]
  /\ net' = [net EXCEPT ![p] = Taken(p, m, keep),
                        ![Other(p)] =
                           @ \union {AckPacket(receiver_acknowledged[p])}]
  /\ UNCHANGED <<sendVars, expected_sequence, receiver_acknowledged, pc, hold,
                 ack_queue, output, consumed>>

\* An old packet: one without payload makes its ack number our next ACK.
RecvLess(p, m, keep) ==
  /\ pc[p] = "recv_from"
  /\ m \in net[p]
  /\ m.seq < expected_sequence[p]
  /\ net' = [net EXCEPT ![p] = Taken(p, m, keep)]
  /\ ack_queue' = IF m.payload = None
                  THEN [ack_queue EXCEPT ![p] = @ \union {m.ack}]
                  ELSE ack_queue
  /\ UNCHANGED <<sendVars, recvVars, output, consumed>>

Room(p) == Len(output[p]) - consumed[p] < OutCap

\* output_tx.send(..).await returned: advance, and queue the ACK.
Output(p) ==
  /\ pc[p] = "output"
  /\ Room(p)
  /\ output' = [output EXCEPT ![p] = Append(@, hold[p])]
  /\ expected_sequence' = [expected_sequence EXCEPT ![p] = Inc(@)]
  /\ receiver_acknowledged' =
        [receiver_acknowledged EXCEPT ![p] = hold[p].seq]
  /\ ack_queue' = [ack_queue EXCEPT ![p] = @ \union {hold[p].seq}]
  /\ pc' = [pc EXCEPT ![p] = "drain"]
  /\ UNCHANGED <<sendVars, recv_buffer, hold, consumed, net>>

\* recv_buffer.remove(&next_expected): the counters move before the packet
\* reaches output_tx, and no ACK is queued.
DrainHit(p) ==
  /\ pc[p] = "drain"
  /\ \E m \in recv_buffer[p] :
        /\ m.seq = Inc(hold[p].seq)
        /\ recv_buffer' = [recv_buffer EXCEPT ![p] = @ \ {m}]
        /\ hold' = [hold EXCEPT ![p] = m]
  /\ receiver_acknowledged' = [receiver_acknowledged EXCEPT ![p] = Inc(@)]
  /\ expected_sequence' = [expected_sequence EXCEPT ![p] = Inc(@)]
  /\ pc' = [pc EXCEPT ![p] = "output_buffered"]
  /\ UNCHANGED <<sendVars, ack_queue, output, consumed, net>>

\* Fault: recv goes back to the socket without draining.
DrainMiss_Early(p) ==
  /\ pc[p] = "drain"
  /\ pc' = [pc EXCEPT ![p] = "recv_from"]
  /\ hold' = [hold EXCEPT ![p] = AckPacket(0)]
  /\ UNCHANGED <<sendVars, expected_sequence, receiver_acknowledged,
                 recv_buffer, ack_queue, output, consumed, net>>

DrainMiss(p) ==
  /\ pc[p] = "drain"
  /\ \A m \in recv_buffer[p] : m.seq # Inc(hold[p].seq)
  /\ pc' = [pc EXCEPT ![p] = "recv_from"]
  /\ hold' = [hold EXCEPT ![p] = AckPacket(0)]
  /\ UNCHANGED <<sendVars, expected_sequence, receiver_acknowledged,
                 recv_buffer, ack_queue, output, consumed, net>>

\* Fault: try_send instead of send, so a full channel drops the packet.
OutputBuffered_TrySend(p) ==
  /\ pc[p] = "output_buffered"
  /\ output' = IF Room(p)
               THEN [output EXCEPT ![p] = Append(@, hold[p])]
               ELSE output
  /\ pc' = [pc EXCEPT ![p] = "drain"]
  /\ UNCHANGED <<sendVars, expected_sequence, receiver_acknowledged,
                 recv_buffer, hold, ack_queue, consumed, net>>

OutputBuffered(p) ==
  /\ pc[p] = "output_buffered"
  /\ Room(p)
  /\ output' = [output EXCEPT ![p] = Append(@, hold[p])]
  /\ pc' = [pc EXCEPT ![p] = "drain"]
  /\ UNCHANGED <<sendVars, expected_sequence, receiver_acknowledged,
                 recv_buffer, hold, ack_queue, consumed, net>>

(***************************************************************************)
(* The environment: the application reads output_rx, the network loses.    *)
(***************************************************************************)
Consume(p) ==
  /\ consumed[p] < Len(output[p])
  /\ consumed' = [consumed EXCEPT ![p] = @ + 1]
  /\ UNCHANGED <<sendVars, recvVars, ack_queue, output, net>>

Lose(p) ==
  /\ \E m \in net[p] : net' = [net EXCEPT ![p] = @ \ {m}]
  /\ UNCHANGED <<sendVars, recvVars, ack_queue, output, consumed>>

Recv(p, m, keep) ==
  RecvEqual(p, m, keep) \/ RecvGreater(p, m, keep) \/ RecvLess(p, m, keep)

Next ==
  \E p \in Peer :
     \/ Send(p)
     \/ CheckRetransmission(p)
     \/ \E n \in ack_queue[p] : PeriodicAck(p, n)
     \/ \E m \in net[p], keep \in BOOLEAN : Recv(p, m, keep)
     \/ Output(p)
     \/ DrainHit(p)
     \/ DrainMiss(p)
     \/ OutputBuffered(p)
     \/ Consume(p)
     \/ Lose(p)

Spec == Init /\ [][Next]_vars

(***************************************************************************)
(* Fairness.  Every task is polled by the runtime, select! picks its ready *)
(* branches at random, and the application keeps reading.  The retransmit  *)
(* timer resends each entry of unacked again and again.  The network is a  *)
(* fair-lossy link: of infinitely many datagrams with one sequence number  *)
(* it delivers infinitely many.                                            *)
(***************************************************************************)
Retransmit(p, s) ==
  /\ CheckRetransmission(p)
  /\ \E m \in unacked[p] : m.seq = s /\ m \in net'[Other(p)]

RecvNumber(p, s) ==
  \E m \in net[p], keep \in BOOLEAN : m.seq = s /\ Recv(p, m, keep)

Fairness ==
  \A p \in Peer :
     /\ WF_vars(Send(p))
     /\ WF_vars(Output(p)) /\ WF_vars(OutputBuffered(p))
     /\ WF_vars(DrainHit(p)) /\ WF_vars(DrainMiss(p))
     /\ WF_vars(Consume(p))
     /\ WF_vars(\E n \in ack_queue[p] : PeriodicAck(p, n))
     /\ \A s \in 1..Len(Stream[p]) : WF_vars(Retransmit(p, s))
     /\ \A s \in 0..Len(Stream[Other(p)]) : SF_vars(RecvNumber(p, s))

FairSpec == Spec /\ Fairness

(***************************************************************************)
(* Properties.                                                             *)
(***************************************************************************)

\* Fewer than 2^32 packets in each direction: sequence numbers do not wrap.
NoWrap == \A p \in Peer : Len(Stream[p]) < MaxSeq

\* What output_tx has carried to p is one packet without payload (the ACK
\* that filled position 0) and then a prefix of the other end's stream: the
\* payloads it submitted, each once, in order, none skipped.
InOrder ==
  \A p \in Peer : \A i \in 1..Len(output[p]) :
     IF i = 1
     THEN output[p][i].payload = None
     ELSE /\ i - 1 <= submitted[Other(p)]
          /\ output[p][i].payload = Stream[Other(p)][i - 1]

\* While recv waits for a datagram, recv_buffer holds only packets it still
\* needs: nothing already delivered stays behind, and the packet it expects
\* next is not sitting in the buffer.
BufferIsAhead ==
  \A p \in Peer : pc[p] = "recv_from" =>
     \A m \in recv_buffer[p] : m.seq > expected_sequence[p]

\* Where p's own acknowledgements are: receiver_acknowledged, which Output
\* stores and DrainHit increments before the hand-over, and its copies in the
\* headers of p's data packets, remembered for retransmission or on the way.
OwnAcks(p) ==
  {receiver_acknowledged[p]}
  \union {m.ack : m \in unacked[p] \union {x \in net[Other(p)] : x.seq > 0}}

\* They claim too much by no more than the one packet in recv's hand: every
\* number up to an own acknowledgement is in the output channel, or is the one
\* that recv waits to put there.
OwnAckIsHonest ==
  \A p \in Peer : \A ack \in OwnAcks(p) : \A n \in 1..ack :
     \/ \E i \in 1..Len(output[p]) : output[p][i].seq = n
     \/ pc[p] = "output_buffered" /\ hold[p].seq = n

\* Every payload send() accepts is delivered in the end, whatever the network
\* loses, because unacked entries are resent and the ACK they provoke fills
\* position 0.
EventuallyDelivered ==
  \A p \in Peer : \A n \in 1..Len(Stream[p]) :
     submitted[p] >= n ~> Len(output[Other(p)]) > n

\* The payloads an application gets out of the packets on output_rx: all but
\* the ACK at position 0.
Payloads(out) ==
  IF out = <<>>
  THEN <<>>
  ELSE [i \in 1..(Len(out) - 1) |-> out[i + 1].payload]

Chan == INSTANCE ReliableChannel WITH
          Data <- Payload,
          sent <- [p \in Peer |-> SubSeq(Stream[p], 1, submitted[p])],
          rcvd <- [p \in Peer |-> Payloads(output[p])]

\* Seen through the output channel, the layer is a lossless FIFO channel in
\* each direction.
ImplementsChannel == Chan!ChanSpec

(***************************************************************************)
(* What comments and documents of the code say, and the code does not do.  *)
(***************************************************************************)

\* common/src/lib.rs:19 calls Header.ack a cumulative ACK: the sender of the
\* datagram has received everything up to it.
CumulativeAck ==
  \A p \in Peer : \A m \in net[p] :
     m.ack = 0 \/ m.ack < expected_sequence[Other(p)]
=============================================================================
