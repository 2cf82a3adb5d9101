-------------------------- MODULE PeerSessionProof --------------------------
(***************************************************************************)
(* Proofs about PeerSession, for every script the users may type, every    *)
(* number of punches and keep-alives and every capacity of packet_tx.      *)
(***************************************************************************)
EXTENDS PeerSession, TLAPS

(***************************************************************************)
(* The inductive invariant.                                                *)
(***************************************************************************)

\* All that q has queued so far, in order: what the channel has, then what
\* waits for the send task.
Size(q)  == Len(sent[q]) + Len(packets[q])
At(q, i) == IF i <= Len(sent[q]) THEN sent[q][i] ELSE packets[q][i - Len(sent[q])]

\* The phases an end can have only after its CONNECTED was queued, and those
\* in which it types no more.
Confirmed == {"chat", "leaving", "exited", "closed"}
Gone      == {"leaving", "exited", "closed"}

\* The user of q has typed the word GOODBYE as a line.
GoodbyeTyped(q) == \E i \in 1..typed[q] : Script[q][i] = "GOODBYE"

\* An end reads no further than the other has sent.
ReadsWhatWasSent == \A p \in Peer : Len(rcvd[p]) <= Len(sent[Other(p)])

\* Whoever is in the chat has queued CONNECTED, and before it no line.
ConnectedFirst ==
  \A q \in Peer :
     /\ phase[q] \in Confirmed => \E j \in 1..Size(q) : At(q, j) = "CONNECTED"
     /\ \A i \in 1..Size(q) : At(q, i) \notin Control =>
           \E j \in 1..Size(q) : j < i /\ At(q, j) = "CONNECTED"

\* Whoever is still punching has read neither a punch nor a confirmation.
NotWoken ==
  \A p \in Peer : phase[p] \in {"start", "punch"} =>
     \A i \in 1..Len(rcvd[p]) : At(Other(p), i) \notin {"HOLE_PUNCH", "CONNECTED"}

\* m[i] counts the lines among the first i payloads q has queued; they are the
\* first m[i] lines of said[q], and the other end has printed the lines among
\* those it has read.  A GOODBYE that was not typed is behind all lines.
Counts(q, m) ==
  /\ m \in [Nat -> Nat] /\ m[0] = 0
  /\ \A i \in 1..Size(q) :
        m[i] = IF At(q, i) \in Control THEN m[i - 1] ELSE m[i - 1] + 1
  /\ \A i \in 0..Size(q) : m[i] <= Len(said[q])
  /\ m[Size(q)] = Len(said[q])
  /\ \A i \in 1..Size(q) : At(q, i) \notin Control => said[q][m[i]] = At(q, i)
  /\ Len(shown[Other(q)]) = m[Len(rcvd[Other(q)])]
  /\ \A i \in 1..Size(q) : At(q, i) = "GOODBYE" =>
        GoodbyeTyped(q) \/ (phase[q] \in Gone /\ m[i] = Len(said[q]))

\* The lines of both ends are counted.
LinesCounted == \A q \in Peer : \E m : Counts(q, m)

\* What is printed are the first of the lines typed.
LinesMatch ==
  \A p \in Peer :
     /\ Len(shown[p]) <= Len(said[Other(p)])
     /\ \A k \in 1..Len(shown[p]) : shown[p][k] = said[Other(p)][k]

\* The last payload a closed end has read is a GOODBYE.
ClosedByGoodbye ==
  \A p \in Peer : phase[p] = "closed" =>
     Len(rcvd[p]) > 0 /\ At(Other(p), Len(rcvd[p])) = "GOODBYE"

IInv ==
  /\ TypeOK /\ ReadsWhatWasSent /\ ConnectedFirst /\ NotWoken /\ LinesCounted
  /\ LinesMatch /\ ClosedByGoodbye

(***************************************************************************)
(* The steps, as seen from what is queued.                                 *)
(***************************************************************************)

\* The other end is an end, and its other end is this one.
LEMMA OtherEnd ==
  /\ \A p \in Peer : Other(p) \in Peer /\ Other(p) # p /\ Other(Other(p)) = p
  /\ \A p, q \in Peer : q = p \/ q = Other(p)
BY PeerAssumption DEF Other

\* The quantities of the invariant are numbers.
LEMMA Lengths ==
  ASSUME TypeOK, NEW q \in Peer
  PROVE  /\ sent[q] \in Seq(Data) /\ rcvd[q] \in Seq(Data)
         /\ packets[q] \in Seq(Data) /\ said[q] \in Seq(Data)
         /\ shown[q] \in Seq(Data)
         /\ Len(sent[q]) \in Nat /\ Len(rcvd[q]) \in Nat /\ Len(said[q]) \in Nat
         /\ Len(packets[q]) \in Nat /\ Len(shown[q]) \in Nat
         /\ Size(q) \in Nat /\ Len(sent[q]) <= Size(q)
         /\ \A i \in 1..Size(q) : At(q, i) \in Data
<1>1. /\ sent[q] \in Seq(Data) /\ rcvd[q] \in Seq(Data)
      /\ packets[q] \in Seq(Data) /\ said[q] \in Seq(Data)
      /\ shown[q] \in Seq(Data)
  BY DEF TypeOK
<1>2. /\ Len(sent[q]) \in Nat /\ Len(rcvd[q]) \in Nat /\ Len(said[q]) \in Nat
      /\ Len(packets[q]) \in Nat /\ Len(shown[q]) \in Nat
  BY <1>1
<1>3. Size(q) \in Nat /\ Len(sent[q]) <= Size(q)
  BY <1>1, <1>2 DEF Size, TypeOK
<1>4. ASSUME NEW i \in 1..Size(q) PROVE At(q, i) \in Data
  <2>1. CASE i <= Len(sent[q])
    <3>1. i \in 1..Len(sent[q])
      BY <1>2, <1>3, <2>1
    <3> QED
      BY <1>1, <2>1, <3>1 DEF At
  <2>2. CASE ~(i <= Len(sent[q]))
    <3>1. i - Len(sent[q]) \in 1..Len(packets[q])
      BY <1>1, <1>2, <1>3, <2>2 DEF Size, TypeOK
    <3> QED
      BY <1>1, <2>2, <3>1 DEF At
  <2> QED
    BY <2>1, <2>2
<1> QED
  BY <1>1, <1>2, <1>3, <1>4

\* The variables behind Size and At are the channel's and packet_tx.
LEMMA SameStream ==
  ASSUME UNCHANGED <<sent, packets>>
  PROVE  \A q \in Peer : Size(q)' = Size(q) /\ \A i : At(q, i)' = At(q, i)
BY DEF Size, At

\* Queueing a payload puts it at the end.
LEMMA QueueStream ==
  ASSUME TypeOK, NEW p \in Peer, NEW d \in Data, Queue(p, d), UNCHANGED sent
  PROVE  /\ packets' \in [Peer -> Seq(Data)]
         /\ \A q \in Peer : Len(packets'[q]) <= PacketCap
         /\ Size(p)' = Size(p) + 1
         /\ At(p, Size(p))' = d
         /\ \A i \in 1..Size(p) : At(p, i)' = At(p, i)
         /\ \A q \in Peer \ {p} : Size(q)' = Size(q) /\ \A i : At(q, i)' = At(q, i)
<1> USE DEF TypeOK
<1>1. /\ packets' = [packets EXCEPT ![p] = Append(packets[p], d)]
      /\ Len(packets[p]) < PacketCap /\ PacketCap \in Nat
      /\ packets[p] \in Seq(Data) /\ sent[p] \in Seq(Data) /\ sent' = sent
  BY SessionAssumption DEF Queue
<1>2. /\ packets'[p] = Append(packets[p], d)
      /\ \A q \in Peer \ {p} : packets'[q] = packets[q]
  BY <1>1
<1>3. /\ Append(packets[p], d) \in Seq(Data)
      /\ Len(Append(packets[p], d)) = Len(packets[p]) + 1
      /\ Append(packets[p], d)[Len(packets[p]) + 1] = d
      /\ \A i \in 1..Len(packets[p]) : Append(packets[p], d)[i] = packets[p][i]
  BY <1>1
<1>4. Size(p)' = Size(p) + 1
  BY <1>1, <1>2, <1>3 DEF Size
<1>5. At(p, Size(p))' = d
  <2>1. /\ ~(Size(p)' <= Len(sent'[p]))
        /\ Size(p)' - Len(sent'[p]) = Len(packets[p]) + 1
    BY <1>1, <1>4 DEF Size
  <2> QED
    BY <1>2, <1>3, <2>1 DEF At
<1>6. ASSUME NEW i \in 1..Size(p) PROVE At(p, i)' = At(p, i)
  <2>1. i - Len(sent[p]) \in 1..Len(packets[p]) \/ i <= Len(sent[p])
    BY <1>1 DEF Size
  <2> QED
    BY <1>1, <1>2, <1>3, <2>1 DEF At
<1>7. \A q \in Peer \ {p} : Size(q)' = Size(q) /\ \A i : At(q, i)' = At(q, i)
  BY <1>1, <1>2 DEF Size, At
<1>8. packets' \in [Peer -> Seq(Data)]
  BY <1>1, <1>3
<1>9. \A q \in Peer : Len(packets'[q]) <= PacketCap
  BY <1>1, <1>2, <1>3
<1> QED
  BY <1>4, <1>5, <1>6, <1>7, <1>8, <1>9

\* The send task moves a payload and changes nothing in what is queued.
LEMMA SendStream ==
  ASSUME TypeOK, NEW p \in Peer, SendTask(p)
  PROVE  /\ sent' \in [Peer -> Seq(Data)] /\ packets' \in [Peer -> Seq(Data)]
         /\ \A q \in Peer : Len(packets'[q]) <= PacketCap
         /\ \A q \in Peer : Len(sent[q]) <= Len(sent'[q])
         /\ \A q \in Peer : /\ Size(q)' = Size(q)
                            /\ \A i \in 1..Size(q) : At(q, i)' = At(q, i)
<1> USE DEF TypeOK
<1>1. PICK d \in Data : sent' = [sent EXCEPT ![p] = Append(sent[p], d)]
  BY DEF SendTask, Submit
<1>2. /\ packets[p] # <<>> /\ packets' = [packets EXCEPT ![p] = Tail(packets[p])]
      /\ Last(sent'[p]) = Head(packets[p])
  BY DEF SendTask
<1>3. packets[p] \in Seq(Data) /\ sent[p] \in Seq(Data) /\ PacketCap \in Nat
  BY SessionAssumption
<1>4. /\ sent'[p] = Append(sent[p], d) /\ packets'[p] = Tail(packets[p])
      /\ \A q \in Peer \ {p} : sent'[q] = sent[q] /\ packets'[q] = packets[q]
  BY <1>1, <1>2
<1>5. /\ sent'[p] \in Seq(Data) /\ Len(sent'[p]) = Len(sent[p]) + 1
      /\ sent'[p][Len(sent[p]) + 1] = d
      /\ \A i \in 1..Len(sent[p]) : sent'[p][i] = sent[p][i]
  BY <1>3, <1>4
<1>6. d = packets[p][1]
  BY <1>2, <1>3, <1>5 DEF Last
<1>7. /\ packets'[p] \in Seq(Data) /\ Len(packets'[p]) = Len(packets[p]) - 1
      /\ Len(packets[p]) > 0
      /\ \A i \in 1..(Len(packets[p]) - 1) : packets'[p][i] = packets[p][i + 1]
  BY <1>2, <1>3, <1>4
<1>8. Size(p)' = Size(p)
  BY <1>3, <1>5, <1>7 DEF Size
<1>9. ASSUME NEW i \in 1..Size(p) PROVE At(p, i)' = At(p, i)
  <2>1. CASE i <= Len(sent[p])
    BY <1>3, <1>5, <2>1 DEF At, Size
  <2>2. CASE i = Len(sent[p]) + 1
    BY <1>3, <1>5, <1>6, <2>2 DEF At, Size
  <2>3. CASE i > Len(sent[p]) + 1
    <3>1. At(p, i)' = packets'[p][i - (Len(sent[p]) + 1)]
      BY <1>3, <1>5, <2>3 DEF At, Size
    <3>2. i - (Len(sent[p]) + 1) \in 1..(Len(packets[p]) - 1)
      BY <1>3, <1>7, <2>3 DEF Size
    <3>3. packets'[p][i - (Len(sent[p]) + 1)] = packets[p][i - (Len(sent[p]) + 1) + 1]
      BY <1>7, <3>2
    <3>4. i - (Len(sent[p]) + 1) + 1 = i - Len(sent[p]) /\ ~(i <= Len(sent[p]))
      BY <1>3, <2>3
    <3> QED
      BY <3>1, <3>3, <3>4 DEF At
  <2> QED
    BY <1>3, <2>1, <2>2, <2>3 DEF Size
<1>10. ASSUME NEW q \in Peer \ {p}
       PROVE  Size(q)' = Size(q) /\ \A i \in 1..Size(q) : At(q, i)' = At(q, i)
  BY <1>4 DEF Size, At
<1>11. sent' \in [Peer -> Seq(Data)] /\ packets' \in [Peer -> Seq(Data)]
  BY <1>1, <1>2, <1>4, <1>5, <1>7
<1>12. ASSUME NEW q \in Peer
       PROVE  Len(packets'[q]) <= PacketCap /\ Len(sent[q]) <= Len(sent'[q])
  <2>1. /\ Len(packets[q]) <= PacketCap /\ Len(packets[q]) \in Nat
        /\ Len(sent[q]) \in Nat /\ Len(packets[p]) \in Nat
        /\ Len(packets[p]) <= PacketCap
    OBVIOUS
  <2>2. CASE q = p
    BY <1>3, <1>5, <1>7, <2>1, <2>2
  <2>3. CASE q # p
    BY <1>3, <1>4, <1>11, <2>1, <2>3
  <2> QED
    BY <2>2, <2>3
<1> QED
  BY <1>8, <1>9, <1>10, <1>11, <1>12

\* Reading takes the next payload of the other end's.
LEMMA ReadStream ==
  ASSUME TypeOK, NEW p \in Peer, Handover(p), UNCHANGED packets
  PROVE  /\ rcvd' \in [Peer -> Seq(Data)] /\ sent' = sent
         /\ Len(rcvd[p]) < Len(sent[Other(p)])
         /\ Len(rcvd'[p]) = Len(rcvd[p]) + 1
         /\ \A q \in Peer \ {p} : rcvd'[q] = rcvd[q]
         /\ Incoming(p) = At(Other(p), Len(rcvd[p]) + 1)
         /\ Incoming(p) \in Data
         /\ Len(rcvd[p]) + 1 \in 1..Size(Other(p))
<1> USE DEF TypeOK
<1>1. /\ sent' = sent /\ Len(rcvd[p]) < Len(sent[Other(p)])
      /\ rcvd' = [rcvd EXCEPT ![p] = Append(rcvd[p], Incoming(p))]
  BY DEF Handover, Incoming
<1>2. /\ Other(p) \in Peer /\ sent[Other(p)] \in Seq(Data) /\ rcvd[p] \in Seq(Data)
      /\ Len(packets[Other(p)]) \in Nat
  BY OtherEnd
<1>3. Len(rcvd[p]) + 1 \in 1..Len(sent[Other(p)])
  <2> HIDE DEF TypeOK
  <2>1. Len(rcvd[p]) \in Nat /\ Len(sent[Other(p)]) \in Nat
    BY <1>2
  <2> QED
    BY <1>1, <2>1
<1>4. Incoming(p) \in Data /\ Incoming(p) = At(Other(p), Len(rcvd[p]) + 1)
  <2> HIDE DEF TypeOK
  <2>1. Len(rcvd[p]) + 1 <= Len(sent[Other(p)])
    BY <1>3
  <2>2. sent[Other(p)][Len(rcvd[p]) + 1] \in Data
    BY <1>2, <1>3
  <2> QED
    BY <2>1, <2>2 DEF Incoming, At
<1>5. Len(rcvd[p]) + 1 \in 1..Size(Other(p))
  <2> HIDE DEF TypeOK
  <2>1. \A i, m, k \in Nat : i + 1 \in 1..m => i + 1 \in 1..(m + k)
    OBVIOUS
  <2>2. Len(sent[Other(p)]) \in Nat /\ Len(rcvd[p]) \in Nat
    BY <1>2
  <2> QED
    BY <1>2, <1>3, <2>1, <2>2 DEF Size
<1>6. /\ rcvd' \in [Peer -> Seq(Data)] /\ Len(rcvd'[p]) = Len(rcvd[p]) + 1
      /\ \A q \in Peer \ {p} : rcvd'[q] = rcvd[q]
  <2>1. /\ Append(rcvd[p], Incoming(p)) \in Seq(Data)
        /\ Len(Append(rcvd[p], Incoming(p))) = Len(rcvd[p]) + 1
    BY <1>2, <1>4
  <2> QED
    BY <1>1, <2>1
<1> QED
  BY <1>1, <1>4, <1>5, <1>6

\* The tasks put control words on packet_tx, or the user a line; a line only in
\* the chat, and a GOODBYE that is not a line only with the end of the chat.
Queueing(p, d) ==
  /\ d \in Data /\ Queue(p, d) /\ UNCHANGED <<sent, rcvd, shown>>
  /\ said' = IF d \in Control THEN said
             ELSE [said EXCEPT ![p] = Append(said[p], d)]
  /\ d \notin Control => phase[p] = "chat"
  /\ d = "GOODBYE" => GoodbyeTyped(p)' \/ phase'[p] \in Gone
  /\ \/ phase' = phase
     \/ phase[p] = "confirm" /\ d = "CONNECTED" /\ phase' = [phase EXCEPT ![p] = "chat"]
     \/ phase[p] = "chat" /\ phase' = [phase EXCEPT ![p] = "leaving"]
  /\ \A q \in Peer : GoodbyeTyped(q) => GoodbyeTyped(q)'

\* The five actions that queue something.
LEMMA QueueingStep ==
  ASSUME TypeOK, NEW p \in Peer,
         Punch(p) \/ KeepAlive(p) \/ Confirm(p) \/ Type(p) \/ Exit(p)
  PROVE  \E d : Queueing(p, d)
<1> USE DEF Queueing, chanVars
<1>1. Control \subseteq Data /\ Script \in [Peer -> Seq(Data)]
  BY SessionAssumption
<1>2. UNCHANGED typed => \A q \in Peer : GoodbyeTyped(q) => GoodbyeTyped(q)'
  BY DEF GoodbyeTyped
<1>3. CASE Punch(p)
  <2>1. Queueing(p, "HOLE_PUNCH")
    BY <1>1, <1>2, <1>3 DEF Punch, Control
  <2> QED
    BY <2>1
<1>4. CASE KeepAlive(p)
  <2>1. Queueing(p, "KEEP_ALIVE")
    BY <1>1, <1>2, <1>4 DEF KeepAlive, Control
  <2> QED
    BY <2>1
<1>5. CASE Confirm(p)
  <2>1. Queueing(p, "CONNECTED")
    BY <1>1, <1>2, <1>5 DEF Confirm, Goto, Control
  <2> QED
    BY <2>1
<1>6. CASE Exit(p)
  <2>1. phase'[p] \in Gone
    BY <1>6 DEF Exit, Goto, Gone, TypeOK
  <2>2. Queueing(p, "GOODBYE")
    BY <1>1, <1>2, <1>6, <2>1 DEF Exit, Goto, Control
  <2> QED
    BY <2>2
<1>7. CASE Type(p)
  <2> DEFINE line == Script[p][typed[p] + 1]
  <2>1. /\ phase[p] = "chat" /\ typed[p] < Len(Script[p]) /\ Queue(p, line)
        /\ said' = IF line \in Control THEN said
                   ELSE [said EXCEPT ![p] = Append(said[p], line)]
        /\ typed' = [typed EXCEPT ![p] = typed[p] + 1]
        /\ UNCHANGED <<sent, rcvd, phase, shown>>
    BY <1>7 DEF Type
  <2>2. typed[p] \in Nat /\ Script[p] \in Seq(Data) /\ Len(Script[p]) \in Nat
    BY <1>1 DEF TypeOK
  <2>3. line \in Data
    BY <2>1, <2>2
  <2>4. /\ typed'[p] = typed[p] + 1
        /\ \A q \in Peer \ {p} : typed'[q] = typed[q]
    BY <2>1 DEF TypeOK
  <2>5. 1..typed[p] \subseteq 1..typed'[p] /\ typed[p] + 1 \in 1..typed'[p]
    BY <2>2, <2>4
  <2>6. \A q \in Peer : GoodbyeTyped(q) => GoodbyeTyped(q)'
    BY <2>4, <2>5 DEF GoodbyeTyped
  <2>7. line = "GOODBYE" => GoodbyeTyped(p)'
    BY <2>5 DEF GoodbyeTyped
  <2> HIDE DEF line
  <2>8. Queueing(p, line)
    BY <2>1, <2>3, <2>6, <2>7
  <2> QED
    BY <2>8
<1> QED
  BY <1>3, <1>4, <1>5, <1>6, <1>7

\* What the phases may do in a step.
LEMMA PhaseStep ==
  ASSUME TypeOK, [Next]_vars
  PROVE  \A q \in Peer :
            /\ phase[q] \in Gone => phase'[q] \in Gone
            /\ phase'[q] \in Confirmed => phase[q] \in Confirmed \/ Confirm(q)
            /\ phase'[q] \in {"start", "punch"} => phase[q] \in {"start", "punch"}
            /\ phase'[q] = "closed" => phase[q] = "closed" \/ ChatRecv(q)
<1> USE DEF TypeOK, Gone, Confirmed, Goto
<1>1. ASSUME NEW p \in Peer,
             \/ SendTask(p) \/ Punch(p) \/ KeepAlive(p) \/ Type(p)
      PROVE  UNCHANGED phase
  BY <1>1 DEF SendTask, Punch, KeepAlive, Type
<1>2. CASE UNCHANGED phase
  BY <1>2
<1>3. ASSUME NEW p \in Peer, Start(p) \/ Timeout(p) \/ Leave(p),
             NEW q \in Peer
      PROVE  /\ phase[q] \in Gone => phase'[q] \in Gone
             /\ phase'[q] \in Confirmed => phase[q] \in Confirmed
             /\ phase'[q] \in {"start", "punch"} => phase[q] \in {"start", "punch"}
             /\ phase'[q] = "closed" => phase[q] = "closed"
  BY <1>3 DEF Start, Timeout, Leave
<1>4. ASSUME NEW p \in Peer, Confirm(p) \/ Exit(p), NEW q \in Peer
      PROVE  /\ phase[q] \in Gone => phase'[q] \in Gone
             /\ phase'[q] \in Confirmed => phase[q] \in Confirmed \/ Confirm(q)
             /\ phase'[q] \in {"start", "punch"} => phase[q] \in {"start", "punch"}
             /\ phase'[q] = "closed" => phase[q] = "closed"
  BY <1>4 DEF Confirm, Exit
<1>5. ASSUME NEW p \in Peer, PunchRecv(p), NEW q \in Peer
      PROVE  /\ phase[q] \in Gone => phase'[q] \in Gone
             /\ phase'[q] \in Confirmed => phase[q] \in Confirmed
             /\ phase'[q] \in {"start", "punch"} => phase[q] \in {"start", "punch"}
             /\ phase'[q] = "closed" => phase[q] = "closed"
  BY <1>5 DEF PunchRecv
<1>6. ASSUME NEW p \in Peer, ChatRecv(p), NEW q \in Peer
      PROVE  /\ phase[q] \in Gone => phase'[q] \in Gone
             /\ phase'[q] \in Confirmed => phase[q] \in Confirmed
             /\ phase'[q] \in {"start", "punch"} => phase[q] \in {"start", "punch"}
             /\ phase'[q] = "closed" => phase[q] = "closed" \/ ChatRecv(q)
  BY <1>6 DEF ChatRecv
<1>7. UNCHANGED vars => UNCHANGED phase
  BY DEF vars
<1> QED
  BY <1>1, <1>2, <1>3, <1>4, <1>5, <1>6, <1>7 DEF Next

(***************************************************************************)
(* Each part of the invariant is kept.                                     *)
(***************************************************************************)

\* Every step keeps the types.
LEMMA TypeStep == IInv /\ [Next]_vars => TypeOK'
<1> SUFFICES ASSUME TypeOK, [Next]_vars PROVE TypeOK'
  BY DEF IInv
<1> USE SessionAssumption DEF TypeOK, chanVars, taskVars
<1>1. phase' \in [Peer -> {"start"} \union Running \union Ended]
  BY DEF Next, Start, SendTask, Punch, KeepAlive, PunchRecv, Confirm, Timeout,
         Type, Exit, Leave, ChatRecv, Goto, Running, Ended, vars
<1>2. ASSUME NEW p \in Peer, Start(p) \/ Timeout(p) \/ Leave(p) PROVE TypeOK'
  BY <1>1, <1>2 DEF Start, Timeout, Leave
<1>3. ASSUME NEW p \in Peer, SendTask(p) PROVE TypeOK'
  BY <1>1, <1>3, SendStream DEF SendTask, Submit
<1>4. ASSUME NEW p \in Peer,
             Punch(p) \/ KeepAlive(p) \/ Confirm(p) \/ Type(p) \/ Exit(p)
      PROVE  TypeOK'
  <2>1. PICK d : Queueing(p, d)
    BY <1>4, QueueingStep
  <2>2. /\ packets' \in [Peer -> Seq(Data)] /\ UNCHANGED <<sent, rcvd, shown>>
        /\ \A q \in Peer : Len(packets'[q]) <= PacketCap
    BY <2>1, QueueStream DEF Queueing
  <2>3. said' \in [Peer -> Seq(Data)]
    <3>1. d \in Data /\ said[p] \in Seq(Data)
      BY <2>1 DEF Queueing
    <3>2. Append(said[p], d) \in Seq(Data)
      BY <3>1
    <3> QED
      BY <2>1, <3>2 DEF Queueing
  <2>4. punched' \in [Peer -> 0..Punches]
    <3>1. CASE UNCHANGED punched
      BY <3>1
    <3>2. CASE Punch(p)
      <4>1. /\ punched[p] < Punches /\ punched' = [punched EXCEPT ![p] = punched[p] + 1]
            /\ punched[p] \in 0..Punches /\ Punches \in Nat
        BY <3>2 DEF Punch
      <4>2. punched[p] + 1 \in 0..Punches
        BY <4>1
      <4> QED
        BY <4>1, <4>2
    <3> QED
      BY <1>4, <3>1, <3>2 DEF KeepAlive, Confirm, Type, Exit
  <2>5. kept' \in [Peer -> 0..MaxKeepAlive]
    <3>1. CASE UNCHANGED kept
      BY <3>1
    <3>2. CASE KeepAlive(p)
      <4>1. /\ kept[p] < MaxKeepAlive /\ kept' = [kept EXCEPT ![p] = kept[p] + 1]
            /\ kept[p] \in 0..MaxKeepAlive /\ MaxKeepAlive \in Nat
        BY <3>2 DEF KeepAlive
      <4>2. kept[p] + 1 \in 0..MaxKeepAlive
        BY <4>1
      <4> QED
        BY <4>1, <4>2
    <3> QED
      BY <1>4, <3>1, <3>2 DEF Punch, Confirm, Type, Exit
  <2>6. typed' \in [Peer -> Nat] /\ \A q \in Peer : typed'[q] <= Len(Script[q])
    <3>1. CASE UNCHANGED typed
      BY <3>1
    <3>2. CASE Type(p)
      <4>1. /\ typed[p] < Len(Script[p]) /\ typed' = [typed EXCEPT ![p] = typed[p] + 1]
            /\ typed[p] \in Nat
        BY <3>2 DEF Type
      <4> QED
        BY <4>1
    <3> QED
      BY <1>4, <3>1, <3>2 DEF Punch, KeepAlive, Confirm, Exit
  <2> QED
    BY <1>1, <2>2, <2>3, <2>4, <2>5, <2>6
<1>5. ASSUME NEW p \in Peer, PunchRecv(p) PROVE TypeOK'
  BY <1>1, <1>5, ReadStream DEF PunchRecv
<1>6. ASSUME NEW p \in Peer, ChatRecv(p) PROVE TypeOK'
  <2>1. Incoming(p) \in Data /\ rcvd' \in [Peer -> Seq(Data)] /\ sent' = sent
    BY <1>6, ReadStream DEF ChatRecv
  <2>2. Append(shown[p], Incoming(p)) \in Seq(Data)
    BY <2>1
  <2>3. shown' \in [Peer -> Seq(Data)]
    BY <1>6, <2>2 DEF ChatRecv
  <2> QED
    BY <1>1, <1>6, <2>1, <2>3 DEF ChatRecv
<1>7. CASE UNCHANGED vars
  BY <1>1, <1>7 DEF vars
<1> QED
  BY <1>2, <1>3, <1>4, <1>5, <1>6, <1>7 DEF Next

\* The other kinds of steps leave what is queued as it is.
LEMMA OtherStep ==
  ASSUME TypeOK, [Next]_vars
  PROVE  \/ \E p \in Peer : \E d : Queueing(p, d)
         \/ /\ \A q \in Peer : Len(sent[q]) <= Len(sent'[q])
            /\ \A q \in Peer : /\ Size(q)' = Size(q)
                               /\ \A i \in 1..Size(q) : At(q, i)' = At(q, i)
            /\ UNCHANGED <<said, typed>>
            /\ \/ UNCHANGED <<rcvd, shown>>
               \/ \E p \in Peer : PunchRecv(p) \/ ChatRecv(p)
<1> USE DEF chanVars, taskVars
<1>0. \A q \in Peer : Len(sent[q]) \in Nat
  BY Lengths
<1>1. ASSUME NEW p \in Peer, SendTask(p)
      PROVE  /\ \A q \in Peer : Len(sent[q]) <= Len(sent'[q])
             /\ \A q \in Peer : /\ Size(q)' = Size(q)
                                /\ \A i \in 1..Size(q) : At(q, i)' = At(q, i)
             /\ UNCHANGED <<said, typed, rcvd, shown>>
  BY <1>1, SendStream DEF SendTask, Submit
<1>2. ASSUME UNCHANGED <<sent, packets>>
      PROVE  /\ \A q \in Peer : Len(sent[q]) <= Len(sent'[q])
             /\ \A q \in Peer : /\ Size(q)' = Size(q)
                                /\ \A i \in 1..Size(q) : At(q, i)' = At(q, i)
  BY <1>0, <1>2, SameStream
<1>3. ASSUME NEW p \in Peer, PunchRecv(p) \/ ChatRecv(p)
      PROVE  UNCHANGED <<sent, packets, said, typed>>
  BY <1>3, ReadStream DEF PunchRecv, ChatRecv, Handover
<1>4. ASSUME (\E p \in Peer : Start(p) \/ Timeout(p) \/ Leave(p)) \/ UNCHANGED vars
      PROVE  UNCHANGED <<sent, packets, said, typed, rcvd, shown>>
  BY <1>4 DEF Start, Timeout, Leave, vars
<1> QED
  BY <1>1, <1>2, <1>3, <1>4, QueueingStep DEF Next

\* Reading stays behind sending.
LEMMA ReadsStep == IInv /\ [Next]_vars => ReadsWhatWasSent'
<1> SUFFICES ASSUME IInv, [Next]_vars, NEW p \in Peer
             PROVE  Len(rcvd'[p]) <= Len(sent'[Other(p)])
  BY DEF ReadsWhatWasSent
<1> USE DEF IInv
<1>1. /\ Other(p) \in Peer /\ Len(rcvd[p]) \in Nat /\ Len(sent[Other(p)]) \in Nat
      /\ Len(rcvd[p]) <= Len(sent[Other(p)])
  BY OtherEnd, Lengths DEF ReadsWhatWasSent
<1>2. TypeOK'
  BY TypeStep
<1>3. Len(sent'[Other(p)]) \in Nat
  BY <1>1, <1>2 DEF TypeOK
<1>4. ASSUME NEW r \in Peer, PunchRecv(r) \/ ChatRecv(r)
      PROVE  Len(rcvd'[p]) <= Len(sent'[Other(p)])
  <2>1. /\ sent' = sent /\ Len(rcvd[r]) < Len(sent[Other(r)])
        /\ Len(rcvd'[r]) = Len(rcvd[r]) + 1
        /\ \A q \in Peer \ {r} : rcvd'[q] = rcvd[q]
    BY <1>4, ReadStream DEF PunchRecv, ChatRecv, taskVars
  <2>2. CASE r = p
    BY <1>1, <2>1, <2>2
  <2>3. CASE r # p
    BY <1>1, <2>1, <2>3
  <2> QED
    BY <2>2, <2>3
<1>5. CASE UNCHANGED rcvd /\ Len(sent[Other(p)]) <= Len(sent'[Other(p)])
  BY <1>1, <1>3, <1>5
<1>6. CASE \E q \in Peer : \E d : Queueing(q, d)
  BY <1>1, <1>6 DEF Queueing
<1> QED
  BY <1>1, <1>4, <1>5, <1>6, OtherStep

\* CONNECTED is queued at the start of the chat, lines only in the chat.
LEMMA ConnectedStep == IInv /\ [Next]_vars => ConnectedFirst'
<1> SUFFICES ASSUME IInv, [Next]_vars, NEW q \in Peer
             PROVE  (/\ phase[q] \in Confirmed =>
                          \E j \in 1..Size(q) : At(q, j) = "CONNECTED"
                     /\ \A i \in 1..Size(q) : At(q, i) \notin Control =>
                          \E j \in 1..Size(q) : j < i /\ At(q, j) = "CONNECTED")'
  BY DEF ConnectedFirst
<1> USE DEF IInv
<1>1. Size(q) \in Nat
  BY Lengths
<1>2. ASSUME Size(q)' = Size(q), \A i \in 1..Size(q) : At(q, i)' = At(q, i),
             phase'[q] \in Confirmed => phase[q] \in Confirmed
      PROVE  (/\ phase[q] \in Confirmed =>
                   \E j \in 1..Size(q) : At(q, j) = "CONNECTED"
              /\ \A i \in 1..Size(q) : At(q, i) \notin Control =>
                   \E j \in 1..Size(q) : j < i /\ At(q, j) = "CONNECTED")'
  BY <1>2 DEF ConnectedFirst
<1>3. ASSUME NEW p \in Peer, NEW d, Queueing(p, d)
      PROVE  (/\ phase[q] \in Confirmed =>
                   \E j \in 1..Size(q) : At(q, j) = "CONNECTED"
              /\ \A i \in 1..Size(q) : At(q, i) \notin Control =>
                   \E j \in 1..Size(q) : j < i /\ At(q, j) = "CONNECTED")'
  <2>1. /\ Size(p)' = Size(p) + 1 /\ At(p, Size(p))' = d
        /\ \A i \in 1..Size(p) : At(p, i)' = At(p, i)
        /\ \A r \in Peer \ {p} : Size(r)' = Size(r) /\ \A i : At(r, i)' = At(r, i)
    BY <1>3, QueueStream DEF Queueing
  <2>2. CASE q # p
    <3>1. phase'[q] = phase[q]
      BY <1>3, <2>2 DEF Queueing, TypeOK
    <3> QED
      BY <1>2, <2>1, <2>2, <3>1
  <2>3. CASE q = p
    <3>1. /\ Size(q)' = Size(q) + 1
          /\ \A i \in 1..Size(q) : At(q, i)' = At(q, i)
      BY <2>1, <2>3
    <3> DEFINE n == Size(q) + 1
    <3>2. /\ n \in Nat /\ 1..Size(q) \subseteq 1..n /\ n \in 1..n
          /\ \A i \in 1..n : i \in 1..Size(q) \/ i = n
          /\ \A j \in 1..Size(q) : j < n
      BY <1>1
    <3>3. Size(q)' = n
      BY <2>1, <2>3
    <3>4. \A i : i = n => At(q, i)' = d
      BY <2>1, <2>3
    <3> HIDE DEF n
    <3>5. phase[q] \in Confirmed => \E j \in 1..Size(q) : At(q, j) = "CONNECTED"
      BY DEF ConnectedFirst
    <3>6. phase'[q] \in Confirmed => phase[q] \in Confirmed \/ d = "CONNECTED"
      BY <1>3, <2>3 DEF Queueing, TypeOK, Confirmed
    <3>7. phase'[q] \in Confirmed => \E j \in 1..n : At(q, j)' = "CONNECTED"
      <4>1. CASE phase[q] \in Confirmed
        BY <3>1, <3>2, <3>5, <4>1
      <4>2. CASE d = "CONNECTED"
        BY <3>2, <3>4, <4>2
      <4> QED
        BY <3>6, <4>1, <4>2
    <3>8. ASSUME NEW i \in 1..n, At(q, i)' \notin Control
          PROVE  \E j \in 1..n : j < i /\ At(q, j)' = "CONNECTED"
      <4>1. CASE i \in 1..Size(q)
        BY <3>1, <3>2, <3>8, <4>1 DEF ConnectedFirst
      <4>2. CASE i = n
        <5>1. phase[q] \in Confirmed
          BY <1>3, <2>3, <3>4, <3>8, <4>2 DEF Queueing, Confirmed
        <5> QED
          BY <3>1, <3>2, <3>5, <4>2, <5>1
      <4> QED
        BY <3>2, <4>1, <4>2
    <3> QED
      BY <3>3, <3>7, <3>8
  <2> QED
    BY <2>2, <2>3
<1>4. CASE Confirm(q)
  BY <1>3, <1>4, QueueingStep
<1> QED
  BY <1>2, <1>3, <1>4, OtherStep, PhaseStep

\* Whatever happens, what has been queued stays where it is.
LEMMA StreamKept ==
  ASSUME TypeOK, [Next]_vars, NEW q \in Peer
  PROVE  \A i \in 1..Size(q) : At(q, i)' = At(q, i)
<1>1. ASSUME NEW p \in Peer, NEW d, Queueing(p, d)
      PROVE  \A i \in 1..Size(q) : At(q, i)' = At(q, i)
  BY <1>1, QueueStream DEF Queueing
<1> QED
  BY <1>1, OtherStep

\* A punch or a confirmation that is read ends the punch loop.
LEMMA NotWokenStep == IInv /\ [Next]_vars => NotWoken'
<1> SUFFICES ASSUME IInv, [Next]_vars, NEW p \in Peer,
                    phase'[p] \in {"start", "punch"}, NEW i \in 1..Len(rcvd'[p])
             PROVE  At(Other(p), i)' \notin {"HOLE_PUNCH", "CONNECTED"}
  BY OtherEnd DEF NotWoken, Other
<1> USE DEF IInv
<1>1. phase[p] \in {"start", "punch"}
  BY PhaseStep
<1>2. /\ Other(p) \in Peer /\ Len(rcvd[p]) \in Nat
      /\ 1..Len(rcvd[p]) \subseteq 1..Size(Other(p))
  <2>1. /\ Other(p) \in Peer /\ Len(rcvd[p]) \in Nat /\ Size(Other(p)) \in Nat
        /\ Len(sent[Other(p)]) \in Nat /\ Len(sent[Other(p)]) <= Size(Other(p))
        /\ Len(rcvd[p]) <= Len(sent[Other(p)])
    BY OtherEnd, Lengths DEF ReadsWhatWasSent
  <2> QED
    BY <2>1
<1>3. CASE i \in 1..Len(rcvd[p])
  BY <1>1, <1>2, <1>3, StreamKept DEF NotWoken
<1>4. ASSUME NEW r \in Peer, PunchRecv(r) \/ ChatRecv(r), i \notin 1..Len(rcvd[p])
      PROVE  At(Other(p), i)' \notin {"HOLE_PUNCH", "CONNECTED"}
  <2>1. /\ Len(rcvd'[r]) = Len(rcvd[r]) + 1
        /\ \A q \in Peer \ {r} : rcvd'[q] = rcvd[q]
        /\ Incoming(r) = At(Other(r), Len(rcvd[r]) + 1)
        /\ Len(rcvd[r]) + 1 \in 1..Size(Other(r))
    BY <1>4, ReadStream DEF PunchRecv, ChatRecv, taskVars
  <2>2. r = p /\ i = Len(rcvd[p]) + 1
    BY <1>2, <1>4, <2>1
  <2>3. PunchRecv(p)
    BY <1>1, <1>4, <2>2 DEF ChatRecv
  <2>4. Incoming(p) \notin {"HOLE_PUNCH", "CONNECTED"}
    BY <2>3 DEF PunchRecv, Goto, TypeOK
  <2> QED
    BY <1>2, <2>1, <2>2, <2>4, StreamKept
<1>5. CASE UNCHANGED rcvd
  BY <1>3, <1>5
<1>6. ASSUME NEW r \in Peer, NEW d, Queueing(r, d) PROVE UNCHANGED rcvd
  BY <1>6 DEF Queueing
<1> QED
  BY <1>3, <1>4, <1>5, <1>6, OtherStep

\* A payload that is read while punching is no line.
LEMMA NoLineWhilePunching ==
  ASSUME IInv, NEW p \in Peer, PunchRecv(p)
  PROVE  Incoming(p) \in Control
<1> USE DEF IInv
<1>1. /\ Incoming(p) = At(Other(p), Len(rcvd[p]) + 1)
      /\ Len(rcvd[p]) + 1 \in 1..Size(Other(p))
  BY ReadStream DEF PunchRecv, taskVars
<1>2. Other(p) \in Peer /\ Len(rcvd[p]) \in Nat /\ Size(Other(p)) \in Nat
  BY OtherEnd, Lengths
<1> SUFFICES ASSUME Incoming(p) \notin Control PROVE FALSE
  OBVIOUS
<1>3. PICK j \in 1..Size(Other(p)) :
         j < Len(rcvd[p]) + 1 /\ At(Other(p), j) = "CONNECTED"
  BY <1>1, <1>2 DEF ConnectedFirst
<1>4. j \in 1..Len(rcvd[p])
  BY <1>2, <1>3
<1> QED
  BY <1>3, <1>4 DEF NotWoken, PunchRecv

\* A count stays right when nothing is queued and the other end prints what it
\* reads.
LEMMA CountsKept ==
  ASSUME NEW q \in Peer, NEW m, Counts(q, m),
         Size(q)' = Size(q), \A i \in 1..Size(q) : At(q, i)' = At(q, i),
         said'[q] = said[q], GoodbyeTyped(q) => GoodbyeTyped(q)',
         phase[q] \in Gone => phase'[q] \in Gone,
         Len(shown'[Other(q)]) = m[Len(rcvd'[Other(q)])]
  PROVE  Counts(q, m)'
<1>1. Other(q)' = Other(q)
  BY DEF Other
<1> QED
  BY <1>1 DEF Counts

\* Queueing a payload extends the count.
LEMMA CountsQueued ==
  ASSUME IInv, NEW q \in Peer, NEW d, Queueing(q, d), NEW m, Counts(q, m)
  PROVE  \E w : Counts(q, w)'
<1> USE DEF IInv
<1> DEFINE n == Size(q) + 1
           k == IF d \in Control THEN Len(said[q]) ELSE Len(said[q]) + 1
           o == Other(q)
<1>1. /\ Size(q) \in Nat /\ n \in Nat /\ Len(said[q]) \in Nat /\ k \in Nat
      /\ said[q] \in Seq(Data) /\ d \in Data /\ said \in [Peer -> Seq(Data)]
  BY Lengths DEF Queueing, TypeOK
<1>2. /\ Size(q)' = n
      /\ \A i : i = n => At(q, i)' = d
      /\ \A i \in 1..Size(q) : At(q, i)' = At(q, i)
  BY QueueStream DEF Queueing
<1>3. /\ \A i \in 1..n : i \in 1..Size(q) \/ i = n
      /\ \A i \in 0..n : i \in 0..Size(q) \/ i = n
      /\ n \notin 0..Size(q) /\ n \in 1..n
      /\ \A i \in 1..Size(q) : i \in Nat /\ i - 1 \in 0..Size(q) /\ i \in 0..Size(q)
      /\ 0..Size(q) \subseteq Nat /\ n - 1 = Size(q) /\ 0 \in 0..Size(q)
  BY <1>1
<1>4. /\ m \in [Nat -> Nat] /\ m[0] = 0 /\ m[Size(q)] = Len(said[q])
      /\ \A i \in 1..Size(q) :
            m[i] = IF At(q, i) \in Control THEN m[i - 1] ELSE m[i - 1] + 1
      /\ \A i \in 0..Size(q) : m[i] <= Len(said[q])
      /\ \A i \in 1..Size(q) : At(q, i) \notin Control => said[q][m[i]] = At(q, i)
      /\ Len(shown[o]) = m[Len(rcvd[o])]
      /\ \A i \in 1..Size(q) : At(q, i) = "GOODBYE" =>
            GoodbyeTyped(q) \/ (phase[q] \in Gone /\ m[i] = Len(said[q]))
  BY DEF Counts
<1>5. PICK w : w \in [Nat -> Nat] /\ w[n] = k /\ \A i \in Nat \ {n} : w[i] = m[i]
  <2> DEFINE v == [m EXCEPT ![n] = k]
  <2> HIDE DEF n, k
  <2>1. v \in [Nat -> Nat] /\ v[n] = k /\ \A i \in Nat \ {n} : v[i] = m[i]
    BY <1>1, <1>4
  <2> QED
    BY <2>1
<1>6. /\ Len(said'[q]) = k /\ Len(said[q]) <= k
      /\ \A i \in 1..Len(said[q]) : said'[q][i] = said[q][i]
      /\ d \notin Control => said'[q][k] = d
  <2>1. CASE d \in Control
    <3>1. said' = said
      BY <2>1 DEF Queueing
    <3> QED
      BY <1>1, <2>1, <3>1
  <2>2. CASE d \notin Control
    <3>1. said'[q] = Append(said[q], d)
      BY <1>1, <2>2 DEF Queueing
    <3>2. /\ Len(Append(said[q], d)) = Len(said[q]) + 1
          /\ Append(said[q], d)[Len(said[q]) + 1] = d
          /\ \A i \in 1..Len(said[q]) : Append(said[q], d)[i] = said[q][i]
      BY <1>1
    <3> QED
      BY <1>1, <2>2, <3>1, <3>2
  <2> QED
    BY <2>1, <2>2
<1> HIDE DEF n, k, o
<1>7. \A i \in 0..Size(q) : w[i] = m[i]
  BY <1>3, <1>5
<1>8. ASSUME NEW i \in 1..n
      PROVE  w[i] = IF At(q, i)' \in Control THEN w[i - 1] ELSE w[i - 1] + 1
  <2>1. CASE i \in 1..Size(q)
    BY <1>2, <1>3, <1>4, <1>7, <2>1
  <2>2. CASE i = n
    <3>1. w[i - 1] = Len(said[q]) /\ w[i] = k /\ At(q, i)' = d
      BY <1>1, <1>2, <1>3, <1>4, <1>5, <1>7, <2>2
    <3> QED
      BY <3>1 DEF k
  <2> QED
    BY <1>3, <2>1, <2>2
<1>9. \A i \in 0..n : w[i] <= Len(said'[q])
  <2>1. ASSUME NEW i \in 0..Size(q) PROVE w[i] <= k
    <3>1. w[i] = m[i] /\ m[i] <= Len(said[q]) /\ m[i] \in Nat
      BY <1>3, <1>4, <1>7
    <3> QED
      BY <1>1, <1>6, <3>1
  <2>2. w[n] <= k
    BY <1>1, <1>5
  <2> QED
    BY <1>3, <1>6, <2>1, <2>2
<1>10. ASSUME NEW i \in 1..n, At(q, i)' \notin Control
       PROVE  said'[q][w[i]] = At(q, i)'
  <2>1. CASE i \in 1..Size(q)
    <3>1. At(q, i)' = At(q, i) /\ w[i] = m[i] /\ said[q][m[i]] = At(q, i)
      BY <1>2, <1>3, <1>4, <1>7, <1>10, <2>1
    <3>2. m[i] = m[i - 1] + 1 /\ m[i - 1] \in Nat /\ m[i] <= Len(said[q])
      BY <1>2, <1>3, <1>4, <1>10, <2>1
    <3>3. m[i] \in 1..Len(said[q])
      BY <1>1, <3>2
    <3> QED
      BY <1>6, <3>1, <3>3
  <2>2. CASE i = n
    BY <1>2, <1>5, <1>6, <1>10, <2>2
  <2> QED
    BY <1>3, <2>1, <2>2
<1>11. Len(shown'[o]) = w[Len(rcvd'[o])]
  <2>1. /\ UNCHANGED <<rcvd, shown>> /\ o \in Peer /\ Other(o) = q
    BY OtherEnd DEF Queueing, o
  <2>2. Len(rcvd[o]) \in 0..Size(q)
    <3>1. /\ Len(rcvd[o]) \in Nat /\ Len(rcvd[o]) <= Len(sent[q])
          /\ Len(sent[q]) <= Size(q) /\ Len(sent[q]) \in Nat
      BY <2>1, Lengths DEF ReadsWhatWasSent
    <3> QED
      BY <1>1, <3>1
  <2> QED
    BY <1>4, <1>7, <2>1, <2>2
<1>12. ASSUME NEW i \in 1..n, At(q, i)' = "GOODBYE"
       PROVE  GoodbyeTyped(q)' \/ (phase'[q] \in Gone /\ w[i] = Len(said'[q]))
  <2>1. CASE i \in 1..Size(q)
    <3>1. GoodbyeTyped(q) \/ (phase[q] \in Gone /\ w[i] = Len(said[q]))
      BY <1>2, <1>3, <1>4, <1>7, <1>12, <2>1
    <3>2. CASE GoodbyeTyped(q)
      BY <3>2 DEF Queueing
    <3>3. CASE phase[q] \in Gone /\ w[i] = Len(said[q])
      <4>1. d \in Control /\ phase'[q] \in Gone
        BY <3>3 DEF Queueing, Gone
      <4> QED
        BY <1>6, <3>3, <4>1 DEF k
    <3> QED
      BY <3>1, <3>2, <3>3
  <2>2. CASE i = n
    <3>1. d = "GOODBYE"
      BY <1>2, <1>12, <2>2
    <3> QED
      BY <1>5, <1>6, <2>2, <3>1 DEF Queueing
  <2> QED
    BY <1>3, <2>1, <2>2
<1>13. Other(q)' = o
  BY DEF Other, o
<1>14. w[0] = 0 /\ w[n] = Len(said'[q])
  BY <1>3, <1>4, <1>5, <1>6, <1>7
<1>15. Counts(q, w)'
  BY <1>2, <1>5, <1>8, <1>9, <1>10, <1>11, <1>12, <1>13, <1>14 DEF Counts
<1> QED
  BY <1>15

\* The lines stay counted.
LEMMA CountedStep == IInv /\ [Next]_vars => LinesCounted'
<1> SUFFICES ASSUME IInv, [Next]_vars, NEW q \in Peer
             PROVE  \E w : Counts(q, w)'
  BY DEF LinesCounted
<1> USE DEF IInv
<1> DEFINE o == Other(q)
<1>1. o \in Peer /\ o # q /\ Other(o) = q /\ \A p \in Peer : p = q \/ p = o
  BY OtherEnd
<1>2. PICK m : Counts(q, m)
  BY DEF LinesCounted
<1>3. phase[q] \in Gone => phase'[q] \in Gone
  BY PhaseStep
<1>4. Len(shown[o]) = m[Len(rcvd[o])] /\ m \in [Nat -> Nat]
  BY <1>2 DEF Counts
<1> HIDE DEF o
<1>5. ASSUME NEW d, Queueing(q, d) PROVE \E w : Counts(q, w)'
  BY <1>2, <1>5, CountsQueued
<1>6. ASSUME NEW d, Queueing(o, d) PROVE Counts(q, m)'
  <2>1. Size(q)' = Size(q) /\ \A i \in 1..Size(q) : At(q, i)' = At(q, i)
    BY <1>1, <1>6, QueueStream DEF Queueing
  <2>2. said'[q] = said[q] /\ (GoodbyeTyped(q) => GoodbyeTyped(q)')
    BY <1>1, <1>6 DEF Queueing, TypeOK
  <2>3. UNCHANGED <<rcvd, shown>>
    BY <1>6 DEF Queueing
  <2>4. Len(shown'[Other(q)]) = m[Len(rcvd'[Other(q)])]
    BY <1>4, <2>3 DEF o
  <2> QED
    BY <1>2, <1>3, <2>1, <2>2, <2>4, CountsKept
<1>7. ASSUME Size(q)' = Size(q), \A i \in 1..Size(q) : At(q, i)' = At(q, i),
             UNCHANGED <<said, typed>>, Len(shown'[o]) = m[Len(rcvd'[o])]
      PROVE  Counts(q, m)'
  <2>1. GoodbyeTyped(q) => GoodbyeTyped(q)'
    BY <1>7 DEF GoodbyeTyped
  <2>2. Len(shown'[Other(q)]) = m[Len(rcvd'[Other(q)])]
    BY <1>7 DEF o
  <2> QED
    BY <1>2, <1>3, <1>7, <2>1, <2>2, CountsKept
<1>8. ASSUME PunchRecv(q) \/ ChatRecv(q) PROVE Len(shown'[o]) = m[Len(rcvd'[o])]
  <2>1. rcvd'[o] = rcvd[o]
    BY <1>1, <1>8, ReadStream DEF PunchRecv, ChatRecv, taskVars
  <2>2. shown'[o] = shown[o]
    BY <1>1, <1>8 DEF PunchRecv, ChatRecv, TypeOK
  <2> QED
    BY <1>4, <2>1, <2>2
<1>9. ASSUME PunchRecv(o) \/ ChatRecv(o) PROVE Len(shown'[o]) = m[Len(rcvd'[o])]
  <2> DEFINE n == Len(rcvd[o]) + 1
  <2>1. /\ Len(rcvd'[o]) = n /\ Incoming(o) = At(q, n) /\ n \in 1..Size(q)
        /\ Incoming(o) \in Data
    BY <1>1, <1>9, ReadStream DEF PunchRecv, ChatRecv, taskVars
  <2>2. n - 1 = Len(rcvd[o]) /\ Len(rcvd[o]) \in Nat /\ shown[o] \in Seq(Data)
    BY <1>1, Lengths
  <2> HIDE DEF n
  <2>3. m[n] = IF At(q, n) \in Control THEN m[Len(rcvd[o])] ELSE m[Len(rcvd[o])] + 1
    BY <1>2, <2>1, <2>2 DEF Counts
  <2>4. CASE Incoming(o) \in Control
    <3>1. shown' = shown
      BY <1>9, <2>4 DEF PunchRecv, ChatRecv
    <3> QED
      BY <1>4, <2>1, <2>3, <2>4, <3>1
  <2>5. CASE Incoming(o) \notin Control
    <3>1. ChatRecv(o)
      BY <1>1, <1>9, <2>5, NoLineWhilePunching
    <3>2. shown'[o] = Append(shown[o], Incoming(o))
      BY <1>1, <2>5, <3>1 DEF ChatRecv, TypeOK
    <3>3. Len(shown'[o]) = Len(shown[o]) + 1
      BY <2>1, <2>2, <3>2
    <3> QED
      BY <1>4, <2>1, <2>3, <2>5, <3>3
  <2> QED
    BY <2>4, <2>5
<1>10. CASE \E p \in Peer : \E d : Queueing(p, d)
  BY <1>1, <1>5, <1>6, <1>10
<1>11. UNCHANGED <<rcvd, shown>> => Len(shown'[o]) = m[Len(rcvd'[o])]
  BY <1>4
<1> QED
  BY <1>1, <1>7, <1>8, <1>9, <1>10, <1>11, OtherStep

\* What is printed next is the next line.
LEMMA MatchStep == IInv /\ [Next]_vars => LinesMatch'
<1> SUFFICES ASSUME IInv, [Next]_vars, NEW p \in Peer
             PROVE  /\ Len(shown'[p]) <= Len(said'[Other(p)])
                    /\ \A k \in 1..Len(shown'[p]) :
                          shown'[p][k] = said'[Other(p)][k]
  BY DEF LinesMatch
<1> USE DEF IInv
<1> DEFINE q == Other(p)
<1>1. q \in Peer /\ q # p /\ Other(q) = p /\ \A r \in Peer : r = p \/ r = q
  BY OtherEnd
<1>2. /\ Len(shown[p]) <= Len(said[q])
      /\ \A k \in 1..Len(shown[p]) : shown[p][k] = said[q][k]
  BY DEF LinesMatch
<1>3. /\ shown[p] \in Seq(Data) /\ said[q] \in Seq(Data)
      /\ Len(shown[p]) \in Nat /\ Len(said[q]) \in Nat
      /\ said \in [Peer -> Seq(Data)] /\ shown \in [Peer -> Seq(Data)]
  BY <1>1, Lengths DEF TypeOK
<1> HIDE DEF q
<1> SUFFICES /\ Len(shown'[p]) <= Len(said'[q])
             /\ \A k \in 1..Len(shown'[p]) : shown'[p][k] = said'[q][k]
  BY DEF q
<1>4. ASSUME UNCHANGED shown,
             said'[q] = said[q] \/ \E d \in Data : said'[q] = Append(said[q], d)
      PROVE  /\ Len(shown'[p]) <= Len(said'[q])
             /\ \A k \in 1..Len(shown'[p]) : shown'[p][k] = said'[q][k]
  <2>1. CASE said'[q] = said[q]
    BY <1>2, <1>4, <2>1
  <2>2. ASSUME NEW d \in Data, said'[q] = Append(said[q], d)
        PROVE  /\ Len(shown'[p]) <= Len(said'[q])
               /\ \A k \in 1..Len(shown'[p]) : shown'[p][k] = said'[q][k]
    <3>1. /\ Len(Append(said[q], d)) = Len(said[q]) + 1
          /\ \A i \in 1..Len(said[q]) : Append(said[q], d)[i] = said[q][i]
      BY <1>3
    <3>2. 1..Len(shown[p]) \subseteq 1..Len(said[q])
      BY <1>2, <1>3
    <3>3. Len(shown[p]) <= Len(said[q]) + 1
      BY <1>2, <1>3
    <3> QED
      BY <1>2, <1>4, <2>2, <3>1, <3>2, <3>3
  <2> QED
    BY <1>4, <2>1, <2>2
<1>5. ASSUME NEW r \in Peer, NEW d, Queueing(r, d)
      PROVE  /\ UNCHANGED shown
             /\ said'[q] = said[q] \/ \E e \in Data : said'[q] = Append(said[q], e)
  BY <1>1, <1>3, <1>5 DEF Queueing
<1>6. ASSUME UNCHANGED said, shown'[p] = shown[p]
      PROVE  /\ Len(shown'[p]) <= Len(said'[q])
             /\ \A k \in 1..Len(shown'[p]) : shown'[p][k] = said'[q][k]
  BY <1>2, <1>6
<1>7. ASSUME ChatRecv(p), UNCHANGED said, Incoming(p) \notin Control
      PROVE  /\ Len(shown'[p]) <= Len(said'[q])
             /\ \A k \in 1..Len(shown'[p]) : shown'[p][k] = said'[q][k]
  <2> DEFINE n == Len(rcvd[p]) + 1
  <2>1. /\ Incoming(p) = At(q, n) /\ n \in 1..Size(q) /\ Incoming(p) \in Data
    BY <1>1, <1>7, ReadStream DEF ChatRecv, taskVars, q
  <2>2. /\ n - 1 = Len(rcvd[p]) /\ n \in 0..Size(q) /\ n - 1 \in Nat
    <3>1. Len(rcvd[p]) \in Nat /\ Size(q) \in Nat
      BY <1>1, Lengths
    <3> QED
      BY <2>1, <3>1
  <2> HIDE DEF n
  <2>3. PICK m : Counts(q, m)
    BY <1>1 DEF LinesCounted
  <2>4. /\ m \in [Nat -> Nat] /\ m[n] = m[n - 1] + 1 /\ m[n] <= Len(said[q])
        /\ said[q][m[n]] = Incoming(p) /\ Len(shown[p]) = m[n - 1]
    BY <1>1, <1>7, <2>1, <2>2, <2>3 DEF Counts
  <2>5. shown'[p] = Append(shown[p], Incoming(p))
    BY <1>3, <1>7 DEF ChatRecv
  <2>6. /\ Len(shown'[p]) = Len(shown[p]) + 1
        /\ shown'[p][Len(shown[p]) + 1] = Incoming(p)
        /\ \A i \in 1..Len(shown[p]) : shown'[p][i] = shown[p][i]
    BY <1>3, <2>1, <2>5
  <2>7. Len(shown[p]) + 1 = m[n]
    BY <2>2, <2>4
  <2>8. \A k \in 1..(Len(shown[p]) + 1) : k \in 1..Len(shown[p]) \/ k = Len(shown[p]) + 1
    BY <1>3
  <2> QED
    BY <1>2, <1>7, <2>4, <2>6, <2>7, <2>8
<1>8. ASSUME NEW r \in Peer, PunchRecv(r) \/ ChatRecv(r),
             ~(r = p /\ ChatRecv(r) /\ Incoming(p) \notin Control)
      PROVE  shown'[p] = shown[p]
  BY <1>1, <1>3, <1>8 DEF PunchRecv, ChatRecv
<1> QED
  BY <1>4, <1>5, <1>6, <1>7, <1>8, OtherStep

\* An end closes at the GOODBYE it reads, and reads nothing after it.
LEMMA ClosedStep == IInv /\ [Next]_vars => ClosedByGoodbye'
<1> SUFFICES ASSUME IInv, [Next]_vars, NEW p \in Peer, phase'[p] = "closed"
             PROVE  (Len(rcvd[p]) > 0 /\ At(Other(p), Len(rcvd[p])) = "GOODBYE")'
  BY DEF ClosedByGoodbye
<1> USE DEF IInv
<1> DEFINE q == Other(p)
<1>1. q \in Peer /\ q # p /\ q' = q
  BY OtherEnd DEF Other
<1>2. /\ Len(rcvd[p]) \in Nat /\ Len(rcvd[p]) <= Len(sent[q])
      /\ Len(sent[q]) \in Nat /\ Len(sent[q]) <= Size(q) /\ Size(q) \in Nat
  BY <1>1, Lengths DEF ReadsWhatWasSent
<1> HIDE DEF q
<1> SUFFICES Len(rcvd'[p]) > 0 /\ \A i : i = Len(rcvd'[p]) => At(q, i)' = "GOODBYE"
  BY <1>1 DEF q
<1>3. CASE ChatRecv(p) /\ phase[p] # "closed"
  <2>1. /\ Len(rcvd'[p]) = Len(rcvd[p]) + 1
        /\ Incoming(p) = At(q, Len(rcvd[p]) + 1)
        /\ Len(rcvd[p]) + 1 \in 1..Size(q)
    BY <1>3, ReadStream DEF ChatRecv, taskVars, q
  <2>2. Incoming(p) = "GOODBYE"
    BY <1>3 DEF ChatRecv
  <2> QED
    BY <1>1, <1>2, <2>1, <2>2, StreamKept
<1>4. CASE phase[p] = "closed"
  <2>1. rcvd'[p] = rcvd[p]
    <3>1. ASSUME NEW r \in Peer, PunchRecv(r) \/ ChatRecv(r) PROVE r # p
      BY <1>4, <3>1 DEF PunchRecv, ChatRecv
    <3>2. ASSUME NEW r \in Peer, PunchRecv(r) \/ ChatRecv(r) PROVE rcvd'[p] = rcvd[p]
      BY <3>1, <3>2, ReadStream DEF PunchRecv, ChatRecv, taskVars
    <3>3. ASSUME NEW r \in Peer, NEW d, Queueing(r, d) PROVE rcvd'[p] = rcvd[p]
      BY <3>3 DEF Queueing
    <3> QED
      BY <3>2, <3>3, OtherStep
  <2>2. Len(rcvd[p]) > 0 /\ At(q, Len(rcvd[p])) = "GOODBYE"
    BY <1>4 DEF ClosedByGoodbye, q
  <2>3. Len(rcvd[p]) \in 1..Size(q)
    BY <1>2, <2>2
  <2> QED
    BY <1>1, <2>1, <2>2, <2>3, StreamKept
<1> QED
  BY <1>3, <1>4, PhaseStep

(***************************************************************************)
(* The theorems.                                                           *)
(***************************************************************************)

\* Two ends that have not started satisfy the invariant.
LEMMA IInvInit == Init => IInv
<1> SUFFICES ASSUME Init PROVE IInv
  OBVIOUS
<1> USE SessionAssumption
<1>1. TypeOK
  <2>1. <<>> \in Seq(Data) /\ Len(<<>>) = 0 /\ \A p \in Peer : Len(Script[p]) \in Nat
    OBVIOUS
  <2>2. [p \in Peer |-> <<>>] \in [Peer -> Seq(Data)]
    BY <2>1
  <2>3. /\ punched \in [Peer -> 0..Punches] /\ kept \in [Peer -> 0..MaxKeepAlive]
        /\ typed \in [Peer -> Nat]
    BY DEF Init
  <2> QED
    BY <2>1, <2>2, <2>3 DEF Init, ChanInit, TypeOK
<1>2. \A p \in Peer : /\ Len(sent[p]) = 0 /\ Len(rcvd[p]) = 0 /\ Len(said[p]) = 0
                      /\ Len(shown[p]) = 0 /\ Size(p) = 0 /\ phase[p] = "start"
  <2>1. ASSUME NEW p \in Peer
        PROVE  /\ sent[p] = <<>> /\ rcvd[p] = <<>> /\ said[p] = <<>>
               /\ shown[p] = <<>> /\ packets[p] = <<>> /\ phase[p] = "start"
    BY DEF Init, ChanInit
  <2>2. Len(<<>>) = 0
    OBVIOUS
  <2>3. ASSUME NEW p \in Peer PROVE Size(p) = 0
    <3>1. Len(sent[p]) = 0 /\ Len(packets[p]) = 0
      BY <2>1, <2>2
    <3> QED
      BY <1>1, <3>1 DEF Size, TypeOK
  <2> QED
    BY <2>1, <2>2, <2>3
<1>3. ReadsWhatWasSent /\ LinesMatch
  BY <1>2, OtherEnd DEF ReadsWhatWasSent, LinesMatch
<1>4. ConnectedFirst /\ NotWoken /\ ClosedByGoodbye
  BY <1>2 DEF ConnectedFirst, NotWoken, ClosedByGoodbye, Confirmed
<1>5. ASSUME NEW q \in Peer PROVE \E m : Counts(q, m)
  <2> DEFINE m == [i \in Nat |-> 0]
  <2>1. m \in [Nat -> Nat] /\ m[0] = 0
    OBVIOUS
  <2>2. Other(q) \in Peer
    BY OtherEnd
  <2> HIDE DEF m
  <2>3. Size(q) = 0 /\ Len(said[q]) = 0 /\ 1..0 = {} /\ 0..0 = {0}
    BY <1>2
  <2>4. Len(shown[Other(q)]) = 0 /\ Len(rcvd[Other(q)]) = 0
    BY <1>2, <2>2
  <2>5. Counts(q, m)
    BY <2>1, <2>3, <2>4 DEF Counts
  <2> QED
    BY <2>5
<1> QED
  BY <1>1, <1>3, <1>4, <1>5 DEF IInv, LinesCounted

\* The inductive invariant holds in every state of the two processes.
THEOREM Invariance == Spec => []IInv
<1>1. IInv /\ [Next]_vars => IInv'
  BY TypeStep, ReadsStep, ConnectedStep, NotWokenStep, CountedStep, MatchStep,
     ClosedStep
  DEF IInv
<1> QED
  BY IInvInit, <1>1, PTL DEF Spec

\* The variables of the two ends keep their types; packet_tx never holds more
\* than its capacity.
THEOREM TypeCorrect == Spec => []TypeOK
<1>1. IInv => TypeOK
  BY DEF IInv
<1> QED
  BY Invariance, <1>1, PTL

\* start_chat prints the other user's lines in the order typed, none twice and
\* none left out before a later one, whatever the punch, keep-alive and send
\* tasks do in between: hole_punching_wan throws no line away.
THEOREM ChatCorrect == Spec => []ChatInOrder
<1>1. ASSUME IInv PROVE ChatInOrder
  <2> SUFFICES ASSUME NEW p \in Peer PROVE IsPrefix(shown[p], said[Other(p)])
    BY DEF ChatInOrder
  <2>1. /\ Len(shown[p]) <= Len(said[Other(p)])
        /\ \A k \in 1..Len(shown[p]) : shown[p][k] = said[Other(p)][k]
        /\ shown[p] \in Seq(Data) /\ said[Other(p)] \in Seq(Data)
    BY <1>1, OtherEnd, Lengths DEF IInv, LinesMatch
  <2>2. ASSUME NEW s \in Seq(Data), NEW t \in Seq(Data), Len(s) <= Len(t),
               \A k \in 1..Len(s) : s[k] = t[k]
        PROVE  SubSeq(s, 1, Len(s)) = SubSeq(t, 1, Len(s))
    BY <2>2
  <2> QED
    BY <2>1, <2>2 DEF IsPrefix
<1> QED
  BY Invariance, <1>1, PTL

\* The process exits on a GOODBYE of the other user only, and when that came of
\* the line "exit", all lines typed before it are on the screen.
THEOREM ClosedCorrect == Spec => []ClosedAfterLastLine
<1>1. ASSUME IInv PROVE ClosedAfterLastLine
  <2> USE <1>1 DEF IInv
  <2> DEFINE TypedGoodbye(q) == "GOODBYE" \in Range(SubSeq(Script[q], 1, typed[q]))
  <2> SUFFICES ASSUME NEW p \in Peer, phase[p] = "closed"
               PROVE  \/ TypedGoodbye(Other(p))
                      \/ /\ phase[Other(p)] \in {"leaving", "exited", "closed"}
                         /\ shown[p] = said[Other(p)]
    BY DEF ClosedAfterLastLine
  <2> DEFINE q == Other(p)
             n == Len(rcvd[p])
  <2>1. /\ q \in Peer /\ Other(q) = p
    BY OtherEnd
  <2>2. n > 0 /\ At(q, n) = "GOODBYE" /\ n \in 1..Size(q)
    <3>1. n > 0 /\ At(q, n) = "GOODBYE"
      BY DEF ClosedByGoodbye
    <3>2. /\ n \in Nat /\ n <= Len(sent[q]) /\ Len(sent[q]) <= Size(q)
          /\ Len(sent[q]) \in Nat /\ Size(q) \in Nat
      BY <2>1, Lengths DEF ReadsWhatWasSent
    <3> HIDE DEF n
    <3> QED
      BY <3>1, <3>2
  <2>3. PICK m : Counts(q, m)
    BY <2>1 DEF LinesCounted
  <2>4. GoodbyeTyped(q) \/ (phase[q] \in Gone /\ m[n] = Len(said[q]))
    BY <2>2, <2>3 DEF Counts
  <2>5. CASE GoodbyeTyped(q)
    <3>1. /\ typed[q] \in Nat /\ Script[q] \in Seq(Data) /\ typed[q] <= Len(Script[q])
      BY <2>1, SessionAssumption DEF TypeOK
    <3>2. PICK i \in 1..typed[q] : Script[q][i] = "GOODBYE"
      BY <2>5 DEF GoodbyeTyped
    <3>3. ASSUME NEW s \in Seq(Data), NEW k \in Nat, k <= Len(s), NEW j \in 1..k
          PROVE  j \in DOMAIN SubSeq(s, 1, k) /\ SubSeq(s, 1, k)[j] = s[j]
      BY <3>3
    <3>4. /\ i \in DOMAIN SubSeq(Script[q], 1, typed[q])
          /\ SubSeq(Script[q], 1, typed[q])[i] = "GOODBYE"
      BY <3>1, <3>2, <3>3
    <3> QED
      BY <3>4 DEF Range
  <2>6. CASE phase[q] \in Gone /\ m[n] = Len(said[q])
    <3>1. Len(shown[p]) = Len(said[q])
      BY <2>1, <2>3, <2>6 DEF Counts
    <3>2. /\ \A k \in 1..Len(shown[p]) : shown[p][k] = said[q][k]
          /\ shown[p] \in Seq(Data) /\ said[q] \in Seq(Data)
      BY <2>1, Lengths DEF LinesMatch
    <3>3. ASSUME NEW s \in Seq(Data), NEW t \in Seq(Data), Len(s) = Len(t),
                 \A k \in 1..Len(s) : s[k] = t[k]
          PROVE  s = t
      BY <3>3
    <3>4. shown[p] = said[q]
      BY <3>1, <3>2, <3>3
    <3> QED
      BY <2>6, <3>4 DEF Gone
  <2> QED
    BY <2>4, <2>5, <2>6
<1> QED
  BY Invariance, <1>1, PTL
=============================================================================
