---------------------------- MODULE PeerSession ----------------------------
(***************************************************************************)
(* peer/src/main.rs after the rendezvous: hole_punching_wan and start_chat *)
(* of both ends, over the channel that the reliable UDP layer implements   *)
(* (ReliableUDP!ImplementsChannel).                                        *)
(*                                                                         *)
(* An end is one process with several tasks: the main task, the punch task *)
(* and the keep-alive task put payloads on packet_tx; the send task moves  *)
(* them into the channel; the main task, later the receiver task, reads    *)
(* output_rx.  Ending the process ends them all, with whatever is still on *)
(* packet_tx, and no notice to the other end but a GOODBYE that happens to *)
(* get out in time.                                                        *)
(*                                                                         *)
(* Handover(p) of the channel is the moment p's application takes the next *)
(* payload off output_rx; packets without payload are skipped there.       *)
(*                                                                         *)
(* An operator A_Fault just before A is A with a bug a programmer could    *)
(* have made.  No specification uses it: putting it in A's place shows     *)
(* that a property below can fail.                                         *)
(***************************************************************************)
EXTENDS ReliableChannel, SequencesExt

CONSTANTS
  Script,        \* Script[p]: the non-empty lines p's user may type in the chat
  Punches,       \* how many punches are sent: 0..=5
  PacketCap,     \* capacity of packet_tx: mpsc::channel(100)
  MaxKeepAlive   \* bound: keep-alives an end sends

\* The payloads that mean something to the program; the rest of Data is text.
Control == {"HOLE_PUNCH", "CONNECTED", "KEEP_ALIVE", "GOODBYE"}

ASSUME SessionAssumption ==
  /\ Control \subseteq Data
  /\ Script \in [Peer -> Seq(Data)]
  /\ {Punches, PacketCap} \subseteq Nat \ {0}
  /\ MaxKeepAlive \in Nat

VARIABLES
  phase,     \* where p's main task is
  packets,   \* packets[p]: what is on packet_tx
  punched,   \* how many punches the punch task has queued
  kept,      \* how many keep-alives the keep-alive task has queued
  typed,     \* how many lines of Script[p] have been queued
  said,      \* history: those of them that are text, not a control word
  shown      \* history: the lines printed on p's screen

taskVars == <<packets, punched, kept, typed, said>>
vars     == <<sent, rcvd, phase, packets, punched, kept, typed, said, shown>>

Running == {"punch", "confirm", "chat", "leaving"}
Ended   == {"timed_out", "exited", "closed"}

TypeOK ==
  /\ sent \in [Peer -> Seq(Data)] /\ rcvd \in [Peer -> Seq(Data)]
  /\ phase \in [Peer -> {"start"} \union Running \union Ended]
  /\ packets \in [Peer -> Seq(Data)]
  /\ \A p \in Peer : Len(packets[p]) <= PacketCap
  /\ punched \in [Peer -> 0..Punches]
  /\ kept \in [Peer -> 0..MaxKeepAlive]
  /\ typed \in [Peer -> Nat] /\ \A p \in Peer : typed[p] <= Len(Script[p])
  /\ said \in [Peer -> Seq(Data)] /\ shown \in [Peer -> Seq(Data)]

Init ==
  /\ ChanInit
  /\ phase = [p \in Peer |-> "start"]
  /\ packets = [p \in Peer |-> <<>>]
  /\ punched = [p \in Peer |-> 0]
  /\ kept = [p \in Peer |-> 0]
  /\ typed = [p \in Peer |-> 0]
  /\ said = [p \in Peer |-> <<>>] /\ shown = [p \in Peer |-> <<>>]

Goto(p, ph) == phase' = [phase EXCEPT ![p] = ph]

\* Fault: an unbounded channel.
Queue_Unbounded(p, d) == packets' = [packets EXCEPT ![p] = Append(@, d)]

\* handle.send(..).await: waits for room.
Queue(p, d) ==
  /\ Len(packets[p]) < PacketCap
  /\ packets' = [packets EXCEPT ![p] = Append(@, d)]

\* What output_rx.recv() yields next at p, when there is something.
Incoming(p) == sent[Other(p)][Len(rcvd[p]) + 1]

\* The rendezvous has given p the other's address: the tasks are spawned.
\* The two ends get there at different times, and one may never.
Start(p) ==
  /\ phase[p] = "start"
  /\ Goto(p, "punch")
  /\ UNCHANGED <<chanVars, taskVars, shown>>

(***************************************************************************)
(* The tasks beside the main one.                                          *)
(***************************************************************************)

\* ReliableOneWayUDPHandle::send takes a payload off packet_rx.
SendTask(p) ==
  /\ phase[p] \in Running
  /\ packets[p] # <<>>
  /\ Submit(p) /\ Last(sent'[p]) = Head(packets[p])
  /\ packets' = [packets EXCEPT ![p] = Tail(@)]
  /\ UNCHANGED <<phase, punched, kept, typed, said, shown>>

\* Fault: punching waits until the other end has been heard.
Punch_WhenHeard(p) ==
  /\ phase[p] \in Running \ {"punch"}
  /\ punched[p] < Punches
  /\ Queue(p, "HOLE_PUNCH")
  /\ punched' = [punched EXCEPT ![p] = @ + 1]
  /\ UNCHANGED <<chanVars, phase, kept, typed, said, shown>>

\* The punch task goes on while the main task is in the chat already.
Punch(p) ==
  /\ phase[p] \in Running
  /\ punched[p] < Punches
  /\ Queue(p, "HOLE_PUNCH")
  /\ punched' = [punched EXCEPT ![p] = @ + 1]
  /\ UNCHANGED <<chanVars, phase, kept, typed, said, shown>>

KeepAlive(p) ==
  /\ phase[p] \in {"chat", "leaving"}
  /\ kept[p] < MaxKeepAlive
  /\ Queue(p, "KEEP_ALIVE")
  /\ kept' = [kept EXCEPT ![p] = @ + 1]
  /\ UNCHANGED <<chanVars, phase, punched, typed, said, shown>>

(***************************************************************************)
(* hole_punching_wan.                                                      *)
(***************************************************************************)

\* The receive loop: a punch or a confirmation ends it, anything else is
\* thrown away.
PunchRecv(p) ==
  /\ phase[p] = "punch"
  /\ Handover(p)
  /\ Goto(p, IF Incoming(p) \in {"HOLE_PUNCH", "CONNECTED"}
             THEN "confirm"
             ELSE "punch")
  /\ UNCHANGED <<taskVars, shown>>

\* Fault: the chat starts without telling the other end.
Confirm_Silent(p) ==
  /\ phase[p] = "confirm"
  /\ Goto(p, "chat")
  /\ UNCHANGED <<chanVars, taskVars, shown>>

\* The confirmation is queued, then the chat starts.
Confirm(p) ==
  /\ phase[p] = "confirm"
  /\ Queue(p, "CONNECTED")
  /\ Goto(p, "chat")
  /\ UNCHANGED <<chanVars, punched, kept, typed, said, shown>>

\* Five seconds have passed: the punch task is aborted and main returns.
Timeout(p) ==
  /\ phase[p] = "punch"
  /\ Goto(p, "timed_out")
  /\ UNCHANGED <<chanVars, taskVars, shown>>

(***************************************************************************)
(* start_chat.                                                             *)
(***************************************************************************)
Type(p) ==
  /\ phase[p] = "chat"
  /\ typed[p] < Len(Script[p])
  /\ LET line == Script[p][typed[p] + 1]
     IN  /\ Queue(p, line)
         /\ said' = IF line \in Control
                    THEN said
                    ELSE [said EXCEPT ![p] = Append(@, line)]
  /\ typed' = [typed EXCEPT ![p] = @ + 1]
  /\ UNCHANGED <<chanVars, phase, punched, kept, shown>>

\* Fault: GOODBYE overtakes the lines that wait for the send task.
Exit_Urgent(p) ==
  /\ phase[p] = "chat"
  /\ Len(packets[p]) < PacketCap
  /\ packets' = [packets EXCEPT ![p] = <<"GOODBYE">> \o @]
  /\ Goto(p, "leaving")
  /\ UNCHANGED <<chanVars, punched, kept, typed, said, shown>>

\* The line "exit": GOODBYE is queued and the loop left.
Exit(p) ==
  /\ phase[p] = "chat"
  /\ Queue(p, "GOODBYE")
  /\ Goto(p, "leaving")
  /\ UNCHANGED <<chanVars, punched, kept, typed, said, shown>>

\* main returns: the runtime is dropped with all its tasks.
Leave(p) ==
  /\ phase[p] = "leaving"
  /\ Goto(p, "exited")
  /\ UNCHANGED <<chanVars, taskVars, shown>>

\* Fault: a leftover of hole punching ends the receiver task.
ChatRecv_Break(p) ==
  /\ phase[p] \in {"chat", "leaving"}
  /\ Handover(p)
  /\ Incoming(p) \notin {"CONNECTED", "HOLE_PUNCH"}
  /\ shown' = IF Incoming(p) \in Control
              THEN shown
              ELSE [shown EXCEPT ![p] = Append(@, Incoming(p))]
  /\ IF Incoming(p) = "GOODBYE" THEN Goto(p, "closed") ELSE UNCHANGED phase
  /\ UNCHANGED taskVars

\* The receiver task prints text, ignores leftovers of hole punching and
\* keep-alives, and exits the process on GOODBYE.
ChatRecv(p) ==
  /\ phase[p] \in {"chat", "leaving"}
  /\ Handover(p)
  /\ shown' = IF Incoming(p) \in Control
              THEN shown
              ELSE [shown EXCEPT ![p] = Append(@, Incoming(p))]
  /\ IF Incoming(p) = "GOODBYE" THEN Goto(p, "closed") ELSE UNCHANGED phase
  /\ UNCHANGED taskVars

Next ==
  \E p \in Peer :
     \/ Start(p) \/ SendTask(p) \/ Punch(p) \/ KeepAlive(p)
     \/ PunchRecv(p) \/ Confirm(p) \/ Timeout(p)
     \/ Type(p) \/ Exit(p) \/ Leave(p) \/ ChatRecv(p)

Spec == Init /\ [][Next]_vars

\* The tasks are polled by the runtime, and the layer below delivers what was
\* submitted as long as both processes run (EventuallyDelivered).  No timeout
\* has to happen, and no user has to type.
Fairness ==
  \A p \in Peer :
     /\ WF_vars(SendTask(p)) /\ WF_vars(Punch(p)) /\ WF_vars(Confirm(p))
     /\ WF_vars(phase[Other(p)] \in Running /\ (PunchRecv(p) \/ ChatRecv(p)))

FairSpec == Spec /\ Fairness

(***************************************************************************)
(* Properties.                                                             *)
(***************************************************************************)

\* What an end prints is a prefix of the text the other typed; a control word
\* typed as a line is not text, the other end does not print it.  The
\* punch loop, which throws away what it does not know, never meets a line:
\* the other end types only after its CONNECTED is queued.
ChatInOrder == \A p \in Peer : IsPrefix(shown[p], said[Other(p)])

\* A chat closed by the other peer was closed by its user, with exit or by
\* typing GOODBYE; and in the first case after all that user's lines had been
\* printed.
ClosedAfterLastLine ==
  \A p \in Peer : phase[p] = "closed" =>
     \/ "GOODBYE" \in Range(SubSeq(Script[Other(p)], 1, typed[Other(p)]))
     \/ /\ phase[Other(p)] \in {"leaving", "exited", "closed"}
        /\ shown[p] = said[Other(p)]

\* Two ends that both punch meet in the chat, unless one gives up: each one's
\* punches wake the other, whichever came first.
Established ==
  (\A p \in Peer : phase[p] = "punch") ~>
     \/ \A p \in Peer : phase[p] \in {"chat", "leaving"}
     \/ \E p \in Peer : phase[p] \in Ended

\* A line is printed at the other end, unless one of the two processes ends:
\* also when it was typed before the other end had noticed the connection.
LineIsShown ==
  \A p \in Peer : \A n \in 1..Len(Script[p]) :
     Len(said[p]) >= n ~>
        \/ Len(shown[Other(p)]) >= n
        \/ \E q \in Peer : phase[q] \in Ended

=============================================================================
