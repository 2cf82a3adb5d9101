-------------------------- MODULE ReliableChannel --------------------------
(***************************************************************************)
(* What the reliable UDP layer promises its user: in each direction a      *)
(* first-in first-out channel that loses nothing, duplicates nothing and   *)
(* invents nothing.  There is no packet, sequence number, timer or buffer  *)
(* here.                                                                   *)
(***************************************************************************)
EXTENDS Peers, Naturals, Sequences

CONSTANT Data      \* the payloads an application may submit

VARIABLES
  sent,            \* sent[p]: the payloads p has submitted, in order
  rcvd             \* rcvd[p]: the payloads handed to p's application

chanVars == <<sent, rcvd>>

ChanInit ==
  /\ sent = [p \in Peer |-> <<>>]
  /\ rcvd = [p \in Peer |-> <<>>]

Submit(p) ==
  /\ \E d \in Data : sent' = [sent EXCEPT ![p] = Append(@, d)]
  /\ UNCHANGED rcvd

Handover(p) ==
  /\ Len(rcvd[p]) < Len(sent[Other(p)])
  /\ rcvd' = [rcvd EXCEPT ![p] = Append(@, sent[Other(p)][Len(@) + 1])]
  /\ UNCHANGED sent

ChanNext == \E p \in Peer : Submit(p) \/ Handover(p)

ChanSpec == ChanInit /\ [][ChanNext]_chanVars

=============================================================================
