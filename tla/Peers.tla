------------------------------- MODULE Peers -------------------------------
(***************************************************************************)
(* The two ends of one connection.  The programs always talk in pairs: a   *)
(* host and a peer that joined its lobby, or the two endpoints of a relay  *)
(* session.                                                                *)
(***************************************************************************)

CONSTANT Peer

ASSUME PeerAssumption == \E x, y \in Peer : x # y /\ Peer = {x, y}

\* The address recv() and send() are given: the one other end of p.
Other(p) == CHOOSE q \in Peer : q # p

=============================================================================
