---------------------------- MODULE MC_TurnServer ----------------------------
EXTENDS TurnServer
CONSTANTS A, B, C

Pair(x, y) == [host_addr |-> x, peer_addr |-> y]
TwoClients == {A, B}
ThreeClients == {A, B, C}
OnePair == {Pair(A, B)}
SharedHost == {Pair(A, B), Pair(A, C)}
=============================================================================
