---------------------------- MODULE MC_FirstImpl ----------------------------
EXTENDS FirstImpl
CONSTANTS X

\* The two endpoints of the session and a stranger.
ThreeClients == {HostAddr, PeerAddr, X}
=============================================================================
