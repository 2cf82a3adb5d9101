--------------------------- MODULE MC_PeerSession ---------------------------
EXTENDS PeerSession, TLC
CONSTANTS a, b, t1, t2

MCPeer == {a, b}
MCData == Control \union {t1, t2}

\* One user types two lines, the other one a word of the protocol.
TwoAndGoodbye == (a :> <<t1, t2>>) @@ (b :> <<"GOODBYE">>)
=============================================================================
