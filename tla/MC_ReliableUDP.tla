--------------------------- MODULE MC_ReliableUDP ---------------------------
EXTENDS ReliableUDP, TLC
CONSTANTS a, b, d1, d2

MCPeer == {a, b}
MCData == {d1, d2}

\* Both ends send and receive at once.
TwoOne == (a :> <<d1, d2>>) @@ (b :> <<d1>>)
OneOne == (a :> <<d1>>) @@ (b :> <<d2>>)

\* One end sends, the other only receives.
TwoNone == (a :> <<d1, d2>>) @@ (b :> <<>>)
=============================================================================
