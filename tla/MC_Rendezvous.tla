---------------------------- MODULE MC_Rendezvous ----------------------------
EXTENDS Rendezvous, TLC
CONSTANTS h1, h2, c1, c2

OneHost    == {h1}
TwoHosts   == {h1, h2}
OneClient  == {c1}
TwoClients == {c1, c2}

\* The hosts among themselves, and the clients, are interchangeable.
Symmetry == Permutations(TwoHosts) \union Permutations(TwoClients)
=============================================================================
