------------------------------- MODULE Relay -------------------------------
(***************************************************************************)
(* What a relay promises: a datagram it has accepted leaves at most once,  *)
(* and only to the other endpoint of a session of its sender.  It may drop *)
(* any datagram.  There are no shards, queues or rings here, only slots in *)
(* which accepted datagrams wait.                                          *)
(***************************************************************************)

CONSTANTS
  Client,      \* addresses
  NoClient,    \* not an address
  Slot         \* places for datagrams

VARIABLES
  sessions,    \* pairs of addresses, as sets
  held,        \* held[b]: who sent the datagram in slot b, NoClient if none
  relayed      \* <<sender, receiver>> of the datagrams that have left

relayVars == <<sessions, held, relayed>>

RelayInit ==
  /\ sessions \in SUBSET {{x, y} : x, y \in Client}
  /\ held = [b \in Slot |-> NoClient]
  /\ relayed = {}

Register(x, y) ==
  /\ sessions' = sessions \union {{x, y}}
  /\ UNCHANGED <<held, relayed>>

Accept(b, src) ==
  /\ held[b] = NoClient
  /\ held' = [held EXCEPT ![b] = src]
  /\ UNCHANGED <<sessions, relayed>>

Forward(b, dst) ==
  /\ held[b] # NoClient
  /\ {held[b], dst} \in sessions
  /\ relayed' = relayed \union {<<held[b], dst>>}
  /\ held' = [held EXCEPT ![b] = NoClient]
  /\ UNCHANGED sessions

Drop(b) ==
  /\ held[b] # NoClient
  /\ held' = [held EXCEPT ![b] = NoClient]
  /\ UNCHANGED <<sessions, relayed>>

RelayNext ==
  \/ \E x, y \in Client : Register(x, y)
  \/ \E b \in Slot : \/ \E c \in Client : Accept(b, c) \/ Forward(b, c)
                     \/ Drop(b)

RelaySpec == RelayInit /\ [][RelayNext]_relayVars

=============================================================================
