# A TLA+ model of p2p-networking

This project models the concurrent and distributed core of the repository: the
reliable UDP layer two peers talk over, the hole punching and the chat they do
over it, the TURN relay built on io_uring in its two versions, and the rendezvous
server with the part of the peer that talks to it. TLC checks the models on small
instances; TLAPS proves every safety property the runs check, and the three
refinements, for all instances.

## 1. The system

| Component | Source | State it keeps | Operations | Module |
|---|---|---|---|---|
| Reliable UDP layer | `common/src/singleconnection.rs`, `common/src/lib.rs` | `SharedState` (expected and acknowledged numbers, reorder buffer, next number, unacked map), output channel (100), ACK channel | `recv`, `send`, `check_retransmission`, `periodic_acks` | `ReliableUDP` |
| TURN relay | `turn_server/src/lib.rs`, `main.rs` | buffer pool with live message headers and timings, router map, per-shard queue and session table, out channel, submission and completion queues | `create_session`, `io_uring_loop`, `Shard::run`, `handle_packet`, kernel operations | `TurnServer` |
| Rendezvous server | `rendezvous_stun_server/src` | session map, message channel (50), keep-alive tasks, timers | `udp_handler`, `RelayManager::handler`, `keep_alive` | `Rendezvous` |
| Peer, rendezvous phase | `peer/src/main.rs` 104-174 | phase, code, resulting address | `listen_to_relay`, `request_host_addr` | `Rendezvous` |
| Peer, hole punching and chat | `peer/src/main.rs` 176-353 | phase of the main task, packet channel (100), punch, keep-alive, send and receiver tasks, stdin | `hole_punching_wan`, `start_chat` | `PeerSession` |
| Older relay | `turn_server/src/bin/first_impl.rs` | one session, buffer pool, two blocking channels (1024), ring of 2048 entries | `io_uring_loop`, `Shard::run` | `FirstImpl` |
| Controller, test client, benchmark, build script | | none of the system's | drivers | not modelled |

How they interact. A host sends a create datagram to the rendezvous server and
shows the code it gets back; a client sends a join with that code, and the server
sends each side the other's address. Both then run the reliable layer towards
that address (four tasks per end, sharing atomics, two concurrent maps and two
channels) and punch a hole by sending data through it. The relay is separate: a
controller registers a pair of addresses by gRPC, and datagrams of either are
forwarded to the other. Inside it, one loop thread, the shard threads, the gRPC
runtime and the kernel exchange *buffer indices* through lock-free queues.
`readme.md` describes a fall-back from peer to relay; no code does that yet, so no
module composes the two. `common/src/lib.rs` also names a `multiconnection`
module that is not in the repository.

What is hard here, and cannot be reached by a unit test: loss, duplication and
reordering in the reliable layer while its output channel is full; counters that
move before the packet they stand for; wrap-around; ownership of a buffer
between four parties; a zero-copy send that completes twice; a submission queue
whose cached head is stale, and a kernel thread behind it that goes to sleep; a
router and shards that agree without a lock; two threads that block on each other;
a chat that starts on one side before the other has noticed; a server task that awaits another one inside its receive loop; single datagrams on
which everything hangs. `PROJECT.json` lists each at its line.

What makes each component correct:

- reliable layer: what an application reads is a prefix of what the other one
  submitted, and in the end all of it;
- hole punching and chat: two ends that stay meet; lines come out in order, none
  is eaten on the way, and a chat closed by GOODBYE was complete;
- relay, both versions: a buffer has one owner, a datagram leaves at most once and
  only to the session partner; in the newer one a packet meets the newest session
  of its sender and accepted sessions get installed, in the older one the threads
  never block on each other;
- rendezvous: whoever leaves has the address of its counterpart, the host is kept
  alive until it is joined and not for ever, the server never stops.

## 2. The modules

`Peers` has the two ends of a connection. `ReliableChannel` is the abstract
specification, one FIFO channel in each direction. `ReliableUDP` is the layer;
`PeerSession` runs over `ReliableChannel`. `Relay` is the abstract specification of a
relay, which `TurnServer` and `FirstImpl` both implement; `Tokens` has the encoding
of a ring entry's token, which they share. `Rendezvous` stands alone.

The proofs are in modules of their own: `ReliableUDPProof`, `PeerSessionProof`,
`RendezvousProof`, `FirstImplProof` and, for the newer relay, `TurnServerProof`
(types, buffers, panics), `TurnServerRouting` (sessions) and `TurnServerRefinement`.
`RelayLemmas` has what the relays' proofs share. An
`MC_` module names the model values and the sets of a `.cfg` file. Operators
named `A_Fault` are faulty versions of `A`: no specification uses them; putting
one in the place of `A` shows that a property can fail, and `PROJECT.json` pairs
each property with one.

### ReliableUDP

The variables carry the names of `SharedState`. A `DashMap` is a set of packets
with at most one per number. The `recv` task is cut where it awaits a channel:
`RecvEqual` takes the expected datagram in hand, `Output` is the return of
`output_tx.send`, followed by the counter updates and the ACK; `DrainHit` is one
round of the drain loop up to its await, `OutputBuffered` the await's return,
`DrainMiss` the end of the loop. `RecvGreater` and `RecvLess` are the other two
branches. `Send`, `CheckRetransmission` and `PeriodicAck` are the other tasks.
`Consume` is the application, `Lose` the network; a receive may leave a
duplicate behind. `output` is the whole history of the output channel, and
`Len(output) - consumed` what is in it.

Abstractions. A datagram is the record that `serialize` writes and `deserialize`
reads; a payload of no bytes reads back as none, so the two are one value. Which
entries a tick finds older than two seconds is a free choice. The ACK queue and
the network are sets: equal ACKs in the queue are merged, which changes only how
many copies are sent, and the network duplicates anyway. Datagrams from other
addresses or too short for a header are dropped by the code and left out.
Sequence numbers wrap at `MaxSeq` as in a release build (a debug build panics at
`packet_seq + 1` instead).

### PeerSession

Each end is a process with a `phase` (its main task) and tasks that put payloads
on `packets`, the channel `packet_tx`: `Punch`, `KeepAlive`, and the main task
itself with `Confirm`, `Type` and `Exit`. Each of them waits for room. `SendTask`
is the layer's `send` taking a payload, which in `ReliableChannel` is `Submit`;
`PunchRecv` and `ChatRecv` are the two readers of `output_rx`, each a `Handover`.
Using the abstract channel here is what `ImplementsChannel`, proved for the layer,
allows. `Timeout`, `Leave` and a received GOODBYE end the process with everything
still queued in it. A line is a member of `Data` that is not one of the four
control words; the code compares payloads only with those. A user may type a
control word, and the script of the run does. `said` is a history variable: the lines
typed so far that are text. Empty lines, which the code
ignores, are left out.

### Relay and Tokens

`Relay` has slots that hold an accepted datagram by its sender, a set of sessions
that grows, and the pairs that were relayed. `Accept`, `Forward`, `Drop` and
`Register` are all it does. In both refinement mappings a slot is a buffer and is
held as long as an occurrence of the buffer between the receive's completion and
the end of the send carries a datagram; `Forward` is the last completion of a
zero-copy send, the moment the datagram has left.

`Tokens` packs operation and index as `encode_token` does. Completions in both
relays carry only this number, and the loops decode it.

### FirstImpl

The same circulation of buffers, with blocking channels: `HandleRecv` waits in
`Route` while the shard's channel is full, `HandlePacket` while the out channel is.
`SendMsg` is one send of a batch of at most `MaxBatch`, `Flush` the `sync()` and
`submit()` behind a batch, `ReapNothing` the `submit_and_wait(0)` on an empty
completion queue, `Reap` the collecting of all completions in a vector before any
is processed. There is no polling thread: the kernel takes entries only in those
two calls, and only what the last `sync()` has published. `memory` is one cell, whose
datagram the buffer starts with: a send is of the whole buffer (`iov_len` is
`BUFFER_SIZE`, the length is not used), so an empty datagram leaves there what was
there before. `shard_for` returns 0
before its hash, so the three other shards never get a packet and are left out.

### TurnServer

A buffer index goes kernel -> `cq` -> `queue[s]` -> `out` -> `sq` -> kernel -> `cq`
and back. The loop's phases are `ControlMsg`/`ControlDone` (drain control
channel), `SendMsg` (drain out channel), `PublishTail`/`SyncDone` (the two halves
of `sq.sync()`, between which the kernel may run, and `cq.sync()`), and one action
per kind of completion. Shards run `AddSession` and `HandlePacket`. `visible` is
what the published tail covers, `cached` what `push()` believes is in use. The
kernel's actions are modelled from the interface the code uses: `KernelTake`
(SQPOLL thread, while `awake`), `KernelSleep` (its idle timeout; the loop makes no
call that wakes it, completions that run in its context do), `KernelRecv`, `KernelSend` (first completion, `more` set),
`KernelNotif` (second completion, the buffer is read until then) and
`KernelSendFail`. `slot` is the address in the buffer's message header, `memory`
its bytes in `BufSize` cells; a cell holds the address of the client that wrote
it. `wire` and `lost` are history variables.

Both maps of a shard are one: `table[s][a]` is `session_table[session_id[a]]`
(entries of replaced sessions are never read again). A failed receive leaves the
address empty, like the code's `0.0.0.0:0`. The constants stand for `POOL_SIZE`
1024 and the equal number of submission entries, a shard queue of 1499 places
(a heapless queue of 1500), an out channel of 2048, a control channel of 1024
(`ControlCap`; `create_session` waits while it is full) and `SHARD_NUM` 2; runs that
are meant to be like the program keep their order: submission queue = pool <
shard queue, pool <= out channel. The assumption on the constants says only that
indices fit into a token (16 bits) and that the ring is built with at least
`POOL_SIZE` entries (`main.rs:79`), without which the receives posted at the start
would not fit.

Not in the model: the layout of socket addresses, the `SendNotif` branch (nothing
encodes that token, the kernel repeats the token `Send`), `shard_for`,
`add_session` and `run_n` (used by test and benchmark only).

### Rendezvous

`UdpCreate`, `UdpJoin` and `UdpResponse` are `udp_handler` up to, and after, its
await on the manager; `HandlerCreate` and `HandlerJoin` are the manager,
`Respond` the spawned responder, `KeepAlive` and `Shutdown` the per-lobby task and
its timer. A dropped oneshot sender is the value `"dropped"`. `HostFirst` is the
host's first receive, with its `expect`, `HostRecv` and `ClientRecv` the loops that
end with an address. `Transmit` loses any part of what is sent; the rest stays in
`net`, so it can arrive late, out of order and more than once. Codes are numbers
in order of creation, which a random UUID that never repeats allows; `BadCode` is
a mistyped one. Echoes (byte 2) are left out: the server drops them. `UdpCreate` is
one step, although the code awaits the manager's channel, the datagram with the code
and the start of `keep_alive` one after the other (`parser.rs:41-48`): `udp_handler`
takes no other datagram in between, so no join can meet the half-made lobby, and
`KeptAliveUntilJoined` is about the lobbies whose create has been dealt with.

## 3. The runs

| Run | Bounds | What it shows |
|---|---|---|
| `udp_oneway` | two payloads one way, `MaxSeq` 4, output channel 1 | in-order delivery, a reorder buffer ahead of the output, honest ACKs (`receiver_acknowledged` moves before the hand-over, but it and the headers built from it claim no more than the one packet in hand), refinement of the channel, and eventual delivery under fairness |
| `turn_sessions` | 1 buffer, 3 requests sharing a host, a control channel of 2, room in the queues | re-registration moves a client between shards safely; shards drop nothing; sessions get installed; the relay implements `Relay` |
| `turn_pressure` | 2 buffers, 2 requests sharing a host, queues of 1 | ownership of buffers and no panic when every queue overflows |
| `first_relay` | 2 buffers, batches of 1, 3 clients of which 2 have the session | one owner per buffer, no blocking, no panic, every answer handed to the kernel, refinement of `Relay` |
| `peer_chat` | 1 punch per end, packet channel of 2, 1 keep-alive, a script of lines and a typed GOODBYE | lines in order, complete chats, establishment and delivery under fairness |
| `rendezvous_lobby` | 1 host, 1 client, 1 lobby | liveness: the server returns to its socket, keep-alives end |
| `rendezvous_clients` | 2 hosts, 2 clients, 2 lobbies, symmetric | right partner and uninterrupted keep-alive with duplicated creates and joins |

Why the bounds are enough to be interesting: two payloads are the least that can
arrive in the wrong order, and with the ACK at position 0 the drain loop runs
twice; an output channel of one place is full in most states. Two buffers make the
submission queue overflow through a stale head and let one be sent while the other
is received; three requests bring a host back to the shard that still has its
first session. Two lobbies of one host come from a duplicated create. In the older
relay a batch of 1 leaves answers waiting in the out channel when the loop turns to
the completions, and lets receives pile up unpublished behind the stale head;
capacities keep their proportion to the pool (channels 1024 = pool, ring 2048 = twice
the pool), which is what `NeverBlocks` and `OneOwner` depend on; the invariants also
hold with three buffers and batches of two (1.85 million states). In the peer, one
punch of six and two places of a hundred let punch, confirmation, keep-alive and
lines compete for a full channel. Traffic in both directions of the reliable layer
at once, where `send` builds the headers of one direction while `recv` of the other
is between its counters and its output channel, is covered by the proofs, which have
no bound; all properties of `udp_oneway` also hold there with one payload each way
(`Stream <- OneOne`, `MaxSeq = 3`; 68585 states).

Runs that are expected to find a violation compare the code with what its comments
or its readme say:

| Run | Text | What the code does |
|---|---|---|
| `udp_cumulative` | `common/src/lib.rs:19` "cumulative ACK" | an end repeats an ACK number it received, not its own |
| `turn_rereg` | `turn_server/src/lib.rs:749` "Reregistering buffer" | a push refused because of a stale head loses the buffer |
| `turn_submit` | `turn_server/src/lib.rs:714-716` submit and wait | `sq.sync()` does not wake the sleeping SQPOLL thread, so a send is never taken; receives pushed after the last send are not even published |
| `turn_intact` | `readme.md:44` relays packets | the whole buffer is sent whatever was received |
| `rendezvous_firstbyte` | `readme.md:25` host gets a code | a keep-alive before the code panics the host |

Smaller disagreements that no run is spent on: a duplicate without payload is not
ignored as `singleconnection.rs:106` says but answered with an ACK; nothing is ever
removed from `unacked`, although line 136 keeps a counter for that; a client named
in a second session changes shards, although `turn_server/src/lib.rs:387-389`
promises one shard for all its traffic; the addresses of host and client are sent
once, so one lost datagram leaves one side waiting; after 2^32 packets an ACK, whose
number is always 0, takes the place of data, against `readme.md:38`; on a failed hole
punch the process ends, where `readme.md:34` falls back to the TURN server; one end
may go on to chat with an end that has timed out, although `readme.md:41` describes
one connection of both; the older relay, too, publishes the receives that `release()`
pushes only at the next send.

Deadlock is checked in all runs of the reliable layer and of the relay. The
rendezvous runs switch it off (when the only create datagram is lost, everybody
waits for ever, which is what the program does), and so does `peer_chat`, where both
processes end.

### Fairness

Reliable layer: the tasks are polled by tokio, `select!` chooses among ready
branches at random, the application keeps reading (weak fairness); a tick of the
retransmission timer resends an entry again and again (weak fairness per entry);
the network delivers infinitely many of infinitely many datagrams with one number
(strong fairness per number). The last is the usual fair-lossy link: without it no
protocol delivers anything. Relay: loop and shards spin, the kernel completes what
it took and takes what is published while its polling thread is awake; that thread
may go to sleep and nothing has to wake it; nobody has to send or to register.
Older relay: its two threads are scheduled and the kernel completes a send it has
accepted. Peer: the tasks are polled, and the layer below delivers what was submitted
while both processes run, which is `EventuallyDelivered` of `ReliableUDP`; no timer
has to expire and no user has to type. Rendezvous: tasks
are polled, timers fire, and what is in `net` (what was not lost) arrives; nobody
has to join, and no keep-alive has to be sent.

## 4. The proofs

Every invariant that a run checks is a theorem, and so are the three refinements.
Each proof starts from an inductive invariant that says more than the properties do;
where TLC can evaluate it (all but the unbounded function of `LinesCounted`), it can be
checked on a run's instance by adding it to the `.cfg`. One lemma per action shows what the action
does to each part of it; a step lemma collects them.

| Module | Theorems | Hypotheses beside the assumptions on the constants |
|---|---|---|
| `ReliableUDPProof` | `TypeCorrect` | none |
| | `DeliversInOrder`, `BufferAhead`, `HonestAck`, `Refinement` | `NoWrap` |
| `PeerSessionProof` | `TypeCorrect`, `ChatCorrect`, `ClosedCorrect` | none |
| `RendezvousProof` | `TypeCorrect`, `PartnerCorrect`, `KeptAlive`, `NothingTakenBack` | none |
| `FirstImplProof` | `TypeCorrect`, `UnwrapsSucceed`, `BuffersAreOwned`, `ChannelsHaveRoom` | none |
| | `Refinement` | `0 \notin Lens` |
| `TurnServerProof` | `TypeCorrect`, `UnwrapsSucceed`, `BuffersAreOwned` | none |
| `TurnServerRouting` | `RouterCorrect` | `QueueRoom` |
| | `ShardsDropNothing` | `QueueRoom`, `OutRoom` |
| `TurnServerRefinement` | `Refinement` | `0 \notin Lens` |

### The reliable layer

`NoWrap` (each stream shorter than `MaxSeq`) is needed: ACKs always carry number 0,
and once the numbers have wrapped the receiver expects 0 again and takes a stray ACK
for the data. The other assumptions are those on the constants (two peers, streams of
payloads, positive bounds), which TLC evaluates in every run.

`InOrder` is not inductive: it says nothing of the packets that are not delivered
yet. The invariant `IInv` adds, besides the types,

- `Numbering`: `send` has numbered exactly what it took from its stream;
- `Genuine`: whatever is in flight, remembered, buffered or in `recv`'s hand was
  built by the end it comes from: number 0 without payload, number n with the
  n-th payload;
- `Consecutive`: the packets on the output channel are numbered 0, 1, 2, ...;
- `Counters`: how the two counters relate to the length of the output at each
  point of `recv` (one ahead in the drain loop);
- `Ahead`: the reorder buffer has one packet per number and only undelivered ones.

`HonestAck` needs one fact more, kept beside `IInv`: `ClaimsBelow`, that no header of
an own data packet, remembered or on its way, acknowledges more than
`receiver_acknowledged` does now. It holds when `send` builds the header and is kept
because that counter never goes back (`AckGrows`); `Counters` then says what the
counter itself may claim.

For the refinement, `Send` is `Submit`, a hand-over of a number above 0 is
`Handover`, and everything else, the ACK at position 0 included, stutters.

### Hole punching and chat

`ChatInOrder` compares two screens' worth of lines, while the steps move payloads
through a bounded channel and a stream in which lines and control words are mixed.
`IInv` therefore speaks of all that an end has queued, sent or not, as one sequence:

- `ConnectedFirst`: whoever is in the chat has queued CONNECTED, and no line before
  it;
- `NotWoken`: an end that is still punching has read neither a punch nor a
  CONNECTED, and so no line either: this is why the punch loop, which throws away
  what it does not know, never throws away a line;
- `LinesCounted`: there is a function that counts the lines among the first i
  payloads; it ties the stream to `said` on one side and to the screen on the other,
  and places a GOODBYE that was not typed behind the last line. (A count defined by
  recursion could not be reasoned about; a function that satisfies the recursion can.)
- `LinesMatch`, `ClosedByGoodbye`: what follows for the screen and for a closed end.

### Rendezvous

A client has the right partner because everything on the way to it is true:
`NetIsTrue` (joins carry their sender's code, addresses go to the counterpart of
their owner), `ChannelIsTrue` (the manager has at most the one join `udp_handler`
awaits, and creates each lobby once), `AnswerIsTrue` (the answer and the responders),
`LobbiesAreTrue` and `PeersAreTrue`. What these rest on is an action property of its
own, `NothingTakenBack`: a client never changes the code it asks with, and the host
of a lobby is never replaced.

### The relays

`OneOwner` counts the places of a buffer; the proofs replace the count by *stages*
(nine in the newer relay, eleven in the older one, which copies the completions into
a vector). `Owned` says that a buffer is in one stage or lost, `Single` that it
is there once. An action then either moves one buffer from one stage to another
(`Moves`), loses it (`Leaves`) or moves none (`Stays`), and one lemma for each of the
three shows that ownership is kept; `AtMostOne` turns it into the cardinality.
`Marked` ties the timing marks to the stage, from which `NoPanic` follows, and
`TokenDecodes` shows that a completion's token gives back operation and index for
every index below 2^16.

In the older relay `RingHasRoom` adds how far the head that `push()` compares with can
be behind: the ring of twice the pool never refuses, so no buffer is lost to it.
`NeverBlocks` follows by counting (`Fits`): a queue whose elements carry different
buffers is no longer than the pool, and shorter when the buffer at hand is elsewhere.

For the refinements `Addressed` says which address accompanies a datagram in each
stage: the sender's up to the shard, from then on one that is in a session with the
sender. `Forward` is the notification of a zero-copy send, `Accept` a receive,
`Drop` every loss of a buffer that carries something, and all other steps stutter.
Both refinements need `0 \notin Lens`, that no client sends an empty datagram: both
relays send whole buffers (`turn_server/src/lib.rs:521`, `first_impl.rs:406`), so after
an empty datagram they forward the bytes of whoever used the buffer before (the run
`turn_intact` shows the partial case of this; with `Lens = {0, 1}` TLC refutes
`ImplementsRelay` of the older relay). The other theorems hold with empty datagrams.

`TurnServerRouting` shows that the router and the shards agree without a lock.
`Agreed` says of each client that its shard *will* know it by the newest session when
it has worked off its queue, `Known` that the same is true of the sender of a queued
packet by the time the packet is reached, `Bounded` counts the sessions in a queue.
`QueueRoom` (`QueueCap >= PoolSize + MaxRequests`) is needed because the loop ignores
the result of `enqueue`: with a full queue it routes a client to a shard that was
never told. In the program it holds for up to 475 sessions (1499 places, 1024
buffers). `OutRoom` (`OutCap >= PoolSize`) holds with 2048 places for 1024 buffers.
`ShardsDropNothing` adds `TableNames`: a shard has a session only under the addresses
it names, so the branch of `handle_packet` for a session without a route
(`lib.rs:348-350`) is never taken.

### Only model-checked

All liveness (`EventuallyDelivered`, `SessionInstalled`, `SendIsStarted`,
`Established`, `LineIsShown`, `HandlerReturns`, `KeepAliveEnds`), which is outside what
the prover handles, and the five violations, which are single behaviours.

## 5. Not modelled

- The controller makes one `CreateSession` call and prints the answer; it appears
  in `TurnServer` as the source of requests.
- The relay's test client, benchmark and test drive the relay and hold no state of
  it; with them go `add_session` and `run_n` in `turn_server/src/lib.rs`, copies of
  the branches of `run` that only they call.
- `shard_for` of the newer relay is never called; the `SendNotif` branch is dead in
  both; the commented-out loop at the end of `lib.rs` is not code.
- `write_socket_addr` and `extract_src_addr`: the socket is bound to an IPv4 address,
  for which they are inverse to each other; addresses are model values.
- Empty datagrams to the rendezvous server, which `udp_handler` would read as the
  kind of the datagram before (a stale `buf[0]`): no peer sends one. A client that
  waits for the host's address and gets other text ends with an error
  (`peer/src/main.rs:159`): nobody sends it any, as datagrams of the reliable layer
  begin with the first byte of a big-endian number, a 0 for the first 2^24 packets.
- Build script, proto file, logging, the start script.

## 6. Plan

The components are modelled, and the safety properties that the runs check are
proved. What could still be proved:

1. action properties in the manner of `NothingTakenBack`: a datagram on the relay's
   `wire` and a line on a screen are never taken back, a lost buffer never returns;
2. the router's agreement without `QueueRoom`, for the clients whose sessions were
   not refused by a full queue;
3. for the relays without `0 \notin Lens`, what an empty datagram may carry.
