# TLA+ development for quote-link-rs

`quote-link-rs` is a client and a server that exchange *packets* (requests,
responses, pushes) over one QUIC stream per connection. The crate `link` holds
all of the logic; `metrics` only exports counters. This directory models the
parts in which bytes, packets or answers could go missing, be mixed up or be
waited for in vain, checks the models with TLC and proves the most important
invariants with TLAPS.

Paths below are relative to `src/link/src/`.

## 1. The system

### Components

| Component | Source | State | Operations |
|---|---|---|---|
| Byte buffer `SimpleBuf` | `simple_buf.rs` | bytes, `vacant_idx`, `occupied_idx` | `push_slice`, `free`, `reuse`, `reuse_if` |
| `udp_read_loop`, `udp_write_loop` | `transport/client.rs`, `transport/server.rs` | none | socket to channel, channel to socket |
| `quic_process_loop` | `transport/link.rs` | the `quiche::Connection`, `stream_send_buffer` | `select!` over datagrams, packets to send, the connection's timeout, an idle ticker |
| `link_read_loop`, `parse_packet_buf` | `transport/link.rs` | `packet_buffer`, `need_size` | cut the byte stream into packets |
| `link_write_loop` | `transport/link.rs` | none | packets to bytes |
| `Transport::connect` | `transport/transport.rs` | the five loops above, their channels | handshake, auth packet, start the loops, wait for them |
| Client (`link_task`, `send_request`, callback task) | `client.rs` | `request_id_gen`, `requests`, `is_authed`, `last_pong_at`, `retry_times`, channels | forward, correlate, heartbeat, reconnect |
| Server transport (`listen_at`, `accept_new_conn`) | `transport/transport.rs`, `transport/server.rs` | peer address to datagram channel | route datagrams, accept, handshake |
| Server (`serve_linker`) | `server.rs` | `clients`, one main loop and one callback loop per connection | auth, heartbeat check, broadcast, `CloseClient`, `Shutdown` |
| Packet codec | `packets.rs` | none | constructors, header layout, 24-bit ids and lengths |
| Configuration, TLS, DNS, conversions, metrics | `config.rs`, `tls_utils.rs`, `utils.rs`, `packet_utils.rs`, `../../metrics` | plain data | none of interest |

### How they interact

Everything is a tokio task, and tasks talk through bounded `mpsc` channels:

```
user --request_rx--> main loop --inner_request--> link_write_loop --> quic_process_loop --> udp_write_loop
                         ^                                              |        ^
                         |                                              v        |
      callback task <----+------inner_response------ link_read_loop <---+   udp_read_loop
```

A task ends when one of its channels closes, so that the end of one loop spreads
along the arrows. Nobody cancels a loop explicitly. The only shared memory is the
atomic `request_id_gen` and the mutex-protected map `requests`.

### What is hard

* Two linear buffers whose indices move over an unbounded series of pushes,
  frees and compactions, filled and drained in arbitrary portions.
* `select!` chooses at random among ready arms: whether the connect task's result or
  the closed channel is seen first decides what the client does.
* Bounded channels awaited inside an arm: while one waits, nothing else of that
  task happens.
* State that outlives a connection (`requests`, the callback queue) next to state
  that does not (`request_id_gen` starts over).
* Timeouts looked at only when a ticker fires.
* A server that tells connections apart by the peer's address only: late and repeated
  datagrams meet the wrong connection, or start one.

`PROJECT.json` lists these as hazards, each at its line.

## 2. Modules

| Module | Models | Extends |
|---|---|---|
| `SimpleBuf` | `simple_buf.rs` as operators on a record | |
| `PacketPipe` | abstract: packets arrive whole, once, in order; the next one arrives while the pipe is open | |
| `Codec` | `packets.rs`: the wire format as operators on bytes | |
| `LinkRead` | `link_read_loop` and `parse_packet_buf` | `SimpleBuf`, `Codec` |
| `StreamSend` | the sending half of `quic_process_loop` | `SimpleBuf` |
| `ClientRequests` | `send_request`, the `requests` map, the callback task | |
| `ClientLink` | `link_task` and `Transport::connect`: connections, heartbeats, retries | |
| `Pipeline` | the tasks of one running connection and every bounded channel between them | |
| `Server` | `serve_linker`: the manager, its `clients` map, the two loops of every connection | |
| `Listen` | `listen_at` and the tasks of `accept_new_conn`: routing, handshakes, the end of connections | |
| `SimpleBufProofs`, `LinkReadProofs` (with the theorems about `Codec`), `StreamSendProofs`, `ClientRequestsProofs`, `ClientLinkProofs`, `PipelineProofs`, `ServerProofs`, `ListenProofs` | theorems | the module they are named after |
| `MC*` | instances for TLC | the module they are named after |

### Data abstraction

A **byte** is its position in the stream it belongs to (a number below 256 in `Codec`).
A buffer thus shows *which* bytes it holds, and "in order, none lost, none twice" is an equation on positions.
A **packet** is a kind and a range of positions in `LinkRead`, a length in
`StreamSend`, the call it belongs to in `ClientRequests`, a kind in `ClientLink`, a number in
`Pipeline` and, for those the user broadcasts, in `Server`. A **datagram** is only counted in
`Pipeline`; in `Listen` it is the client connection that sent it and whether it is an Initial.

### Codec

The three packets as deku lays them out, field by field: `to_bytes`, `from_bytes`, and for
`PacketHeader::from_bytes` its `verdict` (`ok`, `incomplete` or `error`), which depends on the
field deku reads first that it does not know or does not find. The layout is what deku derives
from the attributes of the structs; its operators on 24-bit fields are external. `LinkRead` does
not look at bytes: it knows a header by its kind and takes from `HeaderSize` how many bytes decide
about it. That this table is right is a theorem (`HeaderDecided`). `MCLinkRead` evaluates the
operators on examples. What deku does with a value too wide for its field is not
modelled: `Fits` is the precondition, and `ConstructedFits` shows that
all constructors but `Response::new` (which keeps the id it is given) meet it.

### LinkRead

State: `rpos` (how much of the peer's stream has been taken), `packet_buffer`,
`need_size`, `consumed_bytes`, the packets sent into `response_tx` and how many of
them have been taken. `ReadChunk(k)` is the receiving arm of `link_read_loop` for a chunk of
`k` bytes, `RejectChunk` and `PushFails` its two error exits; `ParsePacket`,
`BodyIncomplete`, `HeaderIncomplete`, `ParseError` and `SendFails` are the ways one
turn of `parse_packet_buf`'s loop can end. `ParseReturns` includes the `free` and the
`reuse_if` after it. The receiver may stop taking packets for any time, or go away.

`StreamsAssumption` says what a stream is: packets of at least their header's size,
laid end to end, the good ones first. That the ends increase strictly from packet
to packet is stated in `IsStream` as well as the step from one packet to the next,
from which it follows: the provers have no induction to derive it.

An empty chunk (a `fin` without data) changes nothing and is left out; the `free`
after `parse_packet_buf` cannot fail, which is part of `TypeOK`.

### StreamSend

`TakePacket` and `Tick` are the two arms that send. Both first flush
`stream_send_buffer` (`Flush`, repeated until the buffer is empty or `stream_send`
says `Done`); the send arm then makes the room check (`Drop` or `Accept`), sends
(`SendNew`, repeated), and keeps what was not taken (`KeepRest`, or `PushFails`).
quiche is external: `credit` is what `stream_send` takes now; it may grow whenever the
loop lets quiche run. `open` is what the ticker looks at: neither closed nor timed out. That
`udp_write_loop` has ended is not part of it; the loop learns of that when a datagram is to be
sent (`ConnFails`, possible at every call of quiche or of the channel). `base` and `wire` are history variables. The second room check
(link.rs:269) has no failing branch in the model; `HalfSentFits` contains the fact that
it cannot fail, and the proofs establish it for every size.

### ClientRequests

The transport is reduced to the set of requests that may still be answered, in any
order, each at most once, and that die with the connection. `Forward` and `Register`
are two steps because the packet is sent before its oneshot is inserted; the callback
task may run between them. `drawn` is what each request got from the counter; its id is that
modulo `IdSpace`, and the history `lapped` says whether the counter has come round to an id
still in use. `Disconnect` resets `request_id_gen` and leaves `requests`
and the callback queue alone, as the code does. `TryQueued` drops a response that finds
the queue full; the auth response is awaited (`AuthQueued`). `send_push` and
`send_response` carry no id and do not touch this state. The timeout around `requests.insert`
has no action: nobody awaits anything while holding the mutex, so that it cannot fire.

### ClientLink

One variable for the main loop's place in the code, one for the connect task, one for
the set of live loops of every connection, and the two channels between them. `MustEnd`
says which closed channel ends which loop. A connection given up is aborted (its
connect task stops) but its loops live on until their channels close. `late` stands for
the two clocks: the model may let it become true at any time, and `PingTick` looks at
it. `Deliver` answers the client's auth and ping, `ServerData` is everything else the
server sends; both stop when the server falls `silent`.

Left out of `ClientLink`: `ClientSignal::Exit` (its sender is kept in a field without
accessor, so it is never sent); a panic of the callback task; an `on_conn_event` callback
that never returns is cut off by the code's own timeout and takes no step here.

### Pipeline

`chan` is what waits in each of the six channels, `hand` what each task has still to send
before it is back in `select!`. Every handler is one action that takes its input and fills
`hand`; `Put` is each `send(..).await`, which waits for room while the task does nothing else.
`quic_process_loop`'s UDP arm sends several things in a row: the datagrams quiche wants to send,
a stretch of the stream for `link_read_loop`, and again. A stretch without a complete packet takes a
place in the channel like any other. Both directions are shown to implement
`PacketPipe`. It is the client's connection; the server's has the same loops and channels,
with `listen_at` in the place of `udp_read_loop`.

### Server

The manager task owns `clients`, a map from name and address to the connection whose
senders it holds. `CloseClient`, `CloseSent`, `ClientSignal` and `Broadcast` are the arms of its
`select!`; `Managed` is what a `New` or an `Exit` signal does to the map. `CloseClient` and
`CloseSent` are two steps since the manager awaits room in `exit_tx` between them and
does nothing else meanwhile. `Shutdown` ends the manager and nothing more.

Every connection has a main loop and a callback loop, each with its place in the code.
The main loop has one place for every `await` at which another task can
overtake it: the answer to a heartbeat (`pong`), the user's `on_auth` (`auth`), the `New` signal
(`new`), handing the auth packet on (`queue`), `on_disconnect` and the `Exit` signal. `Break` is what leaving the loop does.
`late` is the heartbeat clock, as in `ClientLink`. `peer` is what the
main loop sees of the transport: active, quiet, or gone.

The broadcast channel is external (tokio): a full one loses its oldest packet and its
reader is told `Lagged`, which the history `delivered` records as 0. On a full
`recved_packet` channel the code sends in a task of its own, counted in `spawned`. `auths` is
history: what was asked of `on_auth` and what it said.

Left out of `Server`: the hand-over of a user's signal or packet to the manager is one step with the manager's taking
it; a connection accepted in the moment after the manager has ended; Ctrl-C, after
which there is just no further `Accept`. That the transport takes a heartbeat's answer is
assumed here; `Pipeline` shows under which load it does.

### Listen

`client_socket_data_tx_map` maps an address to a server connection. `Tick` and `AcceptNewConn`
drop its closed entries (`Retained`); `Forward` is the way of a datagram whose address is there,
with its three outcomes. A server connection is a record: the stage of its task, the loops that
run, its channel of datagrams, the datagrams waiting in spawned senders, and where the ends handed
to the server are. `First` is what a handshake task does with a datagram before it has a client: a
connection begins with an Initial; any other datagram either is `UnknownVersion`
(transport/server.rs:86), upon which the task returns, or is a packet of a known version that
quiche cannot read and ignores, upon which the task waits for the next one. `MustEnd` says, as in `ClientLink`, which closed channel ends which loop; here the
map's sender is one of them. `TimedOut` is quiche's idle timeout.

The network may deliver anything a client has ever sent at any time, again or never
(`Arrive`, `ArriveLate`; client 0 is one of before the server's start). Of quiche it is assumed
that a client takes the first answer to its Initials and that a connection is established
by its own client's datagrams; one that is not for the connection is ignored or makes `recv`
fail, both are possible. The user's handler is given a sender of the connection too; it is taken
to drop it with the connection.

## 3. Runs

Deadlock checking is off in every run because the modelled tasks end, and then nothing
is left to do; in `pipeline` because the circle of finding 4 may close.

| Run | Result | What it shows |
|---|---|---|
| `link_read` | pass | Over every cutting of every stream into chunks: `InOrderDelivery`, `NothingWithheld`, `ErrorsAreReal`, `SizedBufferFits`; and the loop implements `PacketPipe` including its liveness (`PipeSpec`) |
| `stream_send` | pass | `StreamIntegrity`, `NothingLost`, `HalfSentFits`, `OldestFirst`; every accepted byte is sent (`EventuallySent`); a dead connection is noticed (`DeathNoticed`) |
| `requests` | pass | On one connection, ids coming round: `IdsSuffice` (answers match unless an id came round to a request still in use), `WaiterRegistered`, `ConnectedIsReported`, `AnswerIsDelivered` |
| `requests_reconnect` | violation | `AnswerMatches` over two connections: see finding 1 |
| `link_retry` | pass | Over up to three connections: `RetryBudget`, `EventsTell` |
| `link_live` | pass | `SendReturns`, `LossNoticed`, `HeartbeatNotices`, `OldLoopsEnd` |
| `link_exit`, `link_stuck` | violation | `NoSilentExit`, `MainLoopReturns`: findings 2 and 3 |
| `pipeline` | pass | `Pipes`: waiting for room loses and reorders nothing, in either direction. `SafeLoad`: while at most `2 * send_chan_size + 1` packets are on their way out some task can go on. `Drains`: everything gets through, unless the tasks wait on each other in a circle (finding 4) |
| `server_safety` | pass | `RegisteredIsAccepted`: the map holds only what the user has accepted under that name. `OrderedSends`, `NoSilentGap`: a client under one name gets broadcast packets in order and once; one that authenticates once is told of every gap. `CloseHasRoom`: the manager does not wait for a connection that has authenticated at most `signal_chan_size` times |
| `server_live` | pass | `EntryGone`, `QuietPeerEnds`, `CloseEnds`, each unless the manager and a main loop come to wait on each other (`Circle`, finding 5) |
| `listen` | pass | `OneReceiver`: what takes datagrams of an address is what the map has for it, so that there is never a second live connection of one peer. `EndedIsReleased`: a connection that has ended on either side is given up on the other, and nothing is left of it. `AcceptReported`: the server hears of every connection. `AddressFreed`: stray datagrams, failed handshakes and clients that have gone do not keep an address, except through a handshake that hangs |

Every property of a passing run has a mutant in `PROJECT.json`: a plausible slip in the
code under which TLC finds that property violated.

### Bounds

* `link_read`: all streams of up to three packets of sizes 5, 6 and 10, and those
  that end in a packet deku refuses; chunks of 1 to 9 bytes; a buffer of 15; one
  place in the channel. The buffer holds one packet and a half of the large ones, so that
  it wraps to compaction, refuses chunks and runs out of tail; the small packets satisfy
  the sizing rule of `config.rs:8` (`SizedForStream`), so that the conditional
  properties are not vacuous. Headers keep their real sizes of 5 and 8 bytes.
* `stream_send`: a buffer of 5, packets of 1, 2, 4 and 6 bytes (6 never fits), credit up
  to 3, ten bytes in all. Packets are sent whole, in parts and not at all, the buffer is
  compacted, filled and overflowed.
* `requests`: two concurrent calls, one subscribe request, a callback queue of two, four
  ids of which six are drawn: the counter comes round, with and without an old request still
  in use. The reconnect run has eight ids, which do not come round, and two connections.
* `pipeline`: every channel has one place, four packets in each direction. The circle takes
  four packets each way: one in each channel, one in each hand. A stretch has up to two packets.
* `listen`: one address, two server connections (the one in the map and one that is still going
  away), two client connections after that of before the start, channels of one place, one fault
  (a late datagram, an error, the end of the server). Addresses do not influence each other
  except through the order of reports and the cleaning at an arrival, which `Tick` does as well;
  liveness with two addresses is too large to check.
* `link_retry`: channels of one place, a limit of two retries, three connections possible
  (the third would break the limit). `link_live` and the violation runs use one
  connection: what they ask for concerns a single connection, and the cost of checking
  liveness grows fast.
* `server_*`: every channel has one place, so that each can be full. `server_safety` has one
  connection (its properties concern one receiver, or are proved for any number) with two names
  and two auth requests, so that it can be in the map twice, and three packets, so that one is
  lost between two. `server_live` allows three auth requests on the connection, the
  least with which one connection closes the circle: one exit signal waits unread, the manager
  has a second one in hand, and the third request fills the manager's channel. With as many
  auths as the exit channel has places it cannot close, on any number of connections (`CloseHasRoom`,
  also a theorem). `server_live` has one packet, and packets
  of the peer's that find their channel full are left to `server_safety` (`MaxSpawned = 0`). Liveness with two connections is too
  large to check.

### Fairness

* Tasks are scheduled: weak fairness of each loop's own steps.
* `select!` polls its ready arms in random order, so that an arm ready again and again is
  eventually taken: strong fairness of the ticker (`Tick`, `PingTick`), of the response
  channel (`RecvPacket`, `RecvNone`). tokio's channels serve waiting senders first come
  first served: strong fairness of `SendOk`.
* `LinkRead` assumes that bytes in transit arrive while the connection lives (QUIC
  retransmits) and that the receiver receives; `StreamSend` that the peer goes on granting credit.
  Without these nothing can be delivered.
* `ClientRequests` assumes only that the callback task keeps running, i.e. that the
  user's callbacks return. `ClientLink` assumes nothing of the server.
* `Server` assumes that the user's callbacks return and that time passes and the ticker ticks (weak fairness
  of `TimePasses` and `HeartbeatCheck`). Strong fairness is kept for what waits for a turn in a
  `select!` or for a place in a channel (`ClientSignal`, `SendNew`, `SendExit`, `QueueAuth`,
  `ExitSignal`, `RecvNone`, `OnPacket`), for the two reasons above. Nothing is assumed of peers.
* `Pipeline`: weak fairness of every task; strong fairness of the arms of the main loop and of
  `quic_process_loop` that take packets, since `select!` picks at random. Neither the peer nor
  the user has to send anything.
* `Listen`: tasks run, the ticker ticks, the accept channel is read; strong fairness of the
  spawned senders and reports, which wait for room. quiche times out a connection whose client
  has gone; no such timer runs during the handshake, so that none is assumed there. Nothing is
  assumed of clients or the network.

## 4. Findings

1. `requests_reconnect`, client.rs:409. After a reconnect ids start over while `requests` keeps its
   entries: a caller of the old connection may be given the answer to another request.
2. `link_exit`, client.rs:259. When all five loops have ended, `connect` returns `Ok`, and if `select!`
   sees that before the closed channel the client exits without reconnecting and without an event.
3. `link_stuck`, transport.rs:124. The auth packet is sent into a channel whose reader is started after
   it. If packets forwarded during the handshake fill it, the connect task and the main
   loop wait for ever.
4. The circle, link.rs:132. With `2 * send_chan_size + 2` packets on their way out and the peer's
   packets filling the other direction, the main loop waits for `link_write_loop`, that for
   `quic_process_loop`, that for `link_read_loop`, and that for the main loop. None of them looks at a
   timeout while it waits, so that the client neither notices nor reconnects
   (`Pipeline!MainLoopReturns`, below).
5. The manager and a main loop, server.rs:177. The manager waits for room in a connection's exit channel while that
   connection's main loop waits for room in the manager's channel (server.rs:403, 435), full of
   signals: neither goes on, and with the manager the server. Each successful auth is worth one
   exit signal, so that it takes a client that authenticates, and that the user closes,
   more than `signal_chan_size` times (1024 by default) without its main loop leaving (`Server!MainLoopReturns`, below).

The first three have a run. The modules define twelve statements of the repository's that the
code does not keep and that have none; TLC refutes each with the constants named here.

| Property | Constants | What happens |
|---|---|---|
| `LinkRead!SizedBufferPushes` | those of `link_read` | link.rs:313. The loop compacts its buffer only if it holds fewer bytes than the chunk has. With more bytes held and a short tail, `push_slice` fails and the connection ends although there was room |
| `StreamSend!FullBufferDrops` | those of `stream_send` | link.rs:234. The room check is skipped for a packet not longer than what waits in the buffer. `push_slice` then fails and the connection is given up; the comment at link.rs:235 says the packet is dropped. (No half packet is ever left behind: `HalfSentFits`) |
| `ClientLink!AuthIsFirst` | those of `link_stuck`, `SendChan = 2` | transport.rs:124. Heartbeats and users' packets can be queued before the auth packet |
| `ClientLink!OldLoopsReleased` | those of `link_stuck` | client.rs:406. Aborting the connect task does not stop the loops; `udp_read_loop` stays on a socket that receives nothing. `OldLoopsEnd` shows that the other four do end |
| `Pipeline!MainLoopReturns` | those of `pipeline` | link.rs:132. Finding 4; client.rs:422 asks "to avoid block main loop" |
| `Listen!HandshakeEnds` | those of `listen` | transport/server.rs:29. The server's handshake has no timeout, although `handshake_timeout` is part of its configuration (config.rs:414): a client that gives up half way leaves the task and the map entry behind, and its next connection from the same address is fed to them |
| `Listen!ListenerEnds` | those of `listen` | server.rs:191. The handle of `listen_at`'s task is dropped, not aborted: after `Shutdown` the task goes on accepting |
| `Server!EveryClientIsRegistered` | `MCTwo`, `MCOneName`, `MCSameAddr`, channels of 1, `MaxAuths = 1`, `MaxSends = MaxSpawned = 0` | server.rs:204. Entries are keyed by name and address. A late signal of an ended connection replaces or removes the entry of the next one from the same address |
| `Server!RefusedIsNotServed` | those of `server_live` | server.rs:397. A client that `on_auth` refuses is not closed, against what the log line says: its packets go on reaching the user's callbacks |
| `Server!ShutdownEnds` | those of `server_live` | server.rs:192. `Shutdown` ends the manager; the tasks of the connections are not told and serve any peer that keeps sending |
| `Server!DisconnectIsAccepted` | those of `server_safety` | server.rs:392. A second auth request overwrites the identity before it is judged. If it is refused, `on_disconnect` and `Exit` name an identity that was never accepted, and the accepted entry stays in the map |
| `Server!MainLoopReturns` | those of `server_live` | server.rs:177. Finding 5; server.rs:413 asks to "avoid block main loop" |

## 5. Proofs

Every invariant the passing runs check is a theorem (the type invariants of `Pipeline` and `Server` are theorems only), for every value of the constants: capacities,
chunk sizes, streams, packet sizes, flow-control behaviours, numbers of calls, connections,
addresses and names, retry limits.

| Theorem | Statement |
|---|---|
| `LinkReadProofs!TypeCorrect` | `Safety => []TypeOK` |
| `LinkReadProofs!DeliveryInOrder` | `Safety => []InOrderDelivery` |
| `LinkReadProofs!GateWithholdsNothing` | `Safety => []NothingWithheld` |
| `LinkReadProofs!ParseErrorsAreReal` | `Safety => []ErrorsAreReal` |
| `LinkReadProofs!SizedBufferSuffices` | `Safety => []SizedBufferFits` |
| `LinkReadProofs!ImplementsPipe` | `Safety => Pipe!Safety` |
| `StreamSendProofs!TypeCorrect`, `WireInOrder`, `NoByteLost`, `HalfSentHasRoom` | `Safety => []` of `TypeOK`, `StreamIntegrity`, `NothingLost`, `HalfSentFits` |
| `StreamSendProofs!OldestGoesFirst` | `Safety => OldestFirst` |
| `ServerProofs!OnlyAcceptedRegistered` | `Safety => []RegisteredIsAccepted` |
| `ServerProofs!TypeCorrect`, `OrderedSendsHolds`, `NoSilentGapHolds`, `CloseHasRoomHolds` | `Safety => []` of `TypeOK`, `OrderedSends`, `NoSilentGap`, `CloseHasRoom` |
| `ClientRequestsProofs!TypeCorrect` | `Spec => []TypeOK` |
| `ClientRequestsProofs!IdsSufficeHolds`, `WaiterRegisteredHolds` | `Spec => [](conns <= 1 => P)` for `P` = `IdsSuffice`, `WaiterRegistered` |
| `ClientLinkProofs!TypeCorrect`, `RetryBudgetHolds`, `EventsTellHolds` | `Spec => []` of `TypeOK`, `RetryBudget`, `EventsTell` |
| `PipelineProofs!TypeCorrect`, `SafeLoadHolds` | `Safety => []` of `TypeOK`, `SafeLoad` |
| `PipelineProofs!PipesImplemented` | `Safety => Pipes`: the safety part of `PacketPipe`, in each direction |
| `ListenProofs!TypeCorrect`, `OneReceiverHolds` | `Spec => []` of `TypeOK`, `OneReceiver` |
| `LinkReadProofs!RoundTrip` | a packet that `Fits` is read back as it was written, whatever follows it; `need_bytes`, `total_bytes` and the length written agree |
| `LinkReadProofs!HeaderDecided` | `PacketHeader::from_bytes` asks for more before it has `HeaderSize` bytes of the header's kind, and from there on answers as the kind says |
| `LinkReadProofs!ConstructedFits` | the constructors make packets that fit, for every value of the id counter; a response keeps its request's id |

`SimpleBufProofs` states once what `push_slice`, `free`, `reuse` and `reuse_if` do to the
shape of a buffer and to the positions it holds (`Holds(buf, pos)`: the occupied bytes are
those from `pos + 1` on); `LinkReadProofs` and `StreamSendProofs` cite these lemmas.

**Codec.** The arithmetic of 24-bit fields is stated once (three bytes to a number and back), and
so is that of the first byte, which packs tag, reserved bits and command; the theorems then go by
cases on the tag.

**LinkRead.** None of the properties is inductive. The invariant is

`TypeOK /\ Aligned /\ Waiting /\ InOrderDelivery /\ ErrorsAreReal /\ SizedBufferFits`

`Aligned` says that the buffer holds the positions that end at `rpos` and
that what is left after `consumed_bytes` begins exactly where the next undelivered
packet begins; without it a step could read from the middle of a packet. `Waiting` ties
`need_size` to that packet while the loop waits: neither `need_size` nor the
bytes held go beyond what that packet needs (the first may equal it, the second may not).
`NothingWithheld` follows from the two. The refinement proof maps `ParsePacket` to `Deliver`, the exits to `Close` and everything else
to stuttering.

**StreamSend.** The invariant is `TypeOK /\ InLine /\ RoomChecked /\ StreamIntegrity`.
`InLine` says that the bytes on the wire, in the buffer and of the packet in hand continue
each other at every point of the loop, not only between packets. `RoomChecked` says what
the room check has established while a packet is being sent. `OldestFirst` rests
on the last part of `InLine`: a packet is being sent with older bytes in the buffer only if
the stream is blocked and no byte of the packet has gone out.

**Server.** A name gets into the map long after `on_auth` has judged it. `Registry` therefore
follows it: a main loop about to send `New` has an accepted name (`NewIsAccepted`), every
`New` on its way to the manager carries one (`SignalsAccepted`), and accepted names stay
accepted (`AcceptedGrows`). The number of connections, names and addresses and the
channel sizes are arbitrary; addresses may be shared.

`OrderedSends` and `NoSilentGap` look back at what `on_send` was given and rest on what it will be
given. `SendInv` therefore follows a packet from the broadcast channel through the running
`on_send` into the history, per connection: the three are in order and none is newer than the
broadcast (`InLine`, `UpTo`, for a connection with at most one accepted name: with two it is in the map
twice and gets packets twice), and without gaps but where `lagged` or a Lagged says so (`Gapless`,
for one that authenticates at most once). A gap could also come from being out of the map
for a while. `RegisteredOnce` excludes that: such a connection is put into the map once, before
its first packet, since at most one New of it is ever under way and none after it has been
handled; and while it is in the map it has everything up to the newest packet (`Current`). That a
connection is in the map at most once (`CopiesType`) follows from `Registry`: its entries differ in the name only.

`CloseHasRoom` is a matter of counting. `Accounted` follows each successful auth: it is with the main loop that is
about to send `New`, a `New` in the manager's channel, an entry of the map, with the manager that closes the client, or a
signal in the exit channel. Some are lost on the way (an entry overwritten, removed by `Exit`, dropped by `Shutdown`), none
is doubled, so that all of these together are at most the auths that succeeded.

**ClientRequests.** `IdsSuffice` and `WaiterRegistered` are proved up to the first reconnect, which is
where they hold: afterwards ids start over while calls of the old connection still wait (finding 1).
`Core` is what the callback task needs when it looks a response up: the responses in its
queue have ids of their own, each with its caller's entry in the map or with none that
anyone waits for. That a response is like this when it is queued takes `Full`: requests in use
were drawn less than the id space apart, so that equal ids mean the same request; a
request is in one place at a time (waiting to be sent, in flight, queued); and the entry of
a request in flight is its own, except between the sending of the packet and
`requests.insert`. `Full` is lost when the connection is given up, `Core` is not.

**ClientLink.** `Counted` ties `retry_times` to the connections made at each place of the main loop
and, while the client goes on, keeps it below the limit: whether another connection may be made is
decided when the one before is lost. `OnlyErrors` says that nothing but losses has been reported so far;
`EventsTell` needs it where DisconnectedForever is appended.

**Pipeline.** The invariant is `TypeOK /\ UdpLine /\ UpLine /\ DownLine`: where every packet is. On the way up the
packets handed to quiche, in `quic_send`, in the hand of `link_write_loop`, in `request` and
in the hand of the main loop are numbered without a gap; on the way down packets travel in stretches
until `link_read_loop` cuts them, and `Run` says that the stretches follow on one another. `Pipes`
follows directly. For `SafeLoad`, the same numbering counts: were every task waiting, `quic_send` and `request` would be
full and both hands occupied, which is `2 * send_chan_size + 2` packets, one more than the load allows.

**Listen.** The invariant is `TypeOK /\ Slotted /\ OneReceiver`. `Slotted` says that loops run only after the
handshake; so a slot is taken for a new connection only when nothing
of the old one receives any more, and what is removed from the map has no receiver.

Assumptions: those declared in the modules (`SizesAssumption`, `StreamsAssumption`,
`RequestsAssumption`, `LinkAssumption`, `PipelineAssumption`, `ServerAssumption`,
`ListenAssumption`): channels have room for at least one message, as tokio requires; model values that stand
for "none" are no members; there is at least one address and one id. TLC evaluates them in the runs.

Only model-checked: liveness under fairness, which the prover does not support (`PipeSpec`'s fairness part,
`EventuallySent`, `DeathNoticed`, the properties of `link_live` and `server_live`,
`ConnectedIsReported`, `AnswerIsDelivered`, `Drains`, `EndedIsReleased`, `AcceptReported`,
`AddressFreed`), and the three violations.

## 6. Not modelled

* What deku does with an id or a length of 2^24 or more, and how quiche works inside: not in this
  repository.
* `mint_token` and `validate_token` (transport/server.rs): never called.
* Configuration: plain data with defaults. The sizes, intervals and limits are the `CONSTANTS` of
  the modules.
* TLS, DNS and addresses, conversions between packets and protobuf messages: stateless, library calls.
* Metrics: counters nobody reads back.
* Examples and tests: callers of the library.
* The stream from `StreamSend` to `LinkRead` as one module. The two meet in one fact:
  `StreamIntegrity` says that the bytes on the wire are the accepted packets end to end, and
  `IsStream` is what `LinkRead` requires of them.

## 7. Plan

1. End to end: `StreamSend` feeding `LinkRead`, shown to implement `PacketPipe`. The theorems about the two
   meet in `IsStream`; stating the composition as a theorem needs both in one module.
2. Safety facts that hold and no run states yet, from the invariants of section 5: that a caller on a later
   connection is answered rightly if nobody was waiting when the ids started over (`ClientRequests`), that a
   `Lagged` always stands for a lost packet (`Server`).
