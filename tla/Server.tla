------------------------------ MODULE Server ------------------------------
(***************************************************************************)
(* The connection management of the link server (serve_linker in           *)
(* link/src/server.rs).  One task, the manager, owns the clients map: it   *)
(* adds and removes clients as their tasks tell it, closes them as the     *)
(* user tells it and broadcasts the user's packets to all of them.  Every  *)
(* connection has two tasks: the main loop (auth, heartbeat check, exit)   *)
(* and the callback loop (the user's on_send, on_request, ...).            *)
(*                                                                         *)
(* The transport is reduced to what the main loop sees of it: packets of   *)
(* three kinds, or its end.  Broadcast packets are numbered in the order   *)
(* in which the manager takes them from send_rx; the packets of a peer are *)
(* only counted.                                                           *)
(***************************************************************************)
EXTENDS Naturals, Sequences, FiniteSets

CONSTANTS Conns,      \* the connections accepted in a run
          Addr,       \* the peer address of each
          Names,      \* the client_names peers authenticate with
          NoConn,     \* not a connection
          SignalChan, \* signal_chan_size
          ProcChan,   \* process_chan_size, of the mpsc and of the broadcast channel
                      \* (tokio rounds the latter up to a power of two)
          MaxAuths,   \* bound: auth requests of one connection
          MaxSends,   \* bound: packets broadcast
          MaxSpawned  \* bound: sends waiting in a task of their own

ASSUME ServerAssumption ==
    /\ NoConn \notin Conns
    /\ SignalChan \in Nat \ {0}
    /\ ProcChan \in Nat \ {0}
    /\ MaxAuths \in Nat
    /\ MaxSends \in Nat
    /\ MaxSpawned \in Nat

Key == Names \X {Addr[c] : c \in Conns}
WaitAuth == "waitAuth"

VARIABLES
  manager,     \* "select", "closing" (sending an exit signal), "done"
  closing,     \* the connection it is sending it to
  clients,     \* the map: "name@addr" to the connection whose senders it holds
  new_client,  \* the channel of New and Exit signals to the manager
  nsent,       \* packets broadcast so far
  main,        \* each main loop: "none", "select", "pong", "auth", "new", "queue",
               \* "disconnect", "exit", "done"
  client_name,
  is_auth_ok,
  late,        \* more than the timeout has passed since last_ping_at
  exit_rx,     \* exit signals waiting
  peer,        \* "active", "quiet" (it sends nothing any more), "gone" (the
               \* transport has ended, or not begun)
  auths,       \* history: the auth requests and what on_auth said of them
  callback,    \* each callback loop: "none", "select", "done"
  sending,     \* the packets for which on_send runs
  recved,      \* packets waiting in recved_packet_rx
  spawned,     \* packets waiting in tasks spawned because it was full
  on_send_rx,  \* the broadcast channel's packets the callback loop has not seen
  lagged,      \* it has lost some of them
  delivered    \* history: what on_send has sent, 0 for RecvError::Lagged

mgrVars  == <<manager, closing, clients, new_client, nsent>>
mainVars == <<main, client_name, is_auth_ok, late, auths>>
cbVars   == <<callback, sending, recved, spawned, on_send_rx, lagged, delivered>>
vars == <<mgrVars, mainVars, exit_rx, peer, cbVars>>

Signal == [type : {"New", "Exit"}, key : Key \cup ({WaitAuth} \X {Addr[c] : c \in Conns}),
           conn : Conns]

Init ==
    /\ manager = "select"
    /\ closing = NoConn
    /\ clients = [k \in Key |-> NoConn]
    /\ new_client = << >>
    /\ nsent = 0
    /\ main = [c \in Conns |-> "none"]
    /\ client_name = [c \in Conns |-> WaitAuth]
    /\ is_auth_ok = [c \in Conns |-> FALSE]
    /\ late = [c \in Conns |-> FALSE]
    /\ exit_rx = [c \in Conns |-> 0]
    /\ peer = [c \in Conns |-> "gone"]
    /\ auths = [c \in Conns |-> << >>]
    /\ callback = [c \in Conns |-> "none"]
    /\ sending = [c \in Conns |-> {}]
    /\ recved = [c \in Conns |-> 0]
    /\ spawned = [c \in Conns |-> 0]
    /\ on_send_rx = [c \in Conns |-> << >>]
    /\ lagged = [c \in Conns |-> FALSE]
    /\ delivered = [c \in Conns |-> << >>]

MyKey(c) == <<client_name[c], Addr[c]>>

-----------------------------------------------------------------------------
(* The manager *)

\* Mutant of Removed: the client stays in the map until its own Exit.
Removed_Kept(k) == clients

Removed(k) == [clients EXCEPT ![k] = NoConn]

\* CloseClient(name) of a client that is in the map: it is removed, then told
\* to exit.  (Of one that is not, the manager only logs.)
CloseClient(k) ==
    /\ manager = "select"
    /\ clients[k] # NoConn
    /\ clients' = Removed(k)
    /\ closing' = clients[k]
    /\ manager' = "closing"
    /\ UNCHANGED <<new_client, nsent, mainVars, exit_rx, peer, cbVars>>

\* tx.send(()).await; it fails if the main loop has ended.
CloseSent ==
    /\ manager = "closing"
    /\ \/ main[closing] = "done" /\ UNCHANGED exit_rx
       \/ /\ main[closing] # "done"
          /\ exit_rx[closing] < SignalChan
          /\ exit_rx' = [exit_rx EXCEPT ![closing] = @ + 1]
    /\ manager' = "select"
    /\ closing' = NoConn
    /\ UNCHANGED <<clients, new_client, nsent, mainVars, peer, cbVars>>

\* Mutant of Managed: Exit leaves the entry in the map.
Managed_ExitIgnored(s) == IF s.type = "New" THEN [clients EXCEPT ![s.key] = s.conn]
                                            ELSE clients

\* The map after a New or an Exit signal; Exit removes whatever has the name.
Managed(s) ==
    IF s.type = "New" THEN [clients EXCEPT ![s.key] = s.conn]
                      ELSE [k \in Key |-> IF k = s.key THEN NoConn ELSE clients[k]]

ClientSignal ==
    /\ manager = "select"
    /\ new_client # << >>
    /\ clients' = Managed(Head(new_client))
    /\ new_client' = Tail(new_client)
    /\ UNCHANGED <<manager, closing, nsent, mainVars, exit_rx, peer, cbVars>>

\* The channels a connection's broadcast sender is in the map for.
Copies(c) == Cardinality({k \in Key : clients[k] = c})

\* The broadcast channel of c after packet p: a full one loses its oldest.
AllOf(c, p) == on_send_rx[c] \o [i \in 1 .. Copies(c) |-> p]

Newest(s) == IF Len(s) <= ProcChan THEN s
                                   ELSE SubSeq(s, Len(s) - ProcChan + 1, Len(s))

\* Mutant of Lags: a receiver that has lost packets is not told.
Lags_Untold(s) == FALSE

Lags(s) == Len(s) > ProcChan

\* A packet of the user's goes to every client in the map.
Broadcast ==
    /\ manager = "select"
    /\ nsent < MaxSends
    /\ nsent' = nsent + 1
    /\ LET sent(c) == IF callback[c] = "done" THEN on_send_rx[c] ELSE AllOf(c, nsent')
       IN  /\ on_send_rx' = [c \in Conns |-> Newest(sent(c))]
           /\ lagged' = [c \in Conns |-> lagged[c] \/ Lags(sent(c))]
    /\ UNCHANGED <<manager, closing, clients, new_client, mainVars, exit_rx,
                   peer, callback, sending, recved, spawned, delivered>>

\* The manager returns; its map and its end of the channels are dropped.
Shutdown ==
    /\ manager = "select"
    /\ manager' = "done"
    /\ clients' = [k \in Key |-> NoConn]
    /\ new_client' = << >>
    /\ UNCHANGED <<closing, nsent, mainVars, exit_rx, peer, cbVars>>

-----------------------------------------------------------------------------
(* The main loop of a connection *)

\* A connection is accepted.  One address has at most one running transport
\* (listen_at routes datagrams by address).  The listening loop returns on Ctrl-C
\* or with listen_at, which only means that no further connection is accepted,
\* and with the manager (an accept that slips in between is left out).
Accept(c) ==
    /\ manager # "done"
    /\ main[c] = "none"
    /\ \A d \in Conns : Addr[d] = Addr[c] => peer[d] = "gone"
    /\ main' = [main EXCEPT ![c] = "select"]
    /\ callback' = [callback EXCEPT ![c] = "select"]
    /\ peer' = [peer EXCEPT ![c] = "active"]
    /\ UNCHANGED <<mgrVars, client_name, is_auth_ok, late, auths, exit_rx, sending, recved,
                   spawned, on_send_rx, lagged, delivered>>

\* The loop is left; on_disconnect is called only for a client that was
\* authenticated.
Break(c) ==
    /\ main' = [main EXCEPT ![c] = IF is_auth_ok[c] THEN "disconnect" ELSE "exit"]
    /\ UNCHANGED <<mgrVars, client_name, is_auth_ok, late, auths, peer, cbVars>>

\* Mutant of TimedOut: auth_timeout is not looked at.
TimedOut_AuthedOnly(c) == late[c] /\ is_auth_ok[c]

\* The time since the last packet exceeds heartbeat_timeout, or auth_timeout
\* before auth.
TimedOut(c) == late[c]

\* The heartbeat ticker.
HeartbeatCheck(c) == main[c] = "select" /\ TimedOut(c) /\ Break(c) /\ UNCHANGED exit_rx

\* Mutant of ExitPolled: the arm is switched off once auth has succeeded.
ExitPolled_BeforeAuth(c) == exit_rx[c] > 0 /\ ~is_auth_ok[c]

ExitPolled(c) == exit_rx[c] > 0

ExitSignal(c) ==
    /\ main[c] = "select"
    /\ ExitPolled(c)
    /\ exit_rx' = [exit_rx EXCEPT ![c] = @ - 1]
    /\ Break(c)

\* recv_rx returns None: the transport has ended.
RecvNone(c) == main[c] = "select" /\ peer[c] = "gone" /\ Break(c) /\ UNCHANGED exit_rx

\* A packet is received.  Any packet counts as a ping.
Recv(c) == /\ main[c] = "select"
           /\ peer[c] = "active"
           /\ late' = [late EXCEPT ![c] = FALSE]

\* A heartbeat: its response is sent to the transport, which takes it in time
\* or has ended; either way the loop goes on.  (That the transport takes it is an
\* assumption: see the circle of Pipeline.)
RecvHeartbeat(c) ==
    /\ Recv(c)
    /\ main' = [main EXCEPT ![c] = "pong"]
    /\ UNCHANGED <<mgrVars, client_name, is_auth_ok, auths, exit_rx, peer, cbVars>>

PongSent(c) ==
    /\ main[c] = "pong"
    /\ main' = [main EXCEPT ![c] = "select"]
    /\ UNCHANGED <<mgrVars, client_name, is_auth_ok, late, auths, exit_rx, peer, cbVars>>

\* Anything but auth and heartbeat goes to the callback loop, by way of a task
\* of its own if the channel is full.
RecvPacket(c) ==
    /\ Recv(c)
    /\ IF recved[c] < ProcChan
         THEN recved' = [recved EXCEPT ![c] = @ + 1] /\ UNCHANGED spawned
         ELSE /\ spawned[c] < MaxSpawned
              /\ spawned' = [spawned EXCEPT ![c] = @ + 1]
              /\ UNCHANGED recved
    /\ UNCHANGED <<mgrVars, main, client_name, is_auth_ok, auths, exit_rx, peer,
                   callback, sending, on_send_rx, lagged, delivered>>

\* An auth request: the name is taken over and on_auth is called.
RecvAuth(c, n) ==
    /\ Recv(c)
    /\ Len(auths[c]) < MaxAuths
    /\ client_name' = [client_name EXCEPT ![c] = n]
    /\ main' = [main EXCEPT ![c] = "auth"]
    /\ UNCHANGED <<mgrVars, is_auth_ok, auths, exit_rx, peer, cbVars>>

\* An auth request that does not decode.
RecvBadAuth(c) ==
    /\ main[c] = "select"
    /\ peer[c] = "active"
    /\ Break(c)
    /\ UNCHANGED exit_rx

\* Mutant of AfterAuth: the loop goes on as if on_auth had said yes.
AfterAuth_Always(ok) == "new"

\* A refused client is neither registered nor closed: the loop just continues.
AfterAuth(ok) == IF ok THEN "new" ELSE "select"

\* on_auth returns.
Authed(c, ok) ==
    /\ main[c] = "auth"
    /\ auths' = [auths EXCEPT ![c] = Append(@, [name |-> client_name[c], ok |-> ok])]
    /\ is_auth_ok' = [is_auth_ok EXCEPT ![c] = @ \/ ok]
    /\ main' = [main EXCEPT ![c] = AfterAuth(ok)]
    /\ UNCHANGED <<mgrVars, client_name, late, exit_rx, peer, cbVars>>

\* send(ClientSignal).await to the manager; it fails if the manager has ended.
Signalled(s) ==
    \/ manager = "done" /\ UNCHANGED new_client
    \/ /\ manager # "done"
       /\ Len(new_client) < SignalChan
       /\ new_client' = Append(new_client, s)

SendNew(c) ==
    /\ main[c] = "new"
    /\ Signalled([type |-> "New", key |-> MyKey(c), conn |-> c])
    /\ main' = [main EXCEPT ![c] = "queue"]
    /\ UNCHANGED <<manager, closing, clients, nsent, client_name, is_auth_ok,
                   late, auths, exit_rx, peer, cbVars>>

\* The auth request is passed on to the callback loop, waiting for room.
QueueAuth(c) ==
    /\ main[c] = "queue"
    /\ recved[c] < ProcChan
    /\ recved' = [recved EXCEPT ![c] = @ + 1]
    /\ main' = [main EXCEPT ![c] = "select"]
    /\ UNCHANGED <<mgrVars, client_name, is_auth_ok, late, auths, exit_rx, peer,
                   callback, sending, spawned, on_send_rx, lagged, delivered>>

\* on_disconnect returns.
Disconnected(c) ==
    /\ main[c] = "disconnect"
    /\ main' = [main EXCEPT ![c] = "exit"]
    /\ UNCHANGED <<mgrVars, client_name, is_auth_ok, late, auths, exit_rx, peer, cbVars>>

SendExit(c) ==
    /\ main[c] = "exit"
    /\ Signalled([type |-> "Exit", key |-> MyKey(c), conn |-> c])
    /\ main' = [main EXCEPT ![c] = "done"]
    /\ UNCHANGED <<manager, closing, clients, nsent, client_name, is_auth_ok,
                   late, auths, exit_rx, peer, cbVars>>

-----------------------------------------------------------------------------
(* The callback loop of a connection, and the tasks spawned for it *)

\* Mutant of AtSelect: on_send runs in a task of its own, like on_request.
AtSelect_Spawned(c) == callback[c] = "select"

\* The callback loop awaits on_send, so that nothing else happens meanwhile.
AtSelect(c) == callback[c] = "select" /\ sending[c] = {}

\* A broadcast packet: on_send is called ...
OnSend(c) ==
    /\ AtSelect(c)
    /\ ~lagged[c]
    /\ on_send_rx[c] # << >>
    /\ sending' = [sending EXCEPT ![c] = @ \cup {Head(on_send_rx[c])}]
    /\ on_send_rx' = [on_send_rx EXCEPT ![c] = Tail(@)]
    /\ UNCHANGED <<mgrVars, mainVars, exit_rx, peer, callback, recved, spawned, lagged, delivered>>

\* ... and returns.
OnSendReturns(c) ==
    /\ \E p \in sending[c] :
         /\ delivered' = [delivered EXCEPT ![c] = Append(@, p)]
         /\ sending' = [sending EXCEPT ![c] = @ \ {p}]
    /\ UNCHANGED <<mgrVars, mainVars, exit_rx, peer, callback, recved, spawned, on_send_rx, lagged>>

\* RecvError::Lagged: counted, and on with the oldest packet still there.
OnLagged(c) ==
    /\ AtSelect(c)
    /\ lagged[c]
    /\ lagged' = [lagged EXCEPT ![c] = FALSE]
    /\ delivered' = [delivered EXCEPT ![c] = Append(@, 0)]
    /\ UNCHANGED <<mgrVars, mainVars, exit_rx, peer, callback, sending, recved, spawned, on_send_rx>>

\* A packet of the peer's: on_request, on_response or on_push in its own task.
OnPacket(c) ==
    /\ AtSelect(c)
    /\ recved[c] > 0
    /\ recved' = [recved EXCEPT ![c] = @ - 1]
    /\ UNCHANGED <<mgrVars, mainVars, exit_rx, peer, callback, sending, spawned, on_send_rx,
                   lagged, delivered>>

SpawnedSends(c) ==
    /\ callback[c] # "done"
    /\ spawned[c] > 0
    /\ recved[c] < ProcChan
    /\ spawned' = [spawned EXCEPT ![c] = @ - 1]
    /\ recved' = [recved EXCEPT ![c] = @ + 1]
    /\ UNCHANGED <<mgrVars, mainVars, exit_rx, peer, callback, sending, on_send_rx, lagged,
                   delivered>>

\* No sender of recved_packet_tx, or none of on_send_broadcast_tx, is left:
\* the first has its senders in the main loop and the spawned tasks, the second
\* in the main loop, the map, the signals on their way to it and the manager
\* while it tells the connection to exit.
SendersGone(c) ==
    /\ main[c] = "done"
    /\ \/ recved[c] = 0 /\ spawned[c] = 0
       \/ /\ on_send_rx[c] = << >> /\ ~lagged[c]
          /\ Copies(c) = 0 /\ closing # c
          /\ \A i \in 1 .. Len(new_client) :
               ~(new_client[i].type = "New" /\ new_client[i].conn = c)

CallbackEnds(c) ==
    /\ AtSelect(c)
    /\ SendersGone(c)
    /\ callback' = [callback EXCEPT ![c] = "done"]
    /\ UNCHANGED <<mgrVars, mainVars, exit_rx, peer, sending, recved, spawned, on_send_rx,
                   lagged, delivered>>

-----------------------------------------------------------------------------
(* The peer, the transport and the clock *)

TransportEnds(c) ==
    /\ peer[c] # "gone"
    /\ peer' = [peer EXCEPT ![c] = "gone"]
    /\ UNCHANGED <<mgrVars, mainVars, exit_rx, cbVars>>

PeerQuiet(c) ==
    /\ peer[c] = "active"
    /\ peer' = [peer EXCEPT ![c] = "quiet"]
    /\ UNCHANGED <<mgrVars, mainVars, exit_rx, cbVars>>

TimePasses(c) ==
    /\ main[c] \notin {"none", "done"}
    /\ ~late[c]
    /\ late' = [late EXCEPT ![c] = TRUE]
    /\ UNCHANGED <<mgrVars, main, client_name, is_auth_ok, auths, exit_rx, peer, cbVars>>

-----------------------------------------------------------------------------
Managing == CloseSent \/ ClientSignal

\* The steps of a main loop outside select!.
MainStep(c) == \/ PongSent(c) \/ Authed(c, TRUE) \/ Authed(c, FALSE) \/ SendNew(c) \/ QueueAuth(c)
               \/ Disconnected(c) \/ SendExit(c)

Received(c) == \/ RecvHeartbeat(c) \/ RecvPacket(c) \/ RecvBadAuth(c)
               \/ \E n \in Names : RecvAuth(c, n)

Leaving(c) == HeartbeatCheck(c) \/ ExitSignal(c) \/ RecvNone(c)

CallbackStep(c) == OnSend(c) \/ OnSendReturns(c) \/ OnLagged(c) \/ OnPacket(c) \/ CallbackEnds(c)

Conn(c) == \/ Accept(c) \/ MainStep(c) \/ Received(c) \/ Leaving(c) \/ CallbackStep(c)
           \/ SpawnedSends(c) \/ TransportEnds(c) \/ PeerQuiet(c) \/ TimePasses(c)

Next == \/ Managing \/ Broadcast \/ Shutdown
        \/ (\E k \in Key : CloseClient(k))
        \/ (\E c \in Conns : Conn(c))

\* Tasks are scheduled and the user's callbacks return; select! picks among ready
\* arms at random and waiting senders are served in turn, so that none of these
\* is passed over for ever; the clock runs and the ticker ticks.
Fairness ==
    /\ WF_vars(Managing) /\ SF_vars(ClientSignal)
    /\ \A c \in Conns :
         /\ WF_vars(MainStep(c)) /\ SF_vars(SendNew(c)) /\ SF_vars(SendExit(c)) /\ SF_vars(QueueAuth(c))
         /\ WF_vars(HeartbeatCheck(c)) /\ SF_vars(ExitSignal(c)) /\ SF_vars(RecvNone(c))
         /\ WF_vars(CallbackStep(c)) /\ SF_vars(OnPacket(c))
         /\ WF_vars(TimePasses(c))

Safety == Init /\ [][Next]_vars
Spec == Safety /\ Fairness

-----------------------------------------------------------------------------
(* Properties *)

TypeOK ==
    /\ manager \in {"select", "closing", "done"}
    /\ closing \in Conns \cup {NoConn}
    /\ (manager = "closing") <=> (closing # NoConn)
    /\ clients \in [Key -> Conns \cup {NoConn}]
    /\ new_client \in Seq(Signal) /\ Len(new_client) <= SignalChan
    /\ nsent \in 0 .. MaxSends
    /\ main \in [Conns -> {"none", "select", "pong", "auth", "new", "queue",
                       "disconnect", "exit", "done"}]
    /\ client_name \in [Conns -> Names \cup {WaitAuth}]
    /\ is_auth_ok \in [Conns -> BOOLEAN]
    /\ late \in [Conns -> BOOLEAN]
    /\ exit_rx \in [Conns -> 0 .. SignalChan]
    /\ peer \in [Conns -> {"active", "quiet", "gone"}]
    /\ auths \in [Conns -> Seq([name : Names, ok : BOOLEAN])]
    /\ callback \in [Conns -> {"none", "select", "done"}]
    /\ sending \in [Conns -> SUBSET (1 .. MaxSends)]
    /\ recved \in [Conns -> 0 .. ProcChan]
    /\ spawned \in [Conns -> 0 .. MaxSpawned]
    /\ on_send_rx \in [Conns -> Seq(1 .. MaxSends)]
    /\ \A c \in Conns : Len(on_send_rx[c]) <= ProcChan
    /\ lagged \in [Conns -> BOOLEAN]
    /\ delivered \in [Conns -> Seq(0 .. MaxSends)]

Accepted(c) == {auths[c][i].name : i \in {j \in 1 .. Len(auths[c]) : auths[c][j].ok}}
Asked(c)    == {auths[c][i].name : i \in 1 .. Len(auths[c])}

\* The clients map holds a connection only under names on_auth has accepted for
\* it, however the signals of several connections are interleaved
\* (server.rs:197-206, 394-403).
RegisteredIsAccepted ==
    \A k \in Key : clients[k] # NoConn =>
      k[1] \in Accepted(clients[k]) /\ k[2] = Addr[clients[k]]

\* on_send is called in the order of the broadcast, never twice for a packet,
\* for a client registered under one name (server.rs:323: "顺序执行发送").
OrderedSends ==
    \A c \in Conns : Cardinality(Accepted(c)) <= 1 =>
      \A i, j \in 1 .. Len(delivered[c]) :
        i < j /\ delivered[c][i] # 0 /\ delivered[c][j] # 0
          => delivered[c][i] < delivered[c][j]

\* A client loses a broadcast packet only by falling behind, and is told so:
\* without a Lagged in between, the packets it gets follow each other
\* (server.rs:66, 326).
NoSilentGap ==
    \A c \in Conns : Len(auths[c]) <= 1 =>
      \A i \in 1 .. Len(delivered[c]) - 1 :
        delivered[c][i] # 0 /\ delivered[c][i + 1] # 0
          => delivered[c][i + 1] = delivered[c][i] + 1

OkAuths(c) == Cardinality({i \in 1 .. Len(auths[c]) : auths[c][i].ok})

\* The manager does not wait for a connection that has authenticated at most
\* signal_chan_size times: it is told to exit at most once for each time, however
\* CloseClient, New and Exit are interleaved, so that its exit channel has room
\* (server.rs:175-177, 403).
CloseHasRoom ==
    (manager = "closing" /\ main[closing] # "done" /\ OkAuths(closing) <= SignalChan)
      => exit_rx[closing] < SignalChan

\* The manager waits for room in the exit channel of a connection whose main loop
\* waits for room in the manager's channel (server.rs:177, 403, 435): for ever.
Circle ==
    /\ manager = "closing"
    /\ exit_rx[closing] = SignalChan
    /\ main[closing] \in {"new", "exit"}
    /\ Len(new_client) = SignalChan

\* A connection that has ended leaves the map for good, if it kept to one name,
\* unless the circle closes before the manager hears of it (server.rs:435, 204).
EntryGone ==
    \A c \in Conns :
      main[c] = "done" ~> (Circle \/ [](Cardinality(Asked(c)) <= 1 => Copies(c) = 0))

\* A connection whose peer sends nothing any more ends, unless the circle closes:
\* nothing else in the manager, and nothing in the callback loop, keeps the main
\* loop from its timeout (server.rs:349-362).
QuietPeerEnds == \A c \in Conns : peer[c] = "quiet" ~> (main[c] = "done" \/ Circle)

\* CloseClient ends the connection, however busy its peer keeps it, unless the
\* circle closes (server.rs:174-184, 365).
CloseEnds == \A c \in Conns : exit_rx[c] > 0 ~> (main[c] = "done" \/ Circle)

\* server.rs:413, "avoid block main loop" : whatever the main loop of a connection
\* waits for, it gets back to select!, and so to its timeouts, or ends.
MainLoopReturns == \A c \in Conns : main[c] # "none" ~> main[c] \in {"select", "done"}

\* server.rs:396 : a client whose authentication failed is closed; so none of
\* its packets reaches the user's callbacks.
RefusedIsNotServed ==
    [][\A c \in Conns :
         auths[c] # << >> /\ ~is_auth_ok[c] => ~RecvPacket(c)]_vars

\* server.rs:191, examples/server.rs:34 : Shutdown ends the server, its
\* connections included.
ShutdownEnds ==
    \A c \in Conns : (manager = "done" /\ main[c] # "none") ~> main[c] = "done"

\* server.rs:430 : on_disconnect is called only for what was authenticated.
DisconnectIsAccepted ==
    \A c \in Conns : main[c] = "disconnect" => client_name[c] \in Accepted(c)

\* server.rs:161 : data is broadcast to every client: an authenticated connection
\* that runs and was not told to close is in the map, or on its way into it.
EveryClientIsRegistered ==
    \A c \in Conns :
      ( /\ main[c] = "select" /\ is_auth_ok[c] /\ peer[c] # "gone"
        /\ exit_rx[c] = 0 /\ closing # c /\ manager # "done" )
      => \/ Copies(c) > 0
         \/ \E i \in 1 .. Len(new_client) :
              new_client[i].type = "New" /\ new_client[i].conn = c
=============================================================================
