------------------------------ MODULE Listen ------------------------------
(***************************************************************************)
(* The transport of the link server: listen_at (transport/transport.rs),   *)
(* which routes the datagrams of one UDP socket by the peer's address, and *)
(* the tasks accept_new_conn starts for every connection                   *)
(* (transport/server.rs).                                                  *)
(*                                                                         *)
(* A datagram is reduced to the client connection that sent it, numbered   *)
(* per address, and to whether it is an Initial, with which a connection   *)
(* begins.  Nothing is assumed of the network: any datagram a client has   *)
(* ever sent may arrive at any time, again, or not at all.  Client         *)
(* connection 0 is one of before the server was started.                   *)
(*                                                                         *)
(* A server connection is a slot, used again once nothing is left of it.   *)
(***************************************************************************)
EXTENDS Naturals, Sequences

CONSTANTS Addrs,      \* peer addresses
          Slots,      \* bound: server connections of which something is left
          NoSlot,     \* not one of them
          RecvChan,   \* recv_chan_size: capacity of udp_data_recv
          SignalChan, \* signal_chan_size: capacity of the accept channel
          MaxClients, \* bound: connections the client at an address makes
          MaxFaults   \* bound: late datagrams, errors, the end of the server

ASSUME ListenAssumption ==
    /\ Addrs # {}
    /\ NoSlot \notin Slots
    /\ RecvChan \in Nat \ {0}
    /\ SignalChan \in Nat \ {0}
    /\ MaxClients \in Nat \ {0}
    /\ MaxFaults \in Nat

Loop == {"quic", "link_read", "link_write", "udp_write"}
Datagram == [client : 0 .. MaxClients, kind : {"initial", "other"}]

VARIABLES
  listening,  \* listen_at runs
  client_socket_data_tx_map, \* address to the server connection fed from there
  serving,    \* the loop of serve_linker that takes accepted connections runs
  accept_rx,  \* accepted connections waiting for it
  conn,       \* the server connections:
              \*   addr     its peer
              \*   task     "waiting" for the first datagram, "handshake",
              \*            "running" (the loops are), "done"
              \*   peer     the client connection it talks with, 0 if with none
              \*   loops    the loops that have not ended
              \*   recv     datagrams in udp_data_recv
              \*   spawned  datagrams waiting in tasks spawned because it was full
              \*   end      the ends handed to the server: "sending" (a task waits
              \*            for room in accept_rx), "queued", "held", "dropped"
  client,     \* the client connection at each address
  answered,   \* a server connection has answered it
  faults

listenVars == <<listening, client_socket_data_tx_map>>
clientVars == <<client, answered>>
vars == <<listenVars, serving, accept_rx, conn, clientVars, faults>>

map == client_socket_data_tx_map

Nothing == [addr |-> CHOOSE a \in Addrs : TRUE, task |-> "done", peer |-> 0, loops |-> {},
            recv |-> << >>, spawned |-> {}, end |-> "dropped"]

Init ==
    /\ listening = TRUE
    /\ client_socket_data_tx_map = [a \in Addrs |-> NoSlot]
    /\ serving = TRUE
    /\ accept_rx = << >>
    /\ conn = [s \in Slots |-> Nothing]
    /\ client = [a \in Addrs |-> 1]
    /\ answered = [a \in Addrs |-> FALSE]
    /\ faults = 0

\* The receiver of udp_data_recv exists: the handshake task has it, then
\* quic_process_loop.
Open(s) == conn[s].task \in {"waiting", "handshake"} \/ "quic" \in conn[s].loops

InMap(s) == \E a \in Addrs : map[a] = s

\* Nothing is left of the connection.
Released(s) == /\ conn[s].task = "done" /\ conn[s].spawned = {}
               /\ conn[s].end = "dropped" /\ ~InMap(s)

Fault == faults < MaxFaults /\ faults' = faults + 1

-----------------------------------------------------------------------------
(* listen_at *)

\* Mutant of Retained: entries are dropped while their task still shakes hands.
Retained_Running(m) ==
    [a \in Addrs |-> IF m[a] # NoSlot /\ conn[m[a]].task = "running" THEN m[a] ELSE NoSlot]

\* Mutant of Retained: closed entries stay.
Retained_All(m) == m

\* The map without its closed entries.
Retained(m) == [a \in Addrs |-> IF m[a] # NoSlot /\ Open(m[a]) THEN m[a] ELSE NoSlot]

Tick ==
    /\ listening
    /\ client_socket_data_tx_map' = Retained(map)
    /\ UNCHANGED <<listening, serving, accept_rx, conn, clientVars, faults>>

\* The first datagram of an address: a channel with the datagram in it, a task
\* for the handshake, an entry in the map, and a task to report the connection,
\* which the server thus hears of before the handshake is over.
AcceptNewConn(a, d) ==
    /\ map[a] = NoSlot
    /\ \E s \in Slots : Released(s)
    /\ LET s == CHOOSE t \in Slots : Released(t)
       IN  /\ conn' = [conn EXCEPT ![s] = [Nothing EXCEPT !.addr = a, !.task = "waiting",
                                                          !.recv = <<d>>, !.end = "sending"]]
           /\ client_socket_data_tx_map' = [Retained(map) EXCEPT ![a] = s]

\* Mutant of HasRoom: one datagram too many.
HasRoom_OneMore(s) == Len(conn[s].recv) <= RecvChan

\* try_send on udp_data_recv_tx is not Full.
HasRoom(s) == Len(conn[s].recv) < RecvChan

\* A datagram of an address in the map: skipped if the receiver is gone, sent
\* from a task of its own if the channel is full.  (Equal datagrams that wait
\* are counted once.)
Forward(a, d) ==
    LET s == map[a]
    IN  /\ s # NoSlot
        /\ \/ ~Open(s) /\ UNCHANGED conn
           \/ Open(s) /\ HasRoom(s) /\ conn' = [conn EXCEPT ![s].recv = Append(@, d)]
           \/ Open(s) /\ ~HasRoom(s) /\ conn' = [conn EXCEPT ![s].spawned = @ \cup {d}]
        /\ UNCHANGED client_socket_data_tx_map

\* recv_from returns a datagram.
Arrives(a, d) ==
    /\ listening
    /\ AcceptNewConn(a, d) \/ Forward(a, d)
    /\ UNCHANGED <<listening, serving, accept_rx, clientVars>>

\* What the client sends now, an Initial until it is answered, ...
Sends(a) == [client |-> client[a], kind |-> IF answered[a] THEN "other" ELSE "initial"]
Arrive(a) == Arrives(a, Sends(a)) /\ UNCHANGED faults

\* ... and what it, or the clients before it, sent some time ago.
ArriveLate(a, d) ==
    /\ d.client < client[a] \/ (d.client = client[a] /\ d.kind = "initial" /\ answered[a])
    /\ Arrives(a, d)
    /\ Fault

\* recv_from fails: listen_at returns, and drops the map.
ListenFails ==
    /\ listening
    /\ listening' = FALSE
    /\ client_socket_data_tx_map' = [a \in Addrs |-> NoSlot]
    /\ Fault
    /\ UNCHANGED <<serving, accept_rx, conn, clientVars>>

-----------------------------------------------------------------------------
(* The task of accept_new_conn *)

\* The task returns without a connection: its channel ends are dropped.
HandshakeFails(s) ==
    conn' = [conn EXCEPT ![s].task = "done", ![s].peer = 0, ![s].recv = << >>, ![s].spawned = {}]

\* A handshake error: a datagram that does not parse, quiche::accept, recv or
\* send, the socket.
HandshakeErr(s) ==
    /\ conn[s].task \in {"waiting", "handshake"}
    /\ conn[s].recv # << >>
    /\ HandshakeFails(s)
    /\ Fault
    /\ UNCHANGED <<listenVars, serving, accept_rx, clientVars>>

\* recv returns None: no sender is left.
HandshakeNone(s) ==
    /\ conn[s].task \in {"waiting", "handshake"}
    /\ conn[s].recv = << >> /\ conn[s].spawned = {} /\ ~InMap(s)
    /\ HandshakeFails(s)
    /\ UNCHANGED <<listenVars, serving, accept_rx, clientVars, faults>>

\* The first datagram.  A connection begins with an Initial; the client takes the
\* first answer it gets and ignores the answers to its other Initials.  Any other
\* datagram is UnknownVersion, or one of a handshake that quiche cannot read and
\* ignores, upon which the task goes on waiting.
First(s) ==
    LET d == Head(conn[s].recv)
        a == conn[s].addr
        talks == d.client = client[a] /\ ~answered[a]
    IN  /\ conn[s].task = "waiting"
        /\ conn[s].recv # << >>
        /\ \/ /\ d.kind = "initial"
              /\ conn' = [conn EXCEPT ![s].task = "handshake", ![s].recv = Tail(@),
                                      ![s].peer = IF talks THEN d.client ELSE 0]
              /\ answered' = [answered EXCEPT ![a] = @ \/ talks]
           \/ d.kind = "other" /\ HandshakeFails(s) /\ UNCHANGED answered
           \/ /\ d.kind = "other"
              /\ conn' = [conn EXCEPT ![s].recv = Tail(@)]
              /\ UNCHANGED answered
        /\ UNCHANGED <<listenVars, serving, accept_rx, client, faults>>

Own(s) == conn[s].peer # 0 /\ Head(conn[s].recv).client = conn[s].peer

\* A further datagram that does not complete the handshake.  quiche ignores
\* what is not for this connection, or fails.
More(s) ==
    /\ conn[s].task = "handshake"
    /\ conn[s].recv # << >>
    /\ \/ conn' = [conn EXCEPT ![s].recv = Tail(@)]
       \/ ~Own(s) /\ HandshakeFails(s)
    /\ UNCHANGED <<listenVars, serving, accept_rx, clientVars, faults>>

\* The connection is established: the loops are started.
Established(s) ==
    /\ conn[s].task = "handshake"
    /\ conn[s].recv # << >>
    /\ Own(s) /\ Head(conn[s].recv).kind = "other"
    /\ conn' = [conn EXCEPT ![s].task = "running", ![s].loops = Loop, ![s].recv = Tail(@)]
    /\ UNCHANGED <<listenVars, serving, accept_rx, clientVars, faults>>

-----------------------------------------------------------------------------
(* The loops and the spawned senders *)

\* Mutant of MustEnd: something still holds a sender of the request channel.
MustEnd_SenderKept(s, l) ==
    CASE l \in {"link_read", "udp_write"} -> "quic" \notin conn[s].loops
      [] l = "quic" -> ~({"link_write", "udp_write"} \subseteq conn[s].loops)
      [] OTHER      -> FALSE

\* A loop ends when its channel closes: link_read_loop and udp_write_loop with
\* quic_process_loop, quic_process_loop with link_write_loop, with (as it next
\* sends) udp_write_loop and with the senders of its datagrams, link_write_loop
\* with the server's end.
MustEnd(s, l) ==
    CASE l \in {"link_read", "udp_write"} -> "quic" \notin conn[s].loops
      [] l = "quic" -> \/ ~({"link_write", "udp_write"} \subseteq conn[s].loops)
                       \/ conn[s].recv = << >> /\ conn[s].spawned = {} /\ ~InMap(s)
      [] OTHER      -> conn[s].end = "dropped"

LoopEnds(s, l) ==
    /\ l \in conn[s].loops
    /\ conn' = [conn EXCEPT ![s].loops = @ \ {l},
                            ![s].task = IF conn[s].loops = {l} THEN "done" ELSE @,
                            ![s].peer = IF l = "quic" THEN 0 ELSE @,
                            ![s].recv = IF l = "quic" THEN << >> ELSE @,
                            ![s].spawned = IF l = "quic" THEN {} ELSE @]
    /\ UNCHANGED <<listenVars, serving, accept_rx, clientVars>>

LoopClosed(s) == \E l \in Loop : MustEnd(s, l) /\ LoopEnds(s, l) /\ UNCHANGED faults

\* A socket or QUIC error, bytes that do not parse, a buffer too small.
LoopFails(s, l) == ~MustEnd(s, l) /\ LoopEnds(s, l) /\ Fault

\* quiche times the connection out when its client is heard of no more.
TimedOut(s) == /\ conn[s].peer # client[conn[s].addr]
               /\ LoopEnds(s, "quic")
               /\ UNCHANGED faults

\* quic_process_loop takes a datagram; as in More, quiche ignores one that is
\* not for this connection, or fails.
QuicRecv(s) ==
    /\ "quic" \in conn[s].loops
    /\ conn[s].recv # << >>
    /\ UNCHANGED faults
    /\ \/ /\ conn' = [conn EXCEPT ![s].recv = Tail(@)]
          /\ UNCHANGED <<listenVars, serving, accept_rx, clientVars>>
       \/ ~Own(s) /\ LoopEnds(s, "quic")

SpawnedSends(s) ==
    /\ \E d \in conn[s].spawned :
         /\ HasRoom(s)
         /\ conn' = [conn EXCEPT ![s].recv = Append(@, d), ![s].spawned = @ \ {d}]
    /\ UNCHANGED <<listenVars, serving, accept_rx, clientVars, faults>>

-----------------------------------------------------------------------------
(* The server's end *)

\* Mutant of Report: try_send.
Report_Try(s) ==
    /\ conn[s].end = "sending"
    /\ IF serving /\ Len(accept_rx) < SignalChan
         THEN /\ accept_rx' = Append(accept_rx, s)
              /\ conn' = [conn EXCEPT ![s].end = "queued"]
         ELSE conn' = [conn EXCEPT ![s].end = "dropped"] /\ UNCHANGED accept_rx
    /\ UNCHANGED <<listenVars, serving, clientVars, faults>>

\* The spawned task's accept_tx.send(..).await; it fails if the server is gone.
Report(s) ==
    /\ conn[s].end = "sending"
    /\ \/ /\ serving /\ Len(accept_rx) < SignalChan
          /\ accept_rx' = Append(accept_rx, s)
          /\ conn' = [conn EXCEPT ![s].end = "queued"]
       \/ /\ ~serving
          /\ conn' = [conn EXCEPT ![s].end = "dropped"]
          /\ UNCHANGED accept_rx
    /\ UNCHANGED <<listenVars, serving, clientVars, faults>>

\* serve_linker takes a connection: its main loop now has the ends.
Taken ==
    /\ serving /\ accept_rx # << >>
    /\ conn' = [conn EXCEPT ![Head(accept_rx)].end = "held"]
    /\ accept_rx' = Tail(accept_rx)
    /\ UNCHANGED <<listenVars, serving, clientVars, faults>>

\* response_rx.recv() returns None.
ResponseNone(s) == conn[s].task = "done" \/ (conn[s].task = "running" /\ "link_read" \notin conn[s].loops)

DropEnd(s) == /\ conn[s].end = "held"
              /\ conn' = [conn EXCEPT ![s].end = "dropped"]
              /\ UNCHANGED <<listenVars, serving, accept_rx, clientVars, faults>>

\* The main loop of the connection ends because the transport has, ...
ServerSees(s) == ResponseNone(s) /\ DropEnd(s)

\* ... or by a timeout, an exit signal or a bad auth request.
ServerLeaves(s) == ~ResponseNone(s) /\ DropEnd(s)

\* serve_linker's task returns, with listen_at if that has failed, otherwise on
\* Ctrl-C or with its manager: its handle of listen_at's task is then dropped,
\* which does not stop that task.
ServerStops ==
    /\ serving
    /\ serving' = FALSE
    /\ accept_rx' = << >>
    /\ conn' = [s \in Slots |-> IF conn[s].end = "queued" THEN [conn[s] EXCEPT !.end = "dropped"]
                                                          ELSE conn[s]]
    /\ IF listening THEN Fault ELSE UNCHANGED faults
    /\ UNCHANGED <<listenVars, clientVars>>

\* The client at an address connects again.
Reconnects(a) ==
    /\ client[a] < MaxClients
    /\ client' = [client EXCEPT ![a] = @ + 1]
    /\ answered' = [answered EXCEPT ![a] = FALSE]
    /\ UNCHANGED <<listenVars, serving, accept_rx, conn, faults>>

-----------------------------------------------------------------------------
Handshake(s) == First(s) \/ More(s) \/ Established(s) \/ HandshakeNone(s)

Conn(s) == \/ Handshake(s) \/ HandshakeErr(s)
           \/ LoopClosed(s) \/ (\E l \in Loop : LoopFails(s, l)) \/ TimedOut(s)
           \/ QuicRecv(s) \/ SpawnedSends(s)
           \/ Report(s) \/ ServerSees(s) \/ ServerLeaves(s)

Client(a) == \/ Reconnects(a) \/ Arrive(a)
             \/ \E d \in Datagram : ArriveLate(a, d)

Next == \/ Tick \/ ListenFails \/ Taken \/ ServerStops
        \/ (\E s \in Slots : Conn(s))
        \/ (\E a \in Addrs : Client(a))

\* Tasks are scheduled; select! picks at random among ready arms, so that the
\* ticker of listen_at, the accept channel of the server and a closed channel are
\* not passed over for ever, and waiting senders are served in turn; quiche times
\* out a connection whose client has gone.  Nothing is assumed of the clients.
Fairness ==
    /\ WF_vars(Tick) /\ WF_vars(Taken)
    /\ \A s \in Slots :
         /\ WF_vars(Handshake(s)) /\ WF_vars(LoopClosed(s)) /\ WF_vars(TimedOut(s))
         /\ WF_vars(QuicRecv(s)) /\ SF_vars(SpawnedSends(s))
         /\ SF_vars(Report(s)) /\ WF_vars(ServerSees(s))

Spec == Init /\ [][Next]_vars /\ Fairness

-----------------------------------------------------------------------------
(* Properties *)

TypeOK ==
    /\ listening \in BOOLEAN /\ serving \in BOOLEAN
    /\ client_socket_data_tx_map \in [Addrs -> Slots \cup {NoSlot}]
    /\ accept_rx \in Seq(Slots) /\ Len(accept_rx) <= SignalChan
    /\ conn \in [Slots -> [addr : Addrs, task : {"waiting", "handshake", "running", "done"},
                           peer : 0 .. MaxClients, loops : SUBSET Loop, recv : Seq(Datagram),
                           spawned : SUBSET Datagram,
                           end : {"sending", "queued", "held", "dropped"}]]
    /\ \A s \in Slots : Len(conn[s].recv) <= RecvChan
    /\ client \in [Addrs -> 1 .. MaxClients]
    /\ answered \in [Addrs -> BOOLEAN]
    /\ faults \in 0 .. MaxFaults

\* While listen_at runs, whatever takes datagrams of an address is what the map
\* has for it: a peer has at most one live connection, and that one is never
\* cut off from its datagrams (transport.rs:255-265, 275, 306-316).
OneReceiver == \A s \in Slots : listening /\ Open(s) => map[conn[s].addr] = s

\* A connection that has ended on either side is given up on the other, and in
\* the end nothing is left of it, its entry in the map included
\* (transport/server.rs:138-240, transport.rs:255-265).
EndedIsReleased ==
    \A s \in Slots :
      (conn[s].task = "done" \/ (conn[s].task = "running" /\ conn[s].end = "dropped"))
        ~> Released(s)

\* Every connection accepted reaches the server, unless that has stopped
\* (transport.rs:319-324).
AcceptReported == \A s \in Slots : conn[s].end = "sending" ~> (conn[s].end = "held" \/ ~serving)

\* A server connection in its handshake whose client, if it ever had one, has gone,
\* or that still waits for its Initial after a datagram quiche ignored.
Stalled(s) ==
    \/ conn[s].task = "handshake" /\ conn[s].peer # client[conn[s].addr]
    \/ conn[s].task = "waiting" /\ conn[s].recv = << >>

\* An address does not stay taken: a connection there that is not, and does not
\* become, the present client's leaves the map, be it stray datagrams, a failed
\* handshake or one the client gave up; the exception is a handshake that hangs
\* (transport.rs:255-265, transport/server.rs:47-97).
AddressFreed ==
    \A a \in Addrs, s \in Slots :
      (map[a] = s /\ conn[s].peer # client[a])
        ~> (map[a] # s \/ conn[s].peer = client[a] \/ Stalled(s))

\* config.rs:414 : handshake_timeout, part of the server's configuration as of the
\* client's, bounds the handshake.
HandshakeEnds == \A s \in Slots : conn[s].task = "handshake" ~> conn[s].task # "handshake"

\* server.rs:191, "server will shutdown" : the listener ends with the server.
ListenerEnds == ~serving ~> ~listening
=============================================================================
