---------------------------- MODULE ClientLink ----------------------------
(***************************************************************************)
(* The life of a link client (link_task in link/src/client.rs) and of the  *)
(* connections it makes (Transport::connect in transport/transport.rs):    *)
(* connecting, authentication, heartbeats, noticing that a connection is   *)
(* lost, retrying, giving up.                                              *)
(*                                                                         *)
(* A connection is a connect task that does the QUIC handshake, queues the *)
(* auth packet, starts five loops and waits for all of them.  Aborting the *)
(* task stops it but not the loops, which then end only as their channels  *)
(* close.  Packets are reduced to their kinds.  A loop takes packets as    *)
(* they come; what happens inside the loops is in LinkRead and StreamSend. *)
(* Packets still queued on a connection given up are not followed.         *)
(***************************************************************************)
EXTENDS Naturals, Sequences

CONSTANTS SendChan,   \* send_chan_size: capacity of the inner request channel
          RecvChan,   \* recv_chan_size: capacity of the inner response channel
          Subscribes, \* number of conf.subscribes
          MaxRetry,   \* healthy_config.retry_times, 0 for no limit
          MaxConns    \* bound: connections made

ASSUME LinkAssumption == /\ SendChan \in Nat \ {0}
                         /\ RecvChan \in Nat \ {0}
                         /\ Subscribes \in Nat
                         /\ MaxRetry \in Nat
                         /\ MaxConns \in Nat

Loop == {"udp_read", "quic", "link_read", "link_write", "udp_write"}

\* What a server may answer to the client's own requests.  A heartbeat response
\* that does not decode is "badpong".  Its answers to users' requests and to
\* subscribe requests are "data", like everything else it sends.
Reply == [ auth |-> {"authok", "authfail"},
           ping |-> {"pong", "badpong"} ]
Request == DOMAIN Reply \cup {"user", "sub"}
Packet == Reply["auth"] \cup Reply["ping"] \cup {"data"}

VARIABLES
  main,           \* "start", "select", "send", "queue", "backoff", "done"
  todo,           \* the packets the main loop is sending, one after the other
  is_authed,
  late,           \* more than auth_timeout has passed since conn_created_at, or,
                  \* once authenticated, heartbeat_timeout since last_pong_at
  retry_times,
  quit,           \* Ctrl-C was pressed
  events,         \* the on_conn_event calls
  conns,          \* connections made; the last one is the current one
  conn,           \* connect task: "handshake", "auth", "running", "ok", "err", "aborted"
  loops,          \* the loops of each connection that have not ended
  inner_request,  \* main loop and connect task -> link_write_loop
  inner_response, \* link_read_loop -> main loop
  unanswered,     \* the auth and ping requests that reached the server
  silent          \* the server has gone: nothing arrives any more

mainVars == <<main, todo, is_authed, late, retry_times, quit, events>>
connVars == <<conns, conn, loops>>
chanVars == <<inner_request, inner_response>>
peerVars == <<unanswered, silent>>
vars == <<mainVars, connVars, chanVars, peerVars>>

Init ==
    /\ main = "start" /\ todo = << >>
    /\ is_authed = FALSE /\ late = FALSE
    /\ retry_times = 0 /\ quit = FALSE /\ events = << >>
    /\ conns = 0 /\ conn = "aborted"
    /\ loops = [k \in 1 .. MaxConns |-> {}]
    /\ inner_request = << >> /\ inner_response = << >>
    /\ unanswered = {} /\ silent = FALSE

\* The connections whose request channel has lost both its senders: the connect
\* task is gone, and the main loop has left the turn of 'conn that made it.
Old(k) == k < conns \/ (conn = "aborted" /\ main \in {"start", "done"})

\* Mutant of HasRoom: one packet too many.
HasRoom_OneMore == Len(inner_request) <= SendChan

\* send(..).await on the inner request channel need not wait.
HasRoom == Len(inner_request) < SendChan

\* Mutant of ReqOpen: a closed channel does not fail the sender.
ReqOpen_Always == TRUE

\* The receiving end of the inner request channel exists: the connect task
\* holds it until link_write_loop does.
ReqOpen == \/ conn \in {"handshake", "auth"}
           \/ conn = "running" /\ "link_write" \in loops[conns]

\* Mutant of RespClosed: the end of the response channel goes unnoticed.
RespClosed_Ignored == FALSE

\* recv() on the inner response channel returns None.
RespClosed == /\ inner_response = << >>
              /\ \/ conn = "err"
                 \/ conn \in {"running", "ok"} /\ "link_read" \notin loops[conns]

-----------------------------------------------------------------------------
(* The main loop: one turn of 'conn *)

\* New channels, a new transport, a new connect task.
Start ==
    /\ main = "start"
    /\ conns < MaxConns
    /\ conns' = conns + 1
    /\ conn' = "handshake"
    /\ main' = "select"
    /\ is_authed' = FALSE
    /\ late' = FALSE
    /\ inner_request' = << >>
    /\ inner_response' = << >>
    /\ unanswered' = {}
    /\ silent' = FALSE
    /\ UNCHANGED <<todo, retry_times, quit, events, loops>>

\* Mutant of GiveUp: DisconnectedForever is reported and the loop goes on.
GiveUp_GoesOn == main' = "backoff" /\ events' = Append(events, "forever")

\* The end of the 'conn loop: DisconnectedForever, and the task returns.
GiveUp == main' = "done" /\ events' = Append(events, "forever")

\* random_cid() fails: the client gives up at once.
NoCid ==
    /\ main = "start"
    /\ GiveUp
    /\ UNCHANGED <<todo, is_authed, late, retry_times, quit, connVars, chanVars, peerVars>>

\* Mutant of Exhausted: one retry too many.
Exhausted_OneMore(n) == MaxRetry > 0 /\ n > MaxRetry

Exhausted(n) == MaxRetry > 0 /\ n >= MaxRetry

\* The data loop is left with an error: the connect task is aborted and the
\* client backs off before it connects again, or gives up.
Lost ==
    /\ conn' = "aborted"
    /\ retry_times' = retry_times + 1
    /\ todo' = << >>
    /\ IF Exhausted(retry_times + 1)
         THEN GiveUp
         ELSE main' = "backoff" /\ events' = Append(events, "error")
    /\ UNCHANGED <<conns, loops>>

\* on_conn_event has returned or timed out, and retry_interval is over.
BackedOff ==
    /\ main = "backoff"
    /\ main' = "start"
    /\ UNCHANGED <<todo, is_authed, late, retry_times, quit, events, connVars, chanVars, peerVars>>

-----------------------------------------------------------------------------
(* The main loop: the arms of select! *)

CtrlC ==
    /\ main = "select"
    /\ main' = "done"
    /\ quit' = TRUE
    /\ conn' = "aborted"
    /\ UNCHANGED <<todo, is_authed, late, retry_times, events, conns, loops, chanVars, peerVars>>

\* The connect task has completed without an error: the client exits.
ConnTaskOk ==
    /\ main = "select"
    /\ conn = "ok"
    /\ main' = "done"
    /\ UNCHANGED <<todo, is_authed, late, retry_times, quit, events, connVars, chanVars, peerVars>>

ConnTaskErr ==
    /\ main = "select"
    /\ conn = "err"
    /\ Lost
    /\ UNCHANGED <<is_authed, late, quit, chanVars, peerVars>>

\* Mutant of TimedOut: the ping ticker never looks at the clock.
TimedOut_Never == FALSE

TimedOut == late

\* The ping ticker: time out, or send a heartbeat.
PingTick ==
    /\ main = "select"
    /\ IF TimedOut
         THEN Lost /\ UNCHANGED <<is_authed, late, quit>>
         ELSE /\ main' = "send"
              /\ todo' = <<"ping">>
              /\ UNCHANGED <<is_authed, late, retry_times, quit, events, connVars>>
    /\ UNCHANGED <<chanVars, peerVars>>

\* A user's packet from request_rx.
UserPacket ==
    /\ main = "select"
    /\ main' = "send"
    /\ todo' = <<"user">>
    /\ UNCHANGED <<is_authed, late, retry_times, quit, events, connVars, chanVars, peerVars>>

\* inner_request_tx.send(..).await
SendOk ==
    /\ main = "send"
    /\ ReqOpen
    /\ HasRoom
    /\ inner_request' = Append(inner_request, Head(todo))
    /\ todo' = Tail(todo)
    /\ main' = IF Tail(todo) = << >> THEN "select" ELSE "send"
    /\ UNCHANGED <<is_authed, late, retry_times, quit, events, connVars,
                   inner_response, peerVars>>

\* It fails: a user's packet is dropped, anything else ends the data loop.
SendErr ==
    /\ main = "send"
    /\ ~ReqOpen
    /\ IF Head(todo) = "user"
         THEN /\ main' = "select"
              /\ todo' = << >>
              /\ UNCHANGED <<retry_times, events, connVars>>
         ELSE Lost
    /\ UNCHANGED <<is_authed, late, quit, chanVars, peerVars>>

\* A packet from link_read_loop: any packet counts as a pong.
RecvPacket ==
    /\ main = "select"
    /\ inner_response # << >>
    /\ inner_response' = Tail(inner_response)
    /\ LET p == Head(inner_response)
       IN  CASE p \in {"authfail", "badpong"} ->
                  Lost /\ UNCHANGED <<is_authed, late, quit>>
             [] p = "authok" ->
                  /\ is_authed' = TRUE
                  /\ late' = FALSE
                  /\ main' = "queue"
                  /\ UNCHANGED <<todo, retry_times, quit, events, connVars>>
             [] OTHER ->
                  /\ late' = (late /\ ~is_authed)
                  /\ UNCHANGED <<main, todo, is_authed, retry_times, quit, events, connVars>>
    /\ UNCHANGED <<inner_request, peerVars>>

\* packet_process_tx.send(auth response).await, then the subscribe requests.
AuthQueued ==
    /\ main = "queue"
    /\ main' = IF Subscribes = 0 THEN "select" ELSE "send"
    /\ todo' = [i \in 1 .. Subscribes |-> "sub"]
    /\ UNCHANGED <<is_authed, late, retry_times, quit, events, connVars, chanVars, peerVars>>

RecvNone ==
    /\ main = "select"
    /\ RespClosed
    /\ Lost
    /\ UNCHANGED <<is_authed, late, quit, chanVars, peerVars>>

TimePasses ==
    /\ main \in {"select", "send", "queue"}
    /\ ~late
    /\ late' = TRUE
    /\ UNCHANGED <<main, todo, is_authed, retry_times, quit, events, connVars, chanVars, peerVars>>

-----------------------------------------------------------------------------
(* The connect task *)

HandshakeOk ==
    /\ conn = "handshake"
    /\ ~silent
    /\ conn' = "auth"
    /\ UNCHANGED <<mainVars, conns, loops, chanVars, peerVars>>

\* bind, connect or the handshake fails, or handshake_timeout runs out.
HandshakeErr ==
    /\ conn = "handshake"
    /\ conn' = "err"
    /\ UNCHANGED <<mainVars, conns, loops, chanVars, peerVars>>

\* The auth packet is queued behind whatever the main loop has sent already;
\* only then are the loops started, link_write_loop among them.
SendAuth ==
    /\ conn = "auth"
    /\ HasRoom
    /\ inner_request' = Append(inner_request, "auth")
    /\ conn' = "running"
    /\ loops' = [loops EXCEPT ![conns] = Loop]
    /\ UNCHANGED <<mainVars, conns, inner_response, peerVars>>

\* try_join! on the five join handles: it completes when all have ended, and
\* with Ok, since the loops' own errors are inside their results.
JoinOk ==
    /\ conn = "running"
    /\ loops[conns] = {}
    /\ conn' = "ok"
    /\ UNCHANGED <<mainVars, conns, loops, chanVars, peerVars>>

-----------------------------------------------------------------------------
(* The loops *)

LinkWrite ==
    /\ conn = "running"
    /\ "link_write" \in loops[conns]
    /\ inner_request # << >>
    /\ inner_request' = Tail(inner_request)
    /\ IF "quic" \in loops[conns]
         THEN /\ unanswered' = unanswered \cup ({Head(inner_request)} \cap DOMAIN Reply)
              /\ UNCHANGED loops
         ELSE /\ loops' = [loops EXCEPT ![conns] = @ \ {"link_write"}]
              /\ UNCHANGED unanswered
    /\ UNCHANGED <<mainVars, conns, conn, inner_response, silent>>

\* A packet from the server comes through quic_process_loop and link_read_loop.
Arrives(p) ==
    /\ conn = "running"
    /\ ~silent
    /\ Loop \ {"link_write"} \subseteq loops[conns]
    /\ Len(inner_response) < RecvChan
    /\ inner_response' = Append(inner_response, p)
    /\ UNCHANGED <<mainVars, connVars, inner_request, silent>>

\* The server answers an auth or a ping request that reached it ...
Deliver == \E q \in unanswered :
              /\ \E p \in Reply[q] : Arrives(p)
              /\ unanswered' = unanswered \ {q}

\* ... or sends another response, a push or a request of its own.
ServerData == Arrives("data") /\ UNCHANGED unanswered

\* Mutant of MustEnd: something still holds a sender of the request channel.
MustEnd_SenderKept(k, l) ==
    CASE l \in {"link_read", "udp_write"} -> "quic" \notin loops[k]
      [] l = "quic"                       -> ~({"udp_read", "link_write", "udp_write"} \subseteq loops[k])
      [] OTHER                            -> FALSE

\* A loop ends when its channel closes: link_read_loop and udp_write_loop with
\* quic_process_loop, quic_process_loop with udp_read_loop, link_write_loop
\* or (as it next sends) udp_write_loop, link_write_loop with its senders.
\* Not udp_read_loop: it waits for the socket and looks at its channel only
\* after a datagram came.
MustEnd(k, l) ==
    CASE l \in {"link_read", "udp_write"} -> "quic" \notin loops[k]
      [] l = "quic"       -> ~({"udp_read", "link_write", "udp_write"} \subseteq loops[k])
      [] l = "link_write" -> Old(k)
      [] OTHER            -> FALSE

LoopEnds(k, l) == /\ l \in loops[k]
                  /\ loops' = [loops EXCEPT ![k] = @ \ {l}]
                  /\ UNCHANGED <<mainVars, conns, conn, chanVars, peerVars>>

Cascade(k, l) == MustEnd(k, l) /\ LoopEnds(k, l)

\* A loop fails by itself: a socket or QUIC error, a timed out or closed
\* connection, bytes that do not parse, a buffer too small; udp_read_loop
\* also once a datagram shows it that quic_process_loop has ended.
LoopFails(k, l) == ~MustEnd(k, l) /\ LoopEnds(k, l)

PeerSilent ==
    /\ conn \in {"handshake", "auth", "running"}
    /\ ~silent
    /\ silent' = TRUE
    /\ UNCHANGED <<mainVars, connVars, chanVars, unanswered>>

-----------------------------------------------------------------------------
\* What the main loop does by itself; PingTick is the clock's doing, CtrlC and
\* UserPacket the user's.
MainStep == \/ Start \/ NoCid \/ BackedOff
            \/ ConnTaskOk \/ ConnTaskErr \/ SendOk \/ SendErr
            \/ RecvPacket \/ AuthQueued \/ RecvNone

connect == HandshakeOk \/ HandshakeErr \/ SendAuth \/ JoinOk

LoopClosed == \E k \in 1 .. MaxConns, l \in Loop : Cascade(k, l)
LoopError  == \E k \in 1 .. MaxConns, l \in Loop : LoopFails(k, l)

Next == \/ MainStep \/ PingTick \/ UserPacket \/ CtrlC \/ TimePasses
        \/ connect \/ LinkWrite \/ Deliver \/ ServerData \/ LoopClosed \/ LoopError \/ PeerSilent

\* Every task is scheduled, a sender waiting for room gets it when there is
\* some (tokio's channels are first come first served), the ping ticker ticks
\* and the response channel is read (select! picks at random among the arms
\* that are ready), and handshake_timeout ends a handshake that gets no answer.
\* Nothing is assumed of the server.  That quic_process_loop takes what
\* link_write_loop sends is assumed in LinkWrite; Pipeline shows when it does not.
Fairness == /\ WF_vars(MainStep)
            /\ SF_vars(SendOk)
            /\ SF_vars(PingTick)
            /\ SF_vars(RecvPacket)
            /\ SF_vars(RecvNone)
            /\ WF_vars(connect)
            /\ WF_vars(LinkWrite)
            /\ WF_vars(LoopClosed)

Spec == Init /\ [][Next]_vars /\ Fairness

-----------------------------------------------------------------------------
(* Properties *)

TypeOK ==
    /\ main \in {"start", "select", "send", "queue", "backoff", "done"}
    /\ todo \in Seq(Request) /\ (main = "send" <=> todo # << >>)
    /\ is_authed \in BOOLEAN /\ late \in BOOLEAN /\ quit \in BOOLEAN
    /\ retry_times \in Nat
    /\ events \in Seq({"error", "forever"})
    /\ conns \in 0 .. MaxConns
    /\ conn \in {"handshake", "auth", "running", "ok", "err", "aborted"}
    /\ loops \in [1 .. MaxConns -> SUBSET Loop]
    /\ inner_request \in Seq(Request) /\ Len(inner_request) <= SendChan
    /\ inner_response \in Seq(Packet) /\ Len(inner_response) <= RecvChan
    /\ unanswered \subseteq DOMAIN Reply
    /\ silent \in BOOLEAN

\* With a retry limit the client makes at most that many connections
\* (client.rs:411-414).
RetryBudget == MaxRetry > 0 => conns <= MaxRetry

\* Every lost connection is reported once, by the time of the next one, and
\* DisconnectedForever is the last event, after which nothing is tried
\* (client.rs:420-441).
EventsTell ==
    /\ \A i \in 1 .. Len(events) :
         events[i] = "forever" => i = Len(events) /\ main = "done"
    /\ main \in {"select", "send", "queue"} => Len(events) + 1 = conns
    /\ main \in {"start", "backoff"} => Len(events) = conns

\* A sender that waits for room while the connection runs gets on, whatever
\* happens to the loops meanwhile (client.rs:282, 312), unless all the channels of
\* the connection are full (the circle of Pipeline).
SendReturns == (main = "send" /\ conn = "running") ~> main # "send"

\* When any loop of the running connection ends, the main loop leaves the
\* connection, without waiting for a timeout (client.rs:258, 400).
LossNoticed ==
    \A k \in 1 .. MaxConns :
      (conns = k /\ conn = "running" /\ loops[k] # Loop) ~> (conn # "running" \/ conns # k)

\* A server that went away is noticed by heartbeat_timeout even if no loop
\* ends (client.rs:276).
HeartbeatNotices ==
    (is_authed /\ silent /\ late /\ main = "select" /\ inner_response = << >>)
      ~> main \in {"backoff", "done"}

\* After a connection is given up its loops end, udp_read_loop excepted: the
\* channels they share close one after the other.
OldLoopsEnd ==
    \A k \in 1 .. MaxConns : (k <= conns /\ Old(k)) ~> loops[k] \subseteq {"udp_read"}

\* client.rs:405 : giving up a connection releases its background tasks, all
\* of them.
OldLoopsReleased ==
    \A k \in 1 .. MaxConns : (k <= conns /\ Old(k)) ~> loops[k] = {}

\* client.rs:208, examples/client.rs:80 : a lost connection is reconnected; the
\* client ends only by Ctrl-C or with DisconnectedForever.
NoSilentExit ==
    main = "done" => quit \/ (events # << >> /\ events[Len(events)] = "forever")

\* transport.rs:123 : the auth packet is the first packet on a connection, so
\* nothing is in the request channel when it is queued.
AuthIsFirst == [][SendAuth => inner_request = << >>]_vars

\* client.rs:422 and 205-208 : the main loop must not be blocked for ever, or it
\* processes neither heartbeats nor timeouts nor a reconnect.
MainLoopReturns == main = "send" ~> main # "send"
=============================================================================
