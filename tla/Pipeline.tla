----------------------------- MODULE Pipeline -----------------------------
(***************************************************************************)
(* The tasks of one running connection and the bounded channels between    *)
(* them (Transport::connect in transport/transport.rs, the loops in        *)
(* transport/link.rs and transport/client.rs, the main loop in client.rs): *)
(*                                                                         *)
(*          request              quic_send           udp_send              *)
(*   main ----------> link_write ----------> quic ------------> udp_write  *)
(*    ^                                      |  ^                          *)
(*    |      response           quic_recv    |  |    udp_recv              *)
(*    +<------------- link_read <------------+  +<------------- udp_read   *)
(*                                                                         *)
(* Every arrow is send(..).await: a task that finds the channel full waits *)
(* there, inside its select! arm, and does nothing else meanwhile.         *)
(*                                                                         *)
(* Packets are numbered in each direction.  quiche gives the peer's bytes  *)
(* in order and takes ours (StreamSend has the details); a datagram is     *)
(* only counted.  How loops end is in ClientLink and Listen.               *)
(***************************************************************************)
EXTENDS Naturals, Sequences

CONSTANTS SendChan, \* send_chan_size
          RecvChan, \* recv_chan_size
          MaxUp,    \* bound: packets the main loop sends
          MaxDown   \* bound: packets the peer sends

ASSUME PipelineAssumption ==
    /\ SendChan \in Nat \ {0}
    /\ RecvChan \in Nat \ {0}
    /\ MaxUp \in Nat
    /\ MaxDown \in Nat

Task == {"main", "link_write", "quic", "link_read", "udp_read", "udp_write"}
Chan == {"request", "quic_send", "udp_send", "udp_recv", "quic_recv", "response"}

VARIABLES
  chan,      \* what waits in each channel: packets, or stretches of them
  hand,      \* what each task has still to send before it is back in select!
  issued,    \* packets the main loop has begun to send
  handed,    \* history: the packets quic_process_loop took, in order
  read,      \* packets stream_recv has returned
  delivered  \* history: the packets the main loop received, in order

vars == <<chan, hand, issued, handed, read, delivered>>

Stretch == Seq(Nat)
Datagram == << >>

Init ==
    /\ chan = [c \in Chan |-> << >>]
    /\ hand = [t \in Task |-> << >>]
    /\ issued = 0 /\ handed = << >>
    /\ read = 0 /\ delivered = << >>

Cap(c) == IF c \in {"request", "quic_send", "udp_send"} THEN SendChan ELSE RecvChan

To(c, p) == [to |-> c, what |-> p]
Idle(t) == hand[t] = << >>

Room(c) == Len(chan[c]) < Cap(c)

\* send(..).await in any of the tasks.
Put(t) ==
    /\ ~Idle(t)
    /\ LET m == Head(hand[t])
       IN  /\ Room(m.to)
           /\ chan' = [chan EXCEPT ![m.to] = Append(@, m.what)]
    /\ hand' = [hand EXCEPT ![t] = Tail(@)]
    /\ UNCHANGED <<issued, handed, read, delivered>>

\* recv() returns the oldest of channel c to t, which then has ms to send.
Get(t, c, ms) ==
    /\ Idle(t)
    /\ chan[c] # << >>
    /\ chan' = [chan EXCEPT ![c] = Tail(@)]
    /\ hand' = [hand EXCEPT ![t] = ms]

-----------------------------------------------------------------------------
(* The handlers: what each task does in select! *)

\* A heartbeat, a user's packet, a subscribe request.
MainSends ==
    /\ Idle("main")
    /\ issued < MaxUp
    /\ issued' = issued + 1
    /\ hand' = [hand EXCEPT !["main"] = <<To("request", <<issued + 1>>)>>]
    /\ UNCHANGED <<chan, handed, read, delivered>>

\* A packet of the peer's goes to the callback task, by try_send.
MainReceives ==
    /\ Get("main", "response", << >>)
    /\ delivered' = delivered \o Head(chan["response"])
    /\ UNCHANGED <<issued, handed, read>>

\* to_bytes, on its way to quic_process_loop.
Encoded(p) == <<To("quic_send", p)>>

link_write_loop ==
    /\ chan["request"] # << >>
    /\ Get("link_write", "request", Encoded(Head(chan["request"])))
    /\ UNCHANGED <<issued, handed, read, delivered>>

\* Mutant of Parsed: the packets of a stretch are sent last one first.
Parsed_Reversed(p) == [i \in 1 .. Len(p) |-> To("response", <<p[Len(p) + 1 - i]>>)]

\* Mutant of Parsed: link_read_loop answers the packets by itself.
Parsed_Answered(p) == [i \in 1 .. Len(p) |-> To("response", <<p[i]>>)] \o <<To("request", << >>)>>

\* parse_packet_buf sends the packets of a stretch one by one.
Parsed(p) == [i \in 1 .. Len(p) |-> To("response", <<p[i]>>)]

link_read_loop ==
    /\ chan["quic_recv"] # << >>
    /\ Get("link_read", "quic_recv", Parsed(Head(chan["quic_recv"])))
    /\ UNCHANGED <<issued, handed, read, delivered>>

udp_read_loop ==
    /\ Idle("udp_read")
    /\ hand' = [hand EXCEPT !["udp_read"] = <<To("udp_recv", Datagram)>>]
    /\ UNCHANGED <<chan, issued, handed, read, delivered>>

udp_write_loop == Get("udp_write", "udp_send", << >>) /\ UNCHANGED <<issued, handed, read, delivered>>

\* conn_send_loop!: quiche may have datagrams to send.
ConnSend(n) == [i \in 1 .. n |-> To("udp_send", Datagram)]

\* Mutant of StreamRecv: what the receiver has no room for is dropped (try_send).
StreamRecv_Try(r, n, part) ==
    IF (n = 0 /\ ~part) \/ ~Room("quic_recv") THEN << >>
    ELSE <<To("quic_recv", [i \in 1 .. n |-> r + i])>>

\* stream_recv returns a stretch of the stream with n packets in it, after the
\* first r, or a part of a packet only, or Done.
StreamRecv(r, n, part) ==
    IF n = 0 /\ ~part THEN << >> ELSE <<To("quic_recv", [i \in 1 .. n |-> r + i])>>

\* A datagram is given to quiche; then its answers are sent, then what it made
\* readable, in up to two stretches, each followed by what reading it made quiche
\* want to send.
QuicReceives(before, n, m, after, part) ==
    /\ m > 0 => n > 0 \/ part
    /\ read + n + m <= MaxDown
    /\ Get("quic", "udp_recv", ConnSend(before) \o StreamRecv(read, n, part) \o ConnSend(after)
                                \o StreamRecv(read + n, m, part /\ n > 0)
                                \o ConnSend(IF m > 0 THEN after ELSE 0))
    /\ read' = read + n + m
    /\ UNCHANGED <<issued, handed, delivered>>

\* A packet is given to quiche.
QuicSends(n) ==
    /\ Get("quic", "quic_send", ConnSend(n))
    /\ handed' = handed \o Head(chan["quic_send"])
    /\ UNCHANGED <<issued, read, delivered>>

\* The ticker or a timeout signal.
QuicTimer ==
    /\ Idle("quic")
    /\ hand' = [hand EXCEPT !["quic"] = ConnSend(1)]
    /\ UNCHANGED <<chan, issued, handed, read, delivered>>

-----------------------------------------------------------------------------
quic_process_loop ==
    \/ \E before, after, m \in 0 .. 1, n \in 0 .. 2, part \in BOOLEAN :
         QuicReceives(before, n, m, after, part)
    \/ \E n \in 0 .. 1 : QuicSends(n)
    \/ QuicTimer

Next == \/ MainSends \/ MainReceives \/ link_write_loop \/ link_read_loop
        \/ udp_read_loop \/ udp_write_loop \/ quic_process_loop
        \/ \E t \in Task : Put(t)

Safety == Init /\ [][Next]_vars

\* Tasks are scheduled, and select! picks at random among the arms that are
\* ready, so that no channel is passed over for ever.
Fairness ==
    /\ \A t \in Task : WF_vars(Put(t))
    /\ WF_vars(link_write_loop) /\ WF_vars(link_read_loop) /\ WF_vars(udp_write_loop)
    /\ SF_vars(MainReceives)
    /\ SF_vars(\E n \in 0 .. 1 : QuicSends(n))

Spec == Safety /\ Fairness

-----------------------------------------------------------------------------
(* Properties *)

TypeOK ==
    /\ chan \in [Chan -> Seq(Stretch)]
    /\ \A c \in Chan : Len(chan[c]) <= Cap(c)
    /\ hand \in [Task -> Seq([to : Chan, what : Stretch])]
    /\ issued \in 0 .. MaxUp /\ handed \in Stretch
    /\ read \in 0 .. MaxDown /\ delivered \in Stretch

\* Waiting for room loses nothing and changes no order, in either direction:
\* what arrives at the far end is what was sent, up to a point
\* (link.rs:132, 376, 447, client.rs:282, 312, 331).
Down == INSTANCE PacketPipe WITH sent <- [i \in 1 .. MaxDown |-> i],
                                 received <- delivered, closed <- FALSE
Up   == INSTANCE PacketPipe WITH sent <- [i \in 1 .. MaxUp |-> i],
                                 received <- handed, closed <- FALSE
Pipes == Down!Safety /\ Up!Safety

\* The task waits for room.
Blocked(t) == ~Idle(t) /\ ~Room(Head(hand[t]).to)

Inputs == [main |-> {"response"}, link_write |-> {"request"}, quic |-> {"quic_send", "udp_recv"},
           link_read |-> {"quic_recv"}, udp_read |-> {}, udp_write |-> {"udp_send"}]

\* The task has something to do and can do it.
CanStep(t) == IF Idle(t) THEN \E c \in Inputs[t] : chan[c] # << >> ELSE ~Blocked(t)

\* main, link_write, quic and link_read each wait for room that only the next of
\* them can make.
Circle == /\ \A t \in {"main", "link_write", "quic", "link_read"} : Blocked(t)
          /\ Head(hand["quic"]).to = "quic_recv"

\* The bounded channels cannot make the tasks wait for each other for ever, as
\* long as at most 2 * send_chan_size + 1 packets are on their way from the main
\* loop to quic_process_loop: whenever a task waits, some task can go on
\* (transport.rs:144, 164-166, link.rs:132, 376).
SafeLoad ==
    (issued - Len(handed) <= 2 * SendChan + 1 /\ \E t \in Task : Blocked(t))
      => \E t \in Task : CanStep(t)

\* Every packet gets through, in both directions, unless the circle closes: again
\* and again, and so for good once no more are sent, none is under way
\* (link.rs:132, 376, 447, client.rs:282, 312, 331).
Drains == []<>(Circle \/ (Len(handed) = issued /\ Len(delivered) = read))

\* client.rs:422 and 205-208 : the main loop must not be blocked for ever, or it
\* processes neither heartbeats nor timeouts nor a reconnect.
MainLoopReturns == ~Idle("main") ~> Idle("main")
=============================================================================
