---------------------------- MODULE StreamSend ----------------------------
(***************************************************************************)
(* The sending half of quic_process_loop (link/src/transport/link.rs):     *)
(* packets taken from quic_data_send_rx are written to the QUIC stream,    *)
(* and what the peer's flow control does not let through is kept in        *)
(* stream_send_buffer until a later packet or the idle ticker flushes it.  *)
(*                                                                         *)
(* A byte is its position in the stream the peer has to see: the packets   *)
(* that are not dropped, end to end.  quiche is external: credit is what   *)
(* stream_send would take right now; it shrinks by what is written and may *)
(* grow whenever the loop lets quiche run (conn.recv, conn.send).  Only    *)
(* this loop touches the connection, so credit changes in its steps alone. *)
(***************************************************************************)
EXTENDS SimpleBuf, Sequences

CONSTANTS Capacity,   \* stream_send_buffer_size
          Sizes,      \* the sizes packets have
          MaxCredit,  \* bound: the most quiche takes without hearing from the peer
          MaxBytes    \* bound: the bytes accepted for sending in one run

ASSUME SizesAssumption == /\ Capacity \in Nat
                          /\ Sizes \subseteq Nat \ {0}
                          /\ MaxCredit \in Nat
                          /\ MaxBytes \in Nat

VARIABLES
  pc,      \* "select", "flush" (a packet came), "tickflush", "send", "exit"
  credit,  \* what stream_send takes
  open,    \* the connection has neither been closed nor timed out
  stream_send_buffer,
  b,       \* length of the packet in hand, 0 if none
  sent,    \* how much of it stream_send has taken
  base,    \* bytes of the packets accepted before it
  wire,    \* history: the bytes given to the QUIC stream
  why      \* the error the loop ended with

vars == <<pc, credit, open, stream_send_buffer, b, sent, base, wire, why>>

Min2(x, y) == IF x <= y THEN x ELSE y

Init == /\ pc = "select"
        /\ credit \in 0 .. MaxCredit
        /\ open = TRUE
        /\ stream_send_buffer = new(Capacity)
        /\ b = 0
        /\ sent = 0
        /\ base = 0
        /\ wire = << >>
        /\ why = "none"

Exit(reason) == pc' = "exit" /\ why' = reason

-----------------------------------------------------------------------------
(* quiche *)

\* stream_send takes the first n bytes of data, and conn_send_loop then runs the
\* connection.
StreamSend(data, n) ==
    /\ wire' = wire \o [j \in 1 .. n |-> data[j]]
    /\ credit' \in credit - n .. MaxCredit

\* An acknowledgement or a flow-control update is processed: the UDP arm, or
\* the timeout arm.
Grant == /\ pc = "select"
         /\ credit < MaxCredit
         /\ credit' \in credit + 1 .. MaxCredit
         /\ UNCHANGED <<pc, open, stream_send_buffer, b, sent, base, wire, why>>

\* The peer closes, or the connection times out.
ConnDies == /\ open
            /\ open' = FALSE
            /\ UNCHANGED <<pc, credit, stream_send_buffer, b, sent, base, wire, why>>

\* Any call may fail, which ends the loop: conn.recv, conn.send and stream_send,
\* on a dead connection above all, and sending a datagram once udp_write_loop has
\* ended.  Nothing else here tells whether that loop runs.
ConnFails ==
    /\ pc # "exit"
    /\ Exit("conn")
    /\ UNCHANGED <<credit, open, stream_send_buffer, b, sent, base, wire>>

-----------------------------------------------------------------------------
(* The arms of select! *)

\* Mutant of Tick: the ticker does not send what is left over.
Tick_NoFlush == /\ pc = "select"
                /\ ~open
                /\ Exit("conn")
                /\ UNCHANGED <<credit, open, stream_send_buffer, b, sent, base, wire>>

\* The idle ticker.
Tick == /\ pc = "select"
        /\ pc' = "tickflush"
        /\ UNCHANGED <<credit, open, stream_send_buffer, b, sent, base, wire, why>>

\* A packet of n bytes from link_write_loop.
TakePacket(n) ==
    /\ pc = "select"
    /\ base + n <= MaxBytes
    /\ b' = n
    /\ pc' = "flush"
    /\ UNCHANGED <<credit, open, stream_send_buffer, sent, base, wire, why>>

\* link_write_loop has ended and dropped its sender.
SendClosed ==
    /\ pc = "select"
    /\ Exit("closed")
    /\ UNCHANGED <<credit, open, stream_send_buffer, b, sent, base, wire>>

-----------------------------------------------------------------------------
(* Sending what an earlier packet left over; both arms begin with it. *)

Flush ==
    /\ pc \in {"flush", "tickflush"}
    /\ ~is_empty(stream_send_buffer)
    /\ credit > 0
    /\ LET n == Min2(credit, len(stream_send_buffer))
       IN  /\ StreamSend(occupied_slice(stream_send_buffer), n)
           /\ stream_send_buffer' = free(stream_send_buffer, n)
    /\ UNCHANGED <<pc, open, b, sent, base, why>>

\* Mutant of FlushOver: the left-over bytes are sent once, not in a loop.
FlushOver_Once == TRUE

\* The buffer is empty, or stream_send said Done.
FlushOver == is_empty(stream_send_buffer) \/ credit = 0

\* Mutant of ConnGone: is_closed() and is_timed_out() are not looked at.
ConnGone_Unchecked == FALSE

\* The end of the ticker arm notices a connection that timed out or closed.
ConnGone == ~open

TickOver ==
    /\ pc = "tickflush"
    /\ FlushOver
    /\ IF ConnGone THEN Exit("conn") ELSE pc' = "select" /\ UNCHANGED why
    /\ UNCHANGED <<credit, open, stream_send_buffer, b, sent, base, wire>>

-----------------------------------------------------------------------------
(* The packet in hand. *)

\* The room check: len() is the occupied bytes, max_len() the room after reuse().
LacksRoom(buf) == len(buf) < b

\* Mutant of Overflows: the check forgets the bytes the buffer still holds.
Overflows_CapacityOnly(buf) == b > buf.capacity

Overflows(buf) == LacksRoom(buf) /\ max_len(buf) < b

Roomy(buf) == IF LacksRoom(buf) THEN reuse(buf) ELSE buf

\* The packet is dropped whole, before any byte of it is sent.
Drop ==
    /\ pc = "flush"
    /\ FlushOver
    /\ Overflows(reuse_if(stream_send_buffer))
    /\ stream_send_buffer' = reuse_if(stream_send_buffer)
    /\ pc' = "select"
    /\ b' = 0
    /\ UNCHANGED <<credit, open, sent, base, wire, why>>

Accept ==
    /\ pc = "flush"
    /\ FlushOver
    /\ ~Overflows(reuse_if(stream_send_buffer))
    /\ stream_send_buffer' = Roomy(reuse_if(stream_send_buffer))
    /\ pc' = "send"
    /\ UNCHANGED <<credit, open, b, sent, base, wire, why>>

SendNew ==
    /\ pc = "send"
    /\ sent < b
    /\ credit > 0
    /\ LET n == Min2(credit, b - sent)
       IN  /\ StreamSend([j \in 1 .. b - sent |-> base + sent + j], n)
           /\ sent' = sent + n
    /\ UNCHANGED <<pc, open, stream_send_buffer, b, base, why>>

\* The loop is done with the packet: its bytes are on the wire or in buf.
Finish(buf) ==
    /\ stream_send_buffer' = buf
    /\ pc' = "select"
    /\ base' = base + b
    /\ b' = 0
    /\ sent' = 0
    /\ UNCHANGED <<credit, open, wire, why>>

SentAll == /\ pc = "send"
           /\ sent = b
           /\ Finish(stream_send_buffer)

\* Mutant of Rest: the bytes kept are the first ones of the packet.
Rest_FromStart == base

\* The bytes stream_send did not take, b[sent..], follow this position.
Rest == base + sent

\* Mutant of Kept: what stream_send did not take is forgotten.
Kept_Forgotten == stream_send_buffer

\* The rest of the packet is appended to the buffer.
Kept == push_slice(Roomy(stream_send_buffer), Rest, b - sent)

\* (The room check is repeated first; that it cannot fail is in HalfSentFits.)
KeepRest ==
    /\ pc = "send"
    /\ sent < b
    /\ credit = 0
    /\ CanPush(Roomy(stream_send_buffer), b - sent)
    /\ Finish(Kept)

\* push_slice fails ("should not happen") and the connection is given up.
PushFails ==
    /\ pc = "send"
    /\ sent < b
    /\ credit = 0
    /\ ~CanPush(Roomy(stream_send_buffer), b - sent)
    /\ Exit("push")
    /\ UNCHANGED <<credit, open, stream_send_buffer, b, sent, base, wire>>

-----------------------------------------------------------------------------
Packet == \E n \in Sizes : TakePacket(n)

\* The steps between two select!s.
Body == Flush \/ TickOver \/ Drop \/ Accept \/ SendNew \/ SentAll \/ KeepRest \/ PushFails

Next == Grant \/ ConnDies \/ ConnFails \/ Tick \/ Packet \/ SendClosed \/ Body

\* The task is scheduled; the ticker keeps ticking and the peer keeps granting
\* credit, and select! picks among ready arms at random, so that neither is
\* passed over for ever.
Fairness == WF_vars(Body) /\ SF_vars(Tick) /\ SF_vars(Grant)

Safety == Init /\ [][Next]_vars
Spec == Safety /\ Fairness

-----------------------------------------------------------------------------
(* Properties *)

\* Every variable has its type, over every series of buffer operations.
TypeOK ==
    /\ pc \in {"select", "flush", "tickflush", "send", "exit"}
    /\ credit \in 0 .. MaxCredit
    /\ open \in BOOLEAN
    /\ IsBuf(stream_send_buffer, Capacity, Nat)
    /\ b \in Sizes \cup {0}
    /\ sent \in 0 .. b
    /\ base \in Nat
    /\ wire \in Seq(Nat)
    /\ why \in {"none", "conn", "closed", "push"}

\* What the peer reads is the accepted packets end to end: no byte is lost,
\* sent twice or sent before one that waits in the buffer (link.rs:213-280).
StreamIntegrity == \A i \in 1 .. Len(wire) : wire[i] = i

\* Between two packets every accepted byte is on the wire or next in line in
\* stream_send_buffer: keeping the rest of a packet loses nothing.
NothingLost ==
    pc = "select" =>
      /\ Len(wire) + len(stream_send_buffer) = base
      /\ \A j \in 1 .. len(stream_send_buffer) :
           occupied(stream_send_buffer, j) = Len(wire) + j

\* A packet is never left half sent for lack of room: one that passed the room
\* check (link.rs:234) passes its repetition (link.rs:269), and once stream_send
\* has taken a part of it the rest fits the buffer (link.rs:277).
HalfSentFits ==
    pc = "send" =>
      /\ len(stream_send_buffer) >= b \/ max_len(stream_send_buffer) >= b
      /\ 0 < sent => CanPush(Roomy(stream_send_buffer), b - sent)

\* A byte of a new packet goes out only when nothing older is waiting.
OldestFirst == [][SendNew => is_empty(stream_send_buffer)]_vars

\* Every accepted byte is sent as long as the connection lives: the ticker
\* sees to what is left when no further packet comes (link.rs:83, 158).
EventuallySent ==
    \A n \in 1 .. MaxBytes : base >= n ~> Len(wire) >= n \/ pc = "exit"

\* A connection that was closed or timed out ends the loop, if only by way of the
\* ticker (link.rs:199-205).
DeathNoticed == ~open ~> pc = "exit"

\* A packet for which there is no room is dropped (link.rs:235); the loop
\* never ends over a full buffer, which simple_buf.rs:39 says cannot happen.
FullBufferDrops == why # "push"
=============================================================================
