----------------------------- MODULE LinkRead -----------------------------
(***************************************************************************)
(* link_read_loop and parse_packet_buf of link/src/transport/link.rs: the  *)
(* task that cuts the QUIC byte stream back into packets.                  *)
(*                                                                         *)
(* A byte is its position in the stream the peer wrote (1, 2, ...), so the *)
(* contents of the buffer tell which bytes it holds; 0 is the zero a fresh *)
(* buffer is filled with.  The stream is a sequence of packets given by    *)
(* their kinds (Codec) and the positions at which they end.                *)
(***************************************************************************)
EXTENDS SimpleBuf, Codec, Sequences, FiniteSets

CONSTANTS Capacity,   \* stream_read_buffer_size, the capacity of packet_buffer
          MaxChunk,   \* the most bytes one quic_data_recv chunk carries: a datagram's
                      \* payload, more after quiche has reassembled lost datagrams,
                      \* never more than stream_recv_buffer, i.e. Capacity
          RecvChan,   \* recv_chan_size, the capacity of the response channel
          Streams     \* the packet streams a peer may send

\* A stream of n packets: packet i is of kind[i] and fills the positions
\* end[i-1] + 1 .. end[i]; the first good ones have headers deku accepts.
IsStream(st) ==
    /\ st.n \in Nat
    /\ st.end \in [0 .. st.n -> Nat]
    /\ st.end[0] = 0
    /\ st.kind \in [1 .. st.n -> Kind]
    /\ \A i \in 1 .. st.n : st.end[i] >= st.end[i - 1] + HeaderSize[st.kind[i]]
    /\ \A i, j \in 0 .. st.n : i < j => st.end[i] < st.end[j]
    /\ st.good \in 0 .. st.n
    /\ \A i \in 1 .. st.good : st.kind[i] \in GoodKind
    /\ st.good < st.n => st.kind[st.good + 1] \in BadKind

ASSUME SizesAssumption == /\ Capacity \in Nat
                          /\ MaxChunk \in Nat \ {0}
                          /\ RecvChan \in Nat \ {0}
ASSUME StreamsAssumption == \A st \in Streams : IsStream(st)

VARIABLES
  stream,          \* what the peer sends on this connection
  rpos,            \* bytes taken from quic_data_recv_rx into the buffer so far
  packet_buffer,   \* the SimpleBuf
  need_size,       \* the loop's need_size
  pc,              \* "recv" (in select!), "parse" (in parse_packet_buf), "exit"
  consumed_bytes,  \* parse_packet_buf's consumed_bytes
  delivered,       \* the packets sent into response_tx, as their bytes
  taken,           \* how many of them the receiver has taken
  consumer,        \* the receiving end of response_tx is alive
  why              \* the error the loop ended with

vars == <<stream, rpos, packet_buffer, need_size, pc, consumed_bytes,
          delivered, taken, consumer, why>>

Reason == {"none", "too_big", "push", "malformed", "consumer", "closed"}

size(i) == stream.end[i] - stream.end[i - 1]

Init ==
    /\ stream \in Streams
    /\ rpos = 0
    /\ packet_buffer = new(Capacity)
    /\ need_size = MIN_PACKET_HEADER_SIZE
    /\ pc = "recv"
    /\ consumed_bytes = 0
    /\ delivered = << >>
    /\ taken = 0
    /\ consumer = TRUE
    /\ why = "none"

Exit(reason) == pc' = "exit" /\ why' = reason

-----------------------------------------------------------------------------
(* A chunk of k bytes arrives from quic_process_loop. *)

ChunkArrives(k) == pc = "recv" /\ k \in 1 .. stream.end[stream.n] - rpos

\* Mutant of TooBig: the room is taken to be the tail, as if reuse() did not exist.
TooBig_TailOnly(k) == len(packet_buffer) < k /\ vacant_len(packet_buffer) < k

\* The buffer has no room even when compacted: the loop gives up.
TooBig(k) == len(packet_buffer) < k /\ max_len(packet_buffer) < k

\* The buffer the chunk is pushed to: compacted if it holds fewer bytes than
\* the chunk has (the code compares with len(), the occupied bytes).
Fitted(k) == IF len(packet_buffer) < k THEN reuse(packet_buffer)
                                       ELSE packet_buffer

Pushed(k) == push_slice(Fitted(k), rpos, k)

\* The chunk is stored; it is parsed only once need_size bytes are there,
\* and the buffer is compacted if its tail is used up.
ReadChunk(k) ==
    /\ ChunkArrives(k)
    /\ ~TooBig(k)
    /\ CanPush(Fitted(k), k)
    /\ rpos' = rpos + k
    /\ IF len(Pushed(k)) >= need_size
         THEN pc' = "parse" /\ packet_buffer' = Pushed(k)
         ELSE pc' = pc      /\ packet_buffer' = reuse_if(Pushed(k))
    /\ UNCHANGED <<stream, need_size, consumed_bytes, delivered, taken, consumer, why>>

RejectChunk(k) ==
    /\ ChunkArrives(k)
    /\ TooBig(k)
    /\ Exit("too_big")
    /\ UNCHANGED <<stream, rpos, packet_buffer, need_size, consumed_bytes,
                   delivered, taken, consumer>>

\* push_slice fails ("should not happen"): the tail is too short.
PushFails(k) ==
    /\ ChunkArrives(k)
    /\ ~TooBig(k)
    /\ ~CanPush(Fitted(k), k)
    /\ Exit("push")
    /\ UNCHANGED <<stream, rpos, packet_buffer, need_size, consumed_bytes,
                   delivered, taken, consumer>>

\* quic_process_loop has ended and dropped its sender.
RecvClosed ==
    /\ pc = "recv"
    /\ Exit("closed")
    /\ UNCHANGED <<stream, rpos, packet_buffer, need_size, consumed_bytes,
                   delivered, taken, consumer>>

-----------------------------------------------------------------------------
(* One turn of parse_packet_buf's loop, on the bytes not yet consumed. *)

occupied_bytes == len(packet_buffer) - consumed_bytes

\* The bytes left begin with packet i, and the header can be decided on.
HeaderAt(i) ==
    /\ occupied_bytes >= HeaderSize[stream.kind[i]]
    /\ occupied(packet_buffer, consumed_bytes + 1) = stream.end[i - 1] + 1

\* ... and it is a header, so that need_bytes() is its packet's size.
GoodHeaderAt(i) == HeaderAt(i) /\ stream.kind[i] \in GoodKind

\* Mutant of PacketBytes: the slice does not advance past the packets parsed.
PacketBytes_NoAdvance(i) == [j \in 1 .. size(i) |-> occupied(packet_buffer, j)]

\* Packet::from_bytes on the bytes left.
PacketBytes(i) == [j \in 1 .. size(i) |-> occupied(packet_buffer, consumed_bytes + j)]

\* A whole packet: it is consumed and sent, waiting for room in the channel.
ParsePacket ==
    /\ pc = "parse"
    /\ consumer
    /\ Len(delivered) - taken < RecvChan
    /\ \E i \in 1 .. stream.n :
         /\ GoodHeaderAt(i)
         /\ occupied_bytes >= size(i)
         /\ delivered' = Append(delivered, PacketBytes(i))
         /\ consumed_bytes' = consumed_bytes + size(i)
    /\ UNCHANGED <<stream, rpos, packet_buffer, need_size, pc, taken, consumer, why>>

\* response_tx.send fails: the receiver is gone.
SendFails ==
    /\ pc = "parse"
    /\ ~consumer
    /\ \E i \in 1 .. stream.n : GoodHeaderAt(i) /\ occupied_bytes >= size(i)
    /\ Exit("consumer")
    /\ UNCHANGED <<stream, rpos, packet_buffer, need_size, consumed_bytes,
                   delivered, taken, consumer>>

\* parse_packet_buf returns Ok((consumed_bytes, n)) and the loop goes on.  That
\* free() cannot fail here is part of TypeOK.
ParseReturns(n) ==
    /\ packet_buffer' = reuse_if(free(packet_buffer, consumed_bytes))
    /\ need_size' = n
    /\ consumed_bytes' = 0
    /\ pc' = "recv"
    /\ UNCHANGED <<stream, rpos, delivered, taken, consumer, why>>

\* The header is there but not the whole packet.
BodyIncomplete ==
    /\ pc = "parse"
    /\ \E i \in 1 .. stream.n :
         /\ GoodHeaderAt(i)
         /\ occupied_bytes < size(i)
         /\ ParseReturns(size(i))

\* Mutant of NeedForHeader: need_size is not reset after a packet.
NeedForHeader_NotReset ==
    IF consumed_bytes = 0 THEN MIN_PACKET_HEADER_SIZE ELSE Len(delivered[Len(delivered)])

\* What need_size is when not even a header is left: parse_packet_buf resets
\* it after each packet.
NeedForHeader == MIN_PACKET_HEADER_SIZE

\* Not even the header is there.
HeaderIncomplete ==
    /\ pc = "parse"
    /\ \/ occupied_bytes = 0
       \/ \E i \in 1 .. stream.n :
            /\ occupied_bytes > 0
            /\ occupied(packet_buffer, consumed_bytes + 1) = stream.end[i - 1] + 1
            /\ occupied_bytes < HeaderSize[stream.kind[i]]
    /\ ParseReturns(NeedForHeader)

\* No packet can be made of the bytes left: a header deku refuses, or bytes
\* at which no packet starts.
Malformed ==
    /\ occupied_bytes > 0
    /\ \A i \in 1 .. stream.n :
         occupied(packet_buffer, consumed_bytes + 1) = stream.end[i - 1] + 1
           => HeaderAt(i) /\ stream.kind[i] \notin GoodKind

ParseError ==
    /\ pc = "parse"
    /\ Malformed
    /\ Exit("malformed")
    /\ UNCHANGED <<stream, rpos, packet_buffer, need_size, consumed_bytes,
                   delivered, taken, consumer>>

-----------------------------------------------------------------------------
(* The receiver of the packets: the link client's or server's main loop. *)

Take == /\ consumer
        /\ taken < Len(delivered)
        /\ taken' = taken + 1
        /\ UNCHANGED <<stream, rpos, packet_buffer, need_size, pc, consumed_bytes,
                       delivered, consumer, why>>

\* The main loop leaves its data loop and drops the receiver.
Hangup == /\ consumer
          /\ consumer' = FALSE
          /\ UNCHANGED <<stream, rpos, packet_buffer, need_size, pc,
                         consumed_bytes, delivered, taken, why>>

-----------------------------------------------------------------------------
RecvChunk == \E k \in 1 .. MaxChunk : ReadChunk(k) \/ RejectChunk(k) \/ PushFails(k)

parse_packet_buf == \/ ParsePacket \/ SendFails
                    \/ BodyIncomplete \/ HeaderIncomplete \/ ParseError

Next == RecvChunk \/ RecvClosed \/ parse_packet_buf \/ Take \/ Hangup

\* The task is scheduled, bytes of the stream that have not arrived do arrive
\* while the connection lives (QUIC retransmits), the receiver keeps receiving.
Fairness == /\ WF_vars(RecvChunk)
            /\ WF_vars(parse_packet_buf)
            /\ WF_vars(Take)

Safety == Init /\ [][Next]_vars
Spec == Safety /\ Fairness

-----------------------------------------------------------------------------
(* Properties *)

\* Every variable has its type; the buffer's indices stay ordered, and
\* parse_packet_buf never consumes more than was in the buffer, so that the
\* free() after it cannot fail (link.rs:332).
TypeOK ==
    /\ stream \in Streams
    /\ rpos \in 0 .. stream.end[stream.n]
    /\ IsBuf(packet_buffer, Capacity, Nat)
    /\ need_size \in Nat
    /\ pc \in {"recv", "parse", "exit"}
    /\ consumed_bytes \in 0 .. len(packet_buffer)
    /\ delivered \in Seq(Seq(Nat))
    /\ taken \in 0 .. Len(delivered)
    /\ consumer \in BOOLEAN
    /\ why \in Reason

\* However the stream is cut into chunks, what goes into response_tx is the
\* peer's packets, whole, in order, none twice and none skipped, over any
\* series of push, free and reuse on the buffer.
InOrderDelivery ==
    /\ Len(delivered) <= stream.n
    /\ \A i \in 1 .. Len(delivered) :
         /\ stream.kind[i] \in GoodKind
         /\ delivered[i] = [j \in 1 .. size(i) |-> stream.end[i - 1] + j]

\* While the loop waits for more bytes, it does not sit on a packet it could
\* deliver: the need_size gate (link.rs:327) never holds back a complete packet.
NothingWithheld ==
    LET m == Len(delivered) + 1
    IN  pc = "recv" /\ m <= stream.n /\ stream.kind[m] \in GoodKind
          => rpos < stream.end[m]

\* A parse error is the peer's fault: the loop never loses its alignment and
\* mistakes the middle of a packet for a header (link.rs:425).
ErrorsAreReal ==
    why = "malformed" => /\ Len(delivered) < stream.n
                         /\ stream.kind[Len(delivered) + 1] \notin GoodKind

\* config.rs:8 : the buffer holds one packet plus one read.
SizedForStream ==
    /\ MIN_PACKET_HEADER_SIZE + MaxChunk <= Capacity
    /\ \A i \in 1 .. stream.n : size(i) + MaxChunk <= Capacity

\* With a buffer of that size no chunk is refused as too big (link.rs:314).
SizedBufferFits == SizedForStream => why # "too_big"

\* With a buffer of that size no chunk finds the tail of the buffer too short
\* (simple_buf.rs:39, "should not happen").
SizedBufferPushes == SizedForStream => why # "push"

\* The packets up to the first one deku refuses, as their bytes.
GoodPackets ==
    [i \in 1 .. stream.good |-> [j \in 1 .. size(i) |-> stream.end[i - 1] + j]]

Pipe == INSTANCE PacketPipe WITH sent     <- GoodPackets,
                                 received <- delivered,
                                 closed   <- pc = "exit"

\* The loop is a packet pipe: it hands over the packets in order, nothing
\* after it has ended, and while it runs the next one eventually.
PipeSpec == Pipe!Spec
=============================================================================
