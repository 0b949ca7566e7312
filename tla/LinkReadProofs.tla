-------------------------- MODULE LinkReadProofs --------------------------
(***************************************************************************)
(* Proofs about link_read_loop for every capacity, chunk size, channel     *)
(* size and packet stream.                                                 *)
(*                                                                         *)
(* None of the properties is inductive: whether the next byte is a header  *)
(* depends on which bytes the buffer holds.  Aligned says which: those     *)
(* that follow the packets delivered so far, parsed ones first.  Waiting   *)
(* says what need_size stands for while the loop waits.                    *)
(*                                                                         *)
(* The second part is about Codec, the format of the packets: it is what   *)
(* the reader's view of a header (HeaderSize, a kind) rests on.            *)
(***************************************************************************)
EXTENDS LinkRead, SimpleBufProofs

Done == Len(delivered)

\* The bytes the parser has to see before it can decide about packet i.
Want(i) == IF stream.kind[i] \in GoodKind THEN size(i) ELSE MIN_PACKET_HEADER_SIZE

\* The unconsumed bytes start where the delivered packets end.
Aligned ==
    /\ Done <= stream.n
    /\ len(packet_buffer) <= rpos
    /\ rpos = stream.end[Done] + (len(packet_buffer) - consumed_bytes)
    /\ Holds(packet_buffer, rpos - len(packet_buffer))
    /\ pc = "recv" => consumed_bytes = 0
    /\ why # "none" => pc = "exit"

\* The loop waits only for bytes it needs, and need_size is not more than that.
Waiting ==
    pc = "recv" /\ Done < stream.n
      => /\ need_size <= Want(Done + 1)
         /\ len(packet_buffer) < Want(Done + 1)

Inv == /\ TypeOK
       /\ Aligned
       /\ Waiting
       /\ InOrderDelivery
       /\ ErrorsAreReal
       /\ SizedBufferFits

-----------------------------------------------------------------------------
\* A header is 1 to 8 bytes, at least MIN_PACKET_HEADER_SIZE for the ones deku
\* accepts and at most that for the ones it refuses (packets.rs:10-16).
LEMMA HeaderSizes ==
  ASSUME NEW k \in Kind
  PROVE  /\ HeaderSize[k] \in 1 .. 8
         /\ k \in GoodKind => HeaderSize[k] >= MIN_PACKET_HEADER_SIZE
         /\ k \notin GoodKind => HeaderSize[k] <= MIN_PACKET_HEADER_SIZE
BY DEF Kind, GoodKind, BadKind, HeaderSize, REQUEST_HEADER_SIZE, RESPONSE_HEADER_SIZE,
       PUSH_HEADER_SIZE, MIN_PACKET_HEADER_SIZE

\* What the assumption on streams says of packet i (packets.rs:69).
LEMMA PacketFacts ==
  ASSUME TypeOK, NEW i \in 1 .. stream.n
  PROVE  /\ stream.kind[i] \in Kind
         /\ stream.end[i - 1] \in Nat
         /\ stream.end[i] \in Nat
         /\ size(i) \in Nat
         /\ size(i) >= HeaderSize[stream.kind[i]]
         /\ stream.end[i] = stream.end[i - 1] + size(i)
         /\ Want(i) \in Nat
         /\ Want(i) >= MIN_PACKET_HEADER_SIZE
<1>1. IsStream(stream)
  BY StreamsAssumption DEF TypeOK
<1>2. i \in 0 .. stream.n /\ i - 1 \in 0 .. stream.n
  BY <1>1 DEF IsStream
<1>3. stream.kind[i] \in Kind /\ stream.end[i - 1] \in Nat /\ stream.end[i] \in Nat
  BY <1>1, <1>2 DEF IsStream
<1>4. stream.end[i] >= stream.end[i - 1] + HeaderSize[stream.kind[i]]
  BY <1>1 DEF IsStream
<1>5. HeaderSize[stream.kind[i]] \in 1 .. 8
  BY <1>3, HeaderSizes
<1>6. size(i) \in Nat /\ size(i) >= HeaderSize[stream.kind[i]]
  BY <1>3, <1>4, <1>5 DEF size
<1>7. Want(i) \in Nat /\ Want(i) >= MIN_PACKET_HEADER_SIZE
  BY <1>3, <1>5, <1>6, HeaderSizes DEF Want, MIN_PACKET_HEADER_SIZE
<1> QED BY <1>3, <1>6, <1>7 DEF size

\* No two packets start at the same byte.
LEMMA StartsDiffer ==
  ASSUME TypeOK, NEW i \in 0 .. stream.n, NEW j \in 0 .. stream.n,
         stream.end[i] = stream.end[j]
  PROVE  i = j
<1>1. IsStream(stream)
  BY StreamsAssumption DEF TypeOK
<1>2. /\ stream.end[i] \in Nat
      /\ i < j => stream.end[i] < stream.end[j]
      /\ j < i => stream.end[j] < stream.end[i]
      /\ stream.n \in Nat
  BY <1>1 DEF IsStream
<1> QED BY <1>2

\* Where the parser stands: at the first byte of the packet after the ones
\* delivered, whatever the buffer went through (link.rs:404-408).
LEMMA ParserAligned ==
  ASSUME TypeOK, Aligned
  PROVE  /\ Done \in 0 .. stream.n
         /\ stream.n \in Nat
         /\ stream.end[Done] \in Nat
         /\ stream.end[stream.n] \in Nat
         /\ rpos \in Nat
         /\ rpos - len(packet_buffer) \in Nat
         /\ len(packet_buffer) \in 0 .. Capacity
         /\ occupied_bytes \in 0 .. Capacity
         /\ rpos = stream.end[Done] + occupied_bytes
         /\ \A j \in 1 .. occupied_bytes :
              occupied(packet_buffer, consumed_bytes + j) = stream.end[Done] + j
<1>1. IsStream(stream)
  BY StreamsAssumption DEF TypeOK
<1>2. stream.n \in Nat /\ Done \in 0 .. stream.n /\ stream.end[Done] \in Nat
      /\ stream.end[stream.n] \in Nat
  BY <1>1 DEF IsStream, TypeOK, Aligned, Done
<1>3. len(packet_buffer) \in 0 .. Capacity
  BY LenBuf, SizesAssumption DEF TypeOK
<1>4. rpos \in Nat /\ consumed_bytes \in 0 .. len(packet_buffer)
  BY <1>2 DEF TypeOK
<1>5. /\ rpos - len(packet_buffer) \in Nat
      /\ occupied_bytes \in 0 .. Capacity
      /\ rpos = stream.end[Done] + occupied_bytes
      /\ rpos - len(packet_buffer) = stream.end[Done] - consumed_bytes
  BY <1>2, <1>3, <1>4, SizesAssumption DEF Aligned, occupied_bytes
<1>6. ASSUME NEW j \in 1 .. occupied_bytes
      PROVE  occupied(packet_buffer, consumed_bytes + j) = stream.end[Done] + j
  <2>1. consumed_bytes + j \in 1 .. len(packet_buffer)
    BY <1>3, <1>4 DEF occupied_bytes
  <2>2. occupied(packet_buffer, consumed_bytes + j)
          = (rpos - len(packet_buffer)) + (consumed_bytes + j)
    BY <2>1 DEF Aligned, Holds
  <2> QED BY <1>2, <1>3, <1>4, <1>5, <2>2 DEF occupied_bytes
<1> QED BY <1>2, <1>3, <1>4, <1>5, <1>6

\* The packet whose first byte the parser sees is the next one to deliver.
LEMMA NextPacket ==
  ASSUME TypeOK, Aligned, NEW i \in 1 .. stream.n, occupied_bytes > 0
  PROVE  occupied(packet_buffer, consumed_bytes + 1) = stream.end[i - 1] + 1
           <=> i = Done + 1
<1>1. occupied(packet_buffer, consumed_bytes + 1) = stream.end[Done] + 1
  BY ParserAligned
<1>2. i - 1 \in 0 .. stream.n /\ stream.end[i - 1] \in Nat
  BY PacketFacts, ParserAligned
<1>3. stream.end[i - 1] = stream.end[Done] => i - 1 = Done
  BY <1>2, StartsDiffer, ParserAligned
<1> QED BY <1>1, <1>2, <1>3, ParserAligned

-----------------------------------------------------------------------------
\* The buffer after a chunk of k bytes has been pushed (link.rs:313-323).
LEMMA PushedBuf ==
  ASSUME TypeOK, Aligned, NEW k \in 1 .. MaxChunk, CanPush(Fitted(k), k)
  PROVE  /\ IsBuf(Pushed(k), Capacity, Nat)
         /\ len(Pushed(k)) = len(packet_buffer) + k
         /\ Holds(Pushed(k), rpos - len(packet_buffer))
<1> DEFINE pos == rpos - len(packet_buffer)
<1>1. /\ IsBuf(packet_buffer, Capacity, Nat)
      /\ Holds(packet_buffer, pos)
      /\ pos \in Nat
      /\ Capacity \in Nat
      /\ k \in Nat
  BY ParserAligned, SizesAssumption DEF TypeOK, Aligned
<1>2. /\ IsBuf(Fitted(k), Capacity, Nat)
      /\ len(Fitted(k)) = len(packet_buffer)
      /\ Holds(Fitted(k), pos)
  BY <1>1, ReuseBuf DEF Fitted
<1>3. rpos = pos + len(Fitted(k))
  BY <1>2, ParserAligned
<1> HIDE DEF pos
<1>4. /\ IsBuf(push_slice(Fitted(k), rpos, k), Capacity, Nat)
      /\ len(push_slice(Fitted(k), rpos, k)) = len(Fitted(k)) + k
      /\ Holds(push_slice(Fitted(k), rpos, k), pos)
  BY <1>1, <1>2, <1>3, PushBuf
<1> QED BY <1>2, <1>4 DEF Pushed, pos

\* The buffer after parse_packet_buf's bytes are freed (link.rs:332-342).
LEMMA FreedBuf ==
  ASSUME TypeOK, Aligned
  PROVE  LET f == reuse_if(free(packet_buffer, consumed_bytes))
         IN  /\ IsBuf(f, Capacity, Nat)
             /\ len(f) = occupied_bytes
             /\ Holds(f, stream.end[Done])
<1> DEFINE pos == rpos - len(packet_buffer)
<1>1. /\ IsBuf(packet_buffer, Capacity, Nat)
      /\ Holds(packet_buffer, pos)
      /\ pos \in Nat
      /\ Capacity \in Nat
      /\ consumed_bytes \in 0 .. len(packet_buffer)
  BY ParserAligned, SizesAssumption DEF TypeOK, Aligned
<1>2. stream.end[Done] = pos + consumed_bytes /\ pos + consumed_bytes \in Nat
  BY <1>1, ParserAligned DEF occupied_bytes
<1> HIDE DEF pos
<1> DEFINE g == free(packet_buffer, consumed_bytes)
<1>3. /\ IsBuf(g, Capacity, Nat)
      /\ len(g) = len(packet_buffer) - consumed_bytes
      /\ Holds(g, stream.end[Done])
  BY <1>1, <1>2, FreeBuf
<1> HIDE DEF g
<1>4. /\ IsBuf(reuse_if(g), Capacity, Nat)
      /\ len(reuse_if(g)) = len(g)
      /\ Holds(reuse_if(g), stream.end[Done])
  BY <1>1, <1>2, <1>3, ReuseIfBuf
<1> QED BY <1>3, <1>4 DEF occupied_bytes, g

-----------------------------------------------------------------------------
\* The loop starts aligned, with an empty buffer (link.rs:303-304).
LEMMA InitInv == Init => Inv
<1> SUFFICES ASSUME Init PROVE Inv
  OBVIOUS
<1>1. IsStream(stream)
  BY StreamsAssumption DEF Init
<1>2. /\ IsBuf(packet_buffer, Capacity, Nat)
      /\ len(packet_buffer) = 0
      /\ Holds(packet_buffer, 0)
  BY NewBuf, SizesAssumption DEF Init
<1>3. stream.n \in Nat /\ stream.end[0] = 0 /\ stream.end[stream.n] \in Nat
  BY <1>1 DEF IsStream
<1>4. Done = 0
  BY DEF Init, Done
<1>5. TypeOK
  BY <1>2, <1>3 DEF Init, TypeOK, Reason, MIN_PACKET_HEADER_SIZE
<1>6. Aligned
  BY <1>2, <1>3, <1>4 DEF Init, Aligned
<1>7. Waiting
  BY <1>2, <1>3, <1>4, <1>5, PacketFacts DEF Init, Waiting, MIN_PACKET_HEADER_SIZE
<1>8. InOrderDelivery /\ ErrorsAreReal /\ SizedBufferFits
  BY <1>3 DEF Init, InOrderDelivery, ErrorsAreReal, SizedBufferFits
<1> QED BY <1>5, <1>6, <1>7, <1>8 DEF Inv

\* A stored chunk extends the unconsumed bytes (link.rs:309-344).
LEMMA ReadChunkInv ==
  ASSUME Inv, NEW k \in 1 .. MaxChunk, ReadChunk(k)
  PROVE  Inv'
<1>1. TypeOK /\ Aligned /\ Waiting /\ pc = "recv" /\ consumed_bytes = 0 /\ why = "none"
  BY DEF Inv, ReadChunk, ChunkArrives, Aligned
<1>2. k \in Nat \ {0} /\ Capacity \in Nat
  BY SizesAssumption
<1>3. /\ IsBuf(Pushed(k), Capacity, Nat)
      /\ len(Pushed(k)) = len(packet_buffer) + k
      /\ Holds(Pushed(k), rpos - len(packet_buffer))
  BY <1>1, PushedBuf DEF ReadChunk
<1>4. /\ IsBuf(packet_buffer', Capacity, Nat)
      /\ len(packet_buffer') = len(packet_buffer) + k
      /\ Holds(packet_buffer', rpos - len(packet_buffer))
  BY <1>1, <1>2, <1>3, ReuseIfBuf, ParserAligned DEF ReadChunk
<1>5. /\ UNCHANGED <<stream, need_size, consumed_bytes, delivered, taken, consumer, why>>
      /\ rpos' = rpos + k
      /\ k \in 1 .. stream.end[stream.n] - rpos
      /\ pc' \in {"recv", "parse"}
      /\ pc' = "recv" => len(packet_buffer') < need_size
  <2>1. need_size \in Nat /\ len(packet_buffer) \in Nat
    BY <1>1, ParserAligned DEF TypeOK
  <2>2. /\ UNCHANGED <<stream, need_size, consumed_bytes, delivered, taken, consumer, why>>
        /\ rpos' = rpos + k
        /\ k \in 1 .. stream.end[stream.n] - rpos
    BY DEF ReadChunk, ChunkArrives
  <2>3. CASE len(Pushed(k)) >= need_size
    BY <2>2, <2>3 DEF ReadChunk
  <2>4. CASE ~(len(Pushed(k)) >= need_size)
    <3>1. pc' = "recv"
      BY <1>1, <2>4 DEF ReadChunk
    <3>2. len(packet_buffer') < need_size
      BY <1>2, <1>3, <1>4, <2>1, <2>4
    <3> QED BY <2>2, <3>1, <3>2
  <2> QED BY <2>3, <2>4
<1>6. rpos' \in 0 .. stream.end[stream.n]
  BY <1>1, <1>2, <1>5, ParserAligned
<1>7. len(packet_buffer) \in Nat /\ Done' = Done
  BY <1>1, <1>5, ParserAligned DEF Done
<1>8. TypeOK'
  BY <1>1, <1>2, <1>4, <1>5, <1>6, <1>7 DEF TypeOK
<1>9. Aligned'
  <2>1. rpos' - len(packet_buffer') = rpos - len(packet_buffer)
    BY <1>1, <1>2, <1>4, <1>5, <1>7, ParserAligned
  <2> QED BY <1>1, <1>2, <1>4, <1>5, <1>7, <2>1, ParserAligned DEF Aligned
<1>10. Waiting'
  <2>1. Want(Done + 1)' = Want(Done + 1)
    BY <1>5, <1>7 DEF Want, size
  <2>2. SUFFICES ASSUME pc' = "recv", Done < stream.n
                 PROVE  /\ need_size <= Want(Done + 1)
                        /\ len(packet_buffer') < Want(Done + 1)
    BY <1>5, <1>7, <2>1 DEF Waiting
  <2>3. need_size <= Want(Done + 1)
    BY <1>1, <2>2 DEF Waiting
  <2>4. Done + 1 \in 1 .. stream.n
    BY <1>1, <2>2, ParserAligned
  <2>5. Want(Done + 1) \in Nat /\ need_size \in Nat
    BY <1>1, <2>4, PacketFacts DEF TypeOK
  <2> QED BY <1>2, <1>4, <1>5, <1>7, <2>2, <2>3, <2>5
<1>11. (InOrderDelivery /\ ErrorsAreReal /\ SizedBufferFits)'
  BY <1>5 DEF Inv, InOrderDelivery, ErrorsAreReal, SizedBufferFits, SizedForStream, size
<1> QED BY <1>8, <1>9, <1>10, <1>11 DEF Inv

\* A chunk is refused only when the buffer is too small for what the loop
\* waits for plus that chunk (link.rs:314).
LEMMA RejectChunkInv ==
  ASSUME Inv, NEW k \in 1 .. MaxChunk, RejectChunk(k)
  PROVE  Inv'
<1>1. TypeOK /\ Aligned /\ Waiting /\ pc = "recv" /\ consumed_bytes = 0
  BY DEF Inv, RejectChunk, ChunkArrives, Aligned
<1>2. /\ UNCHANGED <<stream, rpos, packet_buffer, need_size, consumed_bytes,
                     delivered, taken, consumer>>
      /\ pc' = "exit" /\ why' = "too_big"
      /\ TooBig(k)
      /\ k \in 1 .. stream.end[stream.n] - rpos
  BY DEF RejectChunk, Exit, ChunkArrives
<1>3. Done < stream.n
  <2>1. /\ Done \in 0 .. stream.n /\ stream.n \in Nat
        /\ rpos \in Nat /\ stream.end[Done] \in Nat /\ stream.end[stream.n] \in Nat
        /\ rpos >= stream.end[Done]
    BY <1>1, ParserAligned
  <2>2. rpos < stream.end[stream.n]
    BY <1>2, <2>1
  <2>3. Done # stream.n
    BY <2>1, <2>2
  <2> QED BY <2>1, <2>3
<1>4. ~SizedForStream
  <2>1. SUFFICES ASSUME SizedForStream PROVE FALSE
    OBVIOUS
  <2>2. len(packet_buffer) < Want(Done + 1)
    BY <1>1, <1>3 DEF Waiting
  <2>3. Done + 1 \in 1 .. stream.n
    BY <1>1, <1>3, ParserAligned
  <2>4. Want(Done + 1) + MaxChunk <= Capacity
    BY <2>1, <2>3 DEF SizedForStream, Want
  <2>5. Capacity - len(packet_buffer) < k
    BY <1>1, <1>2, LenBuf, SizesAssumption DEF TooBig, TypeOK
  <2>6. Want(Done + 1) \in Nat /\ len(packet_buffer) \in Nat
    BY <1>1, <2>3, PacketFacts, ParserAligned
  <2> QED BY <2>2, <2>4, <2>5, <2>6, SizesAssumption
<1>5. TypeOK'
  BY <1>1, <1>2 DEF TypeOK, Reason
<1>6. Aligned' /\ Waiting'
  BY <1>1, <1>2 DEF Aligned, Waiting, Done
<1>7. (InOrderDelivery /\ ErrorsAreReal /\ SizedBufferFits)'
  BY <1>2, <1>4 DEF Inv, InOrderDelivery, ErrorsAreReal, SizedBufferFits, SizedForStream, size
<1> QED BY <1>5, <1>6, <1>7 DEF Inv

\* The steps that end the loop without touching its data: a failed push, a closed
\* channel, a receiver that is gone (link.rs:321, 349, 447).
LEMMA ExitInv ==
  ASSUME Inv, NEW reason \in {"push", "consumer", "closed"}, Exit(reason),
         UNCHANGED <<stream, rpos, packet_buffer, need_size, consumed_bytes,
                     delivered, taken, consumer>>
  PROVE  Inv'
<1>1. TypeOK'
  BY DEF Inv, TypeOK, Exit, Reason
<1>2. Aligned' /\ Waiting'
  BY DEF Inv, Exit, Aligned, Waiting, Done
<1>3. (InOrderDelivery /\ ErrorsAreReal /\ SizedBufferFits)'
  BY DEF Inv, Exit, InOrderDelivery, ErrorsAreReal, SizedBufferFits, SizedForStream, size
<1> QED BY <1>1, <1>2, <1>3 DEF Inv

\* What is parsed is the next packet, byte for byte (link.rs:431-452).
LEMMA ParsedPacket ==
  ASSUME Inv, ParsePacket
  PROVE  /\ pc = "parse"
         /\ Done + 1 \in 1 .. stream.n
         /\ stream.kind[Done + 1] \in GoodKind
         /\ occupied_bytes >= size(Done + 1)
         /\ delivered' = Append(delivered,
                                [j \in 1 .. size(Done + 1) |-> stream.end[Done] + j])
         /\ consumed_bytes' = consumed_bytes + size(Done + 1)
<1>1. TypeOK /\ Aligned
  BY DEF Inv
<1>2. PICK i \in 1 .. stream.n :
        /\ GoodHeaderAt(i)
        /\ occupied_bytes >= size(i)
        /\ delivered' = Append(delivered, PacketBytes(i))
        /\ consumed_bytes' = consumed_bytes + size(i)
  BY DEF ParsePacket
<1>3. occupied_bytes > 0
  <2>1. HeaderSize[stream.kind[i]] \in 1 .. 8
    BY <1>1, PacketFacts, HeaderSizes
  <2>2. occupied_bytes >= HeaderSize[stream.kind[i]]
    BY <1>2 DEF GoodHeaderAt, HeaderAt
  <2>3. occupied_bytes \in 0 .. Capacity
    BY <1>1, ParserAligned
  <2> QED BY <2>1, <2>2, <2>3, SizesAssumption
<1>4. i = Done + 1
  BY <1>1, <1>2, <1>3, NextPacket DEF GoodHeaderAt, HeaderAt
<1>5. PacketBytes(i) = [j \in 1 .. size(i) |-> stream.end[Done] + j]
  <2>1. size(i) \in Nat
    BY <1>1, PacketFacts
  <2>2. ASSUME NEW j \in 1 .. size(i)
        PROVE  occupied(packet_buffer, consumed_bytes + j) = stream.end[Done] + j
    <3>1. j \in 1 .. occupied_bytes
      BY <1>1, <1>2, <2>1, ParserAligned
    <3> QED BY <1>1, <3>1, ParserAligned
  <2> QED BY <2>2 DEF PacketBytes
<1>6. pc = "parse" /\ stream.kind[i] \in GoodKind
  BY <1>2 DEF ParsePacket, GoodHeaderAt
<1> QED BY <1>2, <1>4, <1>5, <1>6

\* A packet handed over is the next one, and the parser moves on by its size.
LEMMA ParsePacketInv ==
  ASSUME Inv, ParsePacket
  PROVE  Inv'
<1> DEFINE m == Done + 1
           bytes == [j \in 1 .. size(m) |-> stream.end[Done] + j]
<1>1. TypeOK /\ Aligned /\ InOrderDelivery /\ ErrorsAreReal /\ SizedBufferFits
  BY DEF Inv
<1>2. /\ pc = "parse"
      /\ m \in 1 .. stream.n
      /\ stream.kind[m] \in GoodKind
      /\ occupied_bytes >= size(m)
      /\ delivered' = Append(delivered, bytes)
      /\ consumed_bytes' = consumed_bytes + size(m)
      /\ UNCHANGED <<stream, rpos, packet_buffer, need_size, pc, taken, consumer, why>>
  BY ParsedPacket DEF ParsePacket
<1>3. /\ size(m) \in Nat
      /\ stream.end[Done] \in Nat
      /\ stream.end[m] = stream.end[Done] + size(m)
      /\ Done \in Nat
  <2>1. m - 1 = Done /\ Done \in Nat
    BY <1>1, ParserAligned
  <2> QED BY <1>1, <1>2, <2>1, PacketFacts
<1>4. bytes \in Seq(Nat)
  BY <1>3
<1> HIDE DEF bytes
<1>5. delivered \in Seq(Seq(Nat)) /\ Done = Len(delivered)
  BY <1>1 DEF TypeOK, Done
<1>6. /\ delivered' \in Seq(Seq(Nat))
      /\ Len(delivered') = m
      /\ Done' = m
      /\ \A i \in 1 .. Done : delivered'[i] = delivered[i]
      /\ delivered'[m] = bytes
  BY <1>2, <1>4, <1>5 DEF Done
<1>len. /\ len(packet_buffer) \in Nat
        /\ consumed_bytes \in 0 .. len(packet_buffer)
        /\ occupied_bytes = len(packet_buffer) - consumed_bytes
        /\ rpos = stream.end[Done] + occupied_bytes
  BY <1>1, ParserAligned DEF TypeOK, occupied_bytes
<1>7. TypeOK'
  <2>1. consumed_bytes' \in 0 .. len(packet_buffer)
    BY <1>2, <1>3, <1>len
  <2>2. taken' \in 0 .. Len(delivered')
    BY <1>1, <1>2, <1>3, <1>5, <1>6 DEF TypeOK
  <2> QED BY <1>1, <1>2, <1>6, <2>1, <2>2 DEF TypeOK
<1>8. Aligned'
  <2>1. rpos = stream.end[m] + (len(packet_buffer) - consumed_bytes')
    BY <1>2, <1>3, <1>len
  <2> QED BY <1>1, <1>2, <1>6, <2>1 DEF Aligned
<1>9. Waiting'
  BY <1>2 DEF Waiting
<1>10. InOrderDelivery'
  <2>1. ASSUME NEW i \in 1 .. m
        PROVE  /\ stream.kind[i] \in GoodKind
               /\ delivered'[i] = [j \in 1 .. size(i) |-> stream.end[i - 1] + j]
    <3>1. CASE i = m
      <4>1. i - 1 = Done
        BY <1>3, <3>1
      <4> QED BY <1>2, <1>6, <3>1, <4>1 DEF bytes
    <3>2. CASE i # m
      <4>1. i \in 1 .. Len(delivered)
        BY <1>3, <1>5, <3>2
      <4> QED BY <1>1, <1>5, <1>6, <4>1 DEF InOrderDelivery
    <3> QED BY <3>1, <3>2
  <2>2. m <= stream.n
    BY <1>2
  <2>3. \A i : size(i)' = size(i)
    BY <1>2 DEF size
  <2>4. stream' = stream /\ Len(delivered') = m
    BY <1>2, <1>6
  <2> HIDE DEF m
  <2> QED BY <2>1, <2>2, <2>3, <2>4 DEF InOrderDelivery
<1>11. (ErrorsAreReal /\ SizedBufferFits)'
  <2>1. why = "none"
    BY <1>1, <1>2 DEF Aligned
  <2> QED BY <1>2, <2>1 DEF ErrorsAreReal, SizedBufferFits
<1> QED BY <1>7, <1>8, <1>9, <1>10, <1>11 DEF Inv

\* When the parser returns, the loop waits for what it really lacks
\* (link.rs:410-444, 332-342).
LEMMA ParseReturnsInv ==
  ASSUME Inv, pc = "parse", NEW n \in Nat, ParseReturns(n),
         Done < stream.n => /\ n <= Want(Done + 1)
                            /\ occupied_bytes < Want(Done + 1)
  PROVE  Inv'
<1>1. TypeOK /\ Aligned /\ why = "none"
  BY DEF Inv, Aligned
<1>2. /\ UNCHANGED <<stream, rpos, delivered, taken, consumer, why>>
      /\ packet_buffer' = reuse_if(free(packet_buffer, consumed_bytes))
      /\ need_size' = n
      /\ consumed_bytes' = 0
      /\ pc' = "recv"
      /\ Done' = Done
  BY DEF ParseReturns, Done
<1>3. /\ IsBuf(packet_buffer', Capacity, Nat)
      /\ len(packet_buffer') = occupied_bytes
      /\ Holds(packet_buffer', stream.end[Done])
  BY <1>1, <1>2, FreedBuf
<1>4. TypeOK'
  BY <1>1, <1>2, <1>3, ParserAligned DEF TypeOK
<1>5. Aligned'
  <2>1. /\ len(packet_buffer') <= rpos'
        /\ rpos' - len(packet_buffer') = stream.end[Done]
        /\ rpos' = stream.end[Done] + (len(packet_buffer') - 0)
    BY <1>1, <1>2, <1>3, ParserAligned
  <2> QED BY <1>1, <1>2, <1>3, <2>1 DEF Aligned
<1>6. Waiting'
  <2>1. Want(Done + 1)' = Want(Done + 1)
    BY <1>2 DEF Want, size
  <2> QED BY <1>2, <1>3, <2>1 DEF Waiting
<1>7. (InOrderDelivery /\ ErrorsAreReal /\ SizedBufferFits)'
  BY <1>1, <1>2 DEF Inv, InOrderDelivery, ErrorsAreReal, SizedBufferFits, size
<1> QED BY <1>4, <1>5, <1>6, <1>7 DEF Inv

\* need_bytes() of the header seen is the size waited for (link.rs:431-436).
LEMMA BodyIncompleteInv ==
  ASSUME Inv, BodyIncomplete
  PROVE  Inv'
<1>1. TypeOK /\ Aligned /\ pc = "parse"
  BY DEF Inv, BodyIncomplete
<1>2. PICK i \in 1 .. stream.n : /\ GoodHeaderAt(i)
                                 /\ occupied_bytes < size(i)
                                 /\ ParseReturns(size(i))
  BY DEF BodyIncomplete
<1>3. occupied_bytes > 0
  <2>1. HeaderSize[stream.kind[i]] \in 1 .. 8
    BY <1>1, PacketFacts, HeaderSizes
  <2>2. occupied_bytes >= HeaderSize[stream.kind[i]]
    BY <1>2 DEF GoodHeaderAt, HeaderAt
  <2>3. occupied_bytes \in 0 .. Capacity
    BY <1>1, ParserAligned
  <2> QED BY <2>1, <2>2, <2>3, SizesAssumption
<1>4. i = Done + 1 /\ size(i) \in Nat
  BY <1>1, <1>2, <1>3, NextPacket, PacketFacts DEF GoodHeaderAt, HeaderAt
<1>5. Want(Done + 1) = size(i)
  BY <1>2, <1>4 DEF Want, GoodHeaderAt
<1> QED BY <1>1, <1>2, <1>4, <1>5, ParseReturnsInv

\* Without a header the loop waits for MIN_PACKET_HEADER_SIZE (link.rs:410-428).
LEMMA HeaderIncompleteInv ==
  ASSUME Inv, HeaderIncomplete
  PROVE  Inv'
<1>1. TypeOK /\ Aligned /\ pc = "parse" /\ ParseReturns(MIN_PACKET_HEADER_SIZE)
  BY DEF Inv, HeaderIncomplete, NeedForHeader
<1>2. ASSUME Done < stream.n
      PROVE  /\ MIN_PACKET_HEADER_SIZE <= Want(Done + 1)
             /\ occupied_bytes < Want(Done + 1)
  <2>1. Done + 1 \in 1 .. stream.n
    BY <1>1, <1>2, ParserAligned
  <2>2. /\ Want(Done + 1) \in Nat
        /\ Want(Done + 1) >= MIN_PACKET_HEADER_SIZE
        /\ size(Done + 1) \in Nat
        /\ size(Done + 1) >= HeaderSize[stream.kind[Done + 1]]
        /\ stream.kind[Done + 1] \in Kind
    BY <1>1, <2>1, PacketFacts
  <2>3. CASE occupied_bytes = 0
    BY <2>2, <2>3 DEF MIN_PACKET_HEADER_SIZE
  <2>4. CASE occupied_bytes # 0
    <3>1. PICK i \in 1 .. stream.n :
            /\ occupied_bytes > 0
            /\ occupied(packet_buffer, consumed_bytes + 1) = stream.end[i - 1] + 1
            /\ occupied_bytes < HeaderSize[stream.kind[i]]
      BY <2>4 DEF HeaderIncomplete
    <3>2. i = Done + 1
      BY <1>1, <3>1, NextPacket
    <3>3. HeaderSize[stream.kind[i]] <= Want(i)
      BY <2>2, <3>2, HeaderSizes DEF Want
    <3>4. HeaderSize[stream.kind[i]] \in Nat /\ occupied_bytes \in Nat
      BY <1>1, <2>2, <3>2, HeaderSizes, ParserAligned
    <3> QED BY <2>2, <3>1, <3>2, <3>3, <3>4 DEF MIN_PACKET_HEADER_SIZE
  <2> QED BY <2>3, <2>4
<1> QED BY <1>1, <1>2, ParseReturnsInv DEF MIN_PACKET_HEADER_SIZE

\* A parse error is raised at the peer's bad header only (link.rs:425).
LEMMA ParseErrorInv ==
  ASSUME Inv, ParseError
  PROVE  Inv'
<1>1. TypeOK /\ Aligned /\ pc = "parse"
  BY DEF Inv, ParseError
<1>2. /\ UNCHANGED <<stream, rpos, packet_buffer, need_size, consumed_bytes,
                     delivered, taken, consumer>>
      /\ pc' = "exit" /\ why' = "malformed"
      /\ Malformed
  BY DEF ParseError, Exit
<1>3. occupied_bytes > 0 /\ Done < stream.n
  <2>1. rpos <= stream.end[stream.n]
    BY <1>1, ParserAligned DEF TypeOK
  <2>2. occupied_bytes > 0
    BY <1>2 DEF Malformed
  <2>3. stream.end[Done] # stream.end[stream.n]
    BY <1>1, <2>1, <2>2, ParserAligned
  <2> QED BY <1>1, <2>2, <2>3, ParserAligned
<1>4. stream.kind[Done + 1] \notin GoodKind
  <2>1. Done + 1 \in 1 .. stream.n
    BY <1>1, <1>3, ParserAligned
  <2>2. occupied(packet_buffer, consumed_bytes + 1) = stream.end[(Done + 1) - 1] + 1
    BY <1>1, <1>3, <2>1, NextPacket
  <2> QED BY <1>2, <2>1, <2>2 DEF Malformed
<1>5. TypeOK'
  BY <1>1, <1>2 DEF TypeOK, Reason
<1>6. Aligned' /\ Waiting'
  BY <1>1, <1>2 DEF Aligned, Waiting, Done
<1>7. (InOrderDelivery /\ ErrorsAreReal /\ SizedBufferFits)'
  BY <1>2, <1>3, <1>4 DEF Inv, InOrderDelivery, ErrorsAreReal, SizedBufferFits,
                          SizedForStream, size, Done
<1> QED BY <1>5, <1>6, <1>7 DEF Inv

\* The receiver's steps touch nothing the loop looks at but the channel.
LEMMA ReceiverInv ==
  ASSUME Inv, Take \/ Hangup
  PROVE  Inv'
<1>1. UNCHANGED <<stream, rpos, packet_buffer, need_size, pc, consumed_bytes, delivered, why>>
  BY DEF Take, Hangup
<1>2. TypeOK'
  <2>1. CASE Take
    BY <2>1 DEF Inv, TypeOK, Take
  <2>2. CASE Hangup
    BY <2>2 DEF Inv, TypeOK, Hangup
  <2> QED BY <2>1, <2>2
<1>3. Aligned' /\ Waiting'
  BY <1>1 DEF Inv, Aligned, Waiting, Done, Want, size
<1>4. (InOrderDelivery /\ ErrorsAreReal /\ SizedBufferFits)'
  BY <1>1 DEF Inv, InOrderDelivery, ErrorsAreReal, SizedBufferFits, SizedForStream, size
<1> QED BY <1>2, <1>3, <1>4 DEF Inv

\* Every step of the loop keeps the invariant.
LEMMA NextInv == Inv /\ [Next]_vars => Inv'
<1> SUFFICES ASSUME Inv, [Next]_vars PROVE Inv'
  OBVIOUS
<1>1. CASE RecvChunk
  <2>1. PICK k \in 1 .. MaxChunk : ReadChunk(k) \/ RejectChunk(k) \/ PushFails(k)
    BY <1>1 DEF RecvChunk
  <2>2. CASE ReadChunk(k)
    BY <2>2, ReadChunkInv
  <2>3. CASE RejectChunk(k)
    BY <2>3, RejectChunkInv
  <2>4. CASE PushFails(k)
    BY <2>4, ExitInv DEF PushFails
  <2> QED BY <2>1, <2>2, <2>3, <2>4
<1>2. CASE RecvClosed
  BY <1>2, ExitInv DEF RecvClosed
<1>3. CASE parse_packet_buf
  <2>1. CASE ParsePacket
    BY <2>1, ParsePacketInv
  <2>2. CASE SendFails
    BY <2>2, ExitInv DEF SendFails
  <2>3. CASE BodyIncomplete
    BY <2>3, BodyIncompleteInv
  <2>4. CASE HeaderIncomplete
    BY <2>4, HeaderIncompleteInv
  <2>5. CASE ParseError
    BY <2>5, ParseErrorInv
  <2> QED BY <1>3, <2>1, <2>2, <2>3, <2>4, <2>5 DEF parse_packet_buf
<1>4. CASE Take \/ Hangup
  BY <1>4, ReceiverInv
<1>5. CASE UNCHANGED vars
  <2>1. (TypeOK /\ Aligned /\ Waiting)'
    BY <1>5 DEF vars, Inv, TypeOK, Aligned, Waiting, Done, Want, size
  <2>2. (InOrderDelivery /\ ErrorsAreReal /\ SizedBufferFits)'
    BY <1>5 DEF vars, Inv, InOrderDelivery, ErrorsAreReal, SizedBufferFits,
                SizedForStream, size
  <2> QED BY <2>1, <2>2 DEF Inv
<1> QED BY <1>1, <1>2, <1>3, <1>4, <1>5 DEF Next

-----------------------------------------------------------------------------
\* The invariant holds throughout link_read_loop.
THEOREM InvHolds == Safety => []Inv
<1>1. Init => Inv
  BY InitInv
<1>2. Inv /\ [Next]_vars => Inv'
  BY NextInv
<1> QED BY <1>1, <1>2, PTL DEF Safety

\* Type correctness; with it free() after parse_packet_buf cannot fail and the
\* buffer's indices never cross (link.rs:332, simple_buf.rs:72).
THEOREM TypeCorrect == Safety => []TypeOK
<1>1. Inv => TypeOK
  BY DEF Inv
<1> QED BY <1>1, InvHolds, PTL

\* However the stream is cut, the packets arrive whole, once and in order
\* (link.rs:399-465).
THEOREM DeliveryInOrder == Safety => []InOrderDelivery
<1>1. Inv => InOrderDelivery
  BY DEF Inv
<1> QED BY <1>1, InvHolds, PTL

\* The need_size gate never holds back a packet that is complete (link.rs:327).
THEOREM GateWithholdsNothing == Safety => []NothingWithheld
<1>1. Inv => NothingWithheld
  <2> SUFFICES ASSUME Inv, pc = "recv", Done + 1 <= stream.n,
                      stream.kind[Done + 1] \in GoodKind
               PROVE  rpos < stream.end[Done + 1]
    BY DEF NothingWithheld, Done
  <2>1. TypeOK /\ Aligned /\ Waiting /\ consumed_bytes = 0
    BY DEF Inv, Aligned
  <2>2. Done + 1 \in 1 .. stream.n /\ Done < stream.n /\ (Done + 1) - 1 = Done
    BY <2>1, ParserAligned
  <2>3. len(packet_buffer) < size(Done + 1)
    BY <2>1, <2>2 DEF Waiting, Want
  <2>4. /\ stream.end[Done + 1] = stream.end[Done] + size(Done + 1)
        /\ size(Done + 1) \in Nat
    BY <2>1, <2>2, PacketFacts
  <2>5. rpos = stream.end[Done] + len(packet_buffer)
    BY <2>1, ParserAligned DEF occupied_bytes
  <2>6. stream.end[Done] \in Nat /\ len(packet_buffer) \in Nat
    BY <2>1, ParserAligned
  <2> QED BY <2>3, <2>4, <2>5, <2>6
<1> QED BY <1>1, InvHolds, PTL

\* The loop reports a malformed packet only where the peer sent one (link.rs:425).
THEOREM ParseErrorsAreReal == Safety => []ErrorsAreReal
<1>1. Inv => ErrorsAreReal
  BY DEF Inv
<1> QED BY <1>1, InvHolds, PTL

\* A buffer of one packet and one read never refuses a chunk as too big
\* (link.rs:314, config.rs:8).
THEOREM SizedBufferSuffices == Safety => []SizedBufferFits
<1>1. Inv => SizedBufferFits
  BY DEF Inv
<1> QED BY <1>1, InvHolds, PTL

\* The read loop implements the packet pipe: each step hands over the peer's
\* next good packet, ends the connection, or is invisible (link.rs:296-465).
THEOREM ImplementsPipe == Safety => Pipe!Safety
<1>1. Init => Pipe!Init
  BY DEF Init, Pipe!Init
<1>2. Inv /\ [Next]_vars => [Pipe!Next]_(Pipe!vars)
  <2> SUFFICES ASSUME Inv, [Next]_vars PROVE [Pipe!Next]_(Pipe!vars)
    OBVIOUS
  <2>1. stream' = stream
    BY DEF Next, vars, RecvChunk, ReadChunk, RejectChunk, PushFails, RecvClosed,
           parse_packet_buf, ParsePacket, SendFails, BodyIncomplete, HeaderIncomplete,
           ParseReturns, ParseError, Take, Hangup
  <2>2. GoodPackets' = GoodPackets
    BY <2>1 DEF GoodPackets, size
  <2>3. CASE ParsePacket
    <3>1. /\ pc = "parse" /\ pc' = pc
          /\ Done + 1 \in 1 .. stream.n
          /\ stream.kind[Done + 1] \in GoodKind
          /\ delivered' = Append(delivered,
                                 [j \in 1 .. size(Done + 1) |-> stream.end[Done] + j])
      BY <2>3, ParsedPacket DEF ParsePacket
    <3>2. IsStream(stream) /\ Done \in Nat
      BY StreamsAssumption, ParserAligned DEF Inv, TypeOK
    <3>3. Done + 1 \in 1 .. stream.good
      <4>1. /\ stream.good \in 0 .. stream.n
            /\ stream.n \in Nat
            /\ stream.good < stream.n => stream.kind[stream.good + 1] \in BadKind
        BY <3>2 DEF IsStream
      <4>2. \A i \in 1 .. Done : stream.kind[i] \in GoodKind
        BY DEF Inv, InOrderDelivery, Done
      <4>3. SUFFICES ASSUME stream.good < Done + 1 PROVE FALSE
        BY <3>1, <3>2, <4>1
      <4>4. stream.good + 1 \in 1 .. Done + 1
        BY <3>2, <4>1, <4>3
      <4>5. stream.kind[stream.good + 1] \in GoodKind
        BY <3>1, <3>2, <4>2, <4>4
      <4>6. stream.kind[stream.good + 1] \in BadKind
        BY <3>1, <3>2, <4>1, <4>3
      <4> QED BY <4>5, <4>6 DEF GoodKind, BadKind
    <3>4. Len(GoodPackets) = stream.good
      <4>1. stream.good \in Nat
        BY <3>2 DEF IsStream
      <4> QED BY <4>1 DEF GoodPackets
    <3>5. GoodPackets[Done + 1] = [j \in 1 .. size(Done + 1) |-> stream.end[Done] + j]
      <4>1. (Done + 1) - 1 = Done
        BY <3>2
      <4> QED BY <3>3, <4>1 DEF GoodPackets
    <3>6. stream.good \in Nat
      BY <3>2 DEF IsStream
    <3> QED BY <2>2, <3>1, <3>2, <3>3, <3>4, <3>5, <3>6
            DEF Pipe!Next, Pipe!Deliver, Done
  <2>4. CASE ~ParsePacket
    <3>1. delivered' = delivered
      BY <2>4 DEF Next, vars, RecvChunk, ReadChunk, RejectChunk, PushFails, RecvClosed,
             parse_packet_buf, SendFails, BodyIncomplete, HeaderIncomplete,
             ParseReturns, ParseError, Take, Hangup
    <3>2. pc = "exit" => pc' = "exit"
      BY <2>4 DEF Next, vars, RecvChunk, ReadChunk, RejectChunk, PushFails, ChunkArrives,
             RecvClosed, parse_packet_buf, SendFails, BodyIncomplete, HeaderIncomplete,
             ParseReturns, ParseError, Take, Hangup
    <3>3. CASE pc # "exit" /\ pc' = "exit"
      BY <2>2, <3>1, <3>3 DEF Pipe!Next, Pipe!Close
    <3>4. CASE ~(pc # "exit" /\ pc' = "exit")
      BY <2>2, <3>1, <3>2, <3>4 DEF Pipe!vars
    <3> QED BY <3>3, <3>4
  <2> QED BY <2>3, <2>4
<1> QED BY <1>1, <1>2, InvHolds, PTL DEF Safety, Pipe!Safety

-----------------------------------------------------------------------------
(* The packets themselves: what packets.rs writes it reads back, for every *)
(* packet and whatever follows it in the buffer, and from_bytes decides on *)
(* a header exactly where the reader's table of header sizes says it does. *)

\* A 24-bit number is written as three bytes and read back from them.
LEMMA Be24 ==
  ASSUME NEW n \in Bits24
  PROVE  /\ hi(n) \in Byte /\ mid(n) \in Byte /\ lo(n) \in Byte
         /\ be24(hi(n), mid(n), lo(n)) = n
<1> DEFINE m == n \div 256
<1>1. /\ n \in Nat
      /\ m \div 256 < 256
  BY DEF Bits24, hi
<1>2. /\ m \in Nat
      /\ n % 256 \in 0 .. 255
      /\ n = 256 * m + (n % 256)
  BY <1>1
<1>3. /\ m \div 256 \in 0 .. 255 /\ m % 256 \in 0 .. 255
      /\ m = 256 * (m \div 256) + (m % 256)
  <2> HIDE DEF m
  <2> QED  BY <1>1, <1>2
<1> QED  BY <1>2, <1>3 DEF Byte, hi, mid, lo, be24

\* The three fields of the first byte are written and read back.
LEMMA FirstByte ==
  ASSUME NEW p, p.tag \in 0 .. 3, p.reserved \in 0 .. 3, p.command \in 0 .. 15
  PROVE  /\ first(p) \in Byte
         /\ first(p) \div 64 = p.tag
         /\ (first(p) \div 16) % 4 = p.reserved
         /\ first(p) % 16 = p.command
<1> DEFINE t == p.tag  r == p.reserved  c == p.command
<1>1. first(p) = 64 * t + 16 * r + c
  BY DEF first
<1>2. t \in 0 .. 3 /\ r \in 0 .. 3 /\ c \in 0 .. 15
  OBVIOUS
<1> HIDE DEF t, r, c
<1>3. first(p) \in Byte  BY <1>1, <1>2 DEF Byte
<1>4. first(p) \div 64 = t  BY <1>1, <1>2
<1>5. first(p) \div 16 = 4 * t + r  BY <1>1, <1>2
<1>6. (4 * t + r) % 4 = r  BY <1>2
<1>7. first(p) % 16 = c  BY <1>1, <1>2
<1> QED  BY <1>3, <1>4, <1>5, <1>6, <1>7 DEF t, r, c

\* The elements of a concatenation.
LEMMA Concat ==
  ASSUME NEW S, NEW s \in Seq(S), NEW t \in Seq(S)
  PROVE  /\ s \o t \in Seq(S)
         /\ Len(s \o t) = Len(s) + Len(t)
         /\ \A i \in 1 .. Len(s) : (s \o t)[i] = s[i]
         /\ \A i \in 1 .. Len(t) : (s \o t)[Len(s) + i] = t[i]
OBVIOUS

\* A part of a sequence that has the elements of another is that sequence.
LEMMA Part ==
  ASSUME NEW S, NEW s \in Seq(S), NEW t \in Seq(S), NEW k \in Nat,
         k + Len(t) <= Len(s),
         \A i \in 1 .. Len(t) : s[k + i] = t[i]
  PROVE  SubSeq(s, k + 1, k + Len(t)) = t
OBVIOUS

\* The bytes of a buffer that starts with a header h and a body.
LEMMA Front ==
  ASSUME NEW h \in Seq(Byte), NEW body \in Seq(Byte), NEW rest \in Seq(Byte),
         NEW b, b = (h \o body) \o rest
  PROVE  /\ b \in Seq(Byte)
         /\ Len(h \o body) = Len(h) + Len(body)
         /\ Len(b) = Len(h) + Len(body) + Len(rest)
         /\ \A i \in 1 .. Len(h) : b[i] = h[i]
         /\ SubSeq(b, Len(h) + 1, Len(h) + Len(body)) = body
<1>1. PICK w \in Seq(Byte) : w = h \o body
  BY Concat
<1>2. /\ Len(w) = Len(h) + Len(body)
      /\ \A i \in 1 .. Len(h) : w[i] = h[i]
      /\ \A i \in 1 .. Len(body) : w[Len(h) + i] = body[i]
  BY <1>1, Concat
<1>3. b \in Seq(Byte) /\ b = w \o rest
  BY <1>1, Concat
<1>4. /\ Len(b) = Len(w) + Len(rest)
      /\ \A i \in 1 .. Len(w) : b[i] = w[i]
  BY <1>3, Concat
<1>5. Len(body) \in Nat /\ Len(rest) \in Nat /\ Len(h) \in Nat
  OBVIOUS
<1>6. Len(b) = Len(h) + Len(body) + Len(rest) /\ Len(h) + Len(body) <= Len(b)
  BY <1>2, <1>4, <1>5
<1>7. ASSUME NEW i \in 1 .. Len(h)  PROVE b[i] = h[i]
  <2>1. i \in 1 .. Len(w)
    BY <1>2, <1>5
  <2> QED  BY <1>2, <1>4, <2>1, Zenon
<1>8. ASSUME NEW i \in 1 .. Len(body)  PROVE b[Len(h) + i] = body[i]
  <2>1. Len(h) + i \in 1 .. Len(w)
    BY <1>2, <1>5
  <2> QED  BY <1>2, <1>4, <2>1, Zenon
<1>9. SubSeq(b, Len(h) + 1, Len(h) + Len(body)) = body
  BY <1>3, <1>5, <1>6, <1>8, Part
<1> QED  BY <1>1, <1>2, <1>3, <1>6, <1>7, <1>9, Zenon

\* The first n bytes of a buffer, as facts about each.
LEMMA Five ==
  ASSUME NEW b, NEW b1, NEW b2, NEW b3, NEW b4, NEW b5,
         \A i \in 1 .. 5 : b[i] = <<b1, b2, b3, b4, b5>>[i]
  PROVE  b[1] = b1 /\ b[2] = b2 /\ b[3] = b3 /\ b[4] = b4 /\ b[5] = b5
OBVIOUS

LEMMA Eight ==
  ASSUME NEW b, NEW b1, NEW b2, NEW b3, NEW b4, NEW b5, NEW b6, NEW b7, NEW b8,
         \A i \in 1 .. 8 : b[i] = <<b1, b2, b3, b4, b5, b6, b7, b8>>[i]
  PROVE  /\ b[1] = b1 /\ b[2] = b2 /\ b[3] = b3 /\ b[4] = b4
         /\ b[5] = b5 /\ b[6] = b6 /\ b[7] = b7 /\ b[8] = b8
OBVIOUS

\* The fields of a packet that fits the format.
LEMMA FieldsFit ==
  ASSUME NEW p, Fits(p)
  PROVE  /\ p.tag \in 0 .. 2 /\ p.reserved \in 0 .. 3 /\ p.command \in 0 .. 13
         /\ p.id \in Bits24 /\ p.ext \in Byte /\ p.ext <= MaxExt(p.tag)
         /\ p.body \in Seq(Byte) /\ Len(p.body) \in Bits24
         /\ p.tag = 2 => p.id = 0
         /\ p = [tag |-> p.tag, reserved |-> p.reserved, command |-> p.command,
                 id |-> p.id, ext |-> p.ext, body |-> p.body]
BY DEF Fits, Packet, MaxCommand, PushTag

\* A buffer whose first byte is a packet's is read as one with its tag, reserved
\* bits and command.
LEMMA FirstRead ==
  ASSUME NEW p, Fits(p), NEW b, b[1] = first(p)
  PROVE  /\ first(p) \in Byte
         /\ tag(b) = p.tag /\ reserved(b) = p.reserved /\ command(b) = p.command
<1>1. p.tag \in 0 .. 3 /\ p.reserved \in 0 .. 3 /\ p.command \in 0 .. 15
  BY FieldsFit
<1> QED  BY <1>1, FirstByte DEF tag, reserved, command

\* A header with known fields, of which every byte is there, is accepted.
LEMMA Accepted ==
  ASSUME NEW b, Len(b) \in Nat, NEW t, tag(b) = t, t \in 0 .. 2, command(b) \in 0 .. 13,
         NEW e, b[ext_at(b)] = e, e \in Byte, e <= MaxExt(t),
         Len(b) >= header_size(b), header_size(b) \in {5, 8}
  PROVE  verdict(b) = "ok"
<1>1. MaxExt(t) \in Nat  BY DEF MaxExt
<1>2. ~Refused(b)
  BY <1>1 DEF Refused, PushTag, MaxCommand, Byte
<1>3. ~Incomplete(b)
  BY DEF Incomplete
<1> QED  BY <1>2, <1>3 DEF verdict

\* A packet that was written, whatever bytes follow it in the buffer, is read
\* back as it was (packets.rs, used by link_write_loop, link.rs:373, and
\* parse_packet_buf, link.rs:410 and 431): the header is accepted, need_bytes is
\* the packet's total_bytes and the number of bytes written, and from_bytes
\* returns every field and the body.
THEOREM RoundTrip ==
  ASSUME NEW p, Fits(p), NEW rest \in Seq(Byte)
  PROVE  LET b == to_bytes(p) \o rest
         IN  /\ verdict(b) = "ok"
             /\ need_bytes(b) = total_bytes(p)
             /\ Len(to_bytes(p)) = total_bytes(p)
             /\ from_bytes(b) = p
<1> DEFINE n == Len(p.body)
           id == p.id
<1>1. /\ p.tag \in 0 .. 2 /\ p.reserved \in 0 .. 3 /\ p.command \in 0 .. 13
      /\ id \in Bits24 /\ p.ext \in Byte /\ p.ext <= MaxExt(p.tag)
      /\ p.body \in Seq(Byte) /\ n \in Bits24 /\ n \in Nat
      /\ p.tag = 2 => id = 0
  BY FieldsFit DEF Bits24
<1>2. /\ hi(id) \in Byte /\ mid(id) \in Byte /\ lo(id) \in Byte
      /\ be24(hi(id), mid(id), lo(id)) = id
      /\ hi(n) \in Byte /\ mid(n) \in Byte /\ lo(n) \in Byte
      /\ be24(hi(n), mid(n), lo(n)) = n
  BY <1>1, Be24
<1>3. first(p) \in Byte
  <2>1. p.tag \in 0 .. 3 /\ p.reserved \in 0 .. 3 /\ p.command \in 0 .. 15
    BY <1>1
  <2> QED  BY <2>1, FirstByte
<1>4. CASE p.tag = 2
  <2> DEFINE h == <<first(p), p.ext, hi(n), mid(n), lo(n)>>
  <2>1. h \in Seq(Byte) /\ Len(h) = 5
    BY <1>1, <1>2, <1>3
  <2>2. to_bytes(p) = h \o p.body /\ total_bytes(p) = n + 5
    BY <1>4 DEF to_bytes, header, total_bytes, PushTag, PUSH_HEADER_SIZE
  <2>3. PICK b : b = to_bytes(p) \o rest
    OBVIOUS
  <2>4. /\ b \in Seq(Byte) /\ Len(to_bytes(p)) = 5 + n
        /\ Len(b) = 5 + n + Len(rest)
        /\ \A i \in 1 .. 5 : b[i] = h[i]
        /\ SubSeq(b, 5 + 1, 5 + n) = p.body
    <3> HIDE DEF h
    <3>1. b = (h \o p.body) \o rest
      BY <2>2, <2>3
    <3>2. h \in Seq(Byte) /\ p.body \in Seq(Byte)
      BY <1>1, <2>1
    <3>3. /\ b \in Seq(Byte) /\ Len(h \o p.body) = Len(h) + Len(p.body)
          /\ Len(b) = Len(h) + Len(p.body) + Len(rest)
          /\ \A i \in 1 .. Len(h) : b[i] = h[i]
          /\ SubSeq(b, Len(h) + 1, Len(h) + Len(p.body)) = p.body
      BY <3>1, <3>2, Front
    <3> QED  BY <2>1, <2>2, <3>3, Zenon
  <2>5. b[1] = first(p) /\ b[2] = p.ext /\ b[3] = hi(n) /\ b[4] = mid(n) /\ b[5] = lo(n)
    BY <2>4, Five
  <2> HIDE DEF h
  <2>6. tag(b) = 2 /\ reserved(b) = p.reserved /\ command(b) = p.command
    BY <1>4, <2>5, FirstRead
  <2>7. ext_at(b) = 2 /\ header_size(b) = 5
    BY <2>6 DEF ext_at, header_size, PushTag, PUSH_HEADER_SIZE
  <2>8. body_len(b) = n
    BY <1>2, <2>5, <2>7 DEF body_len
  <2>9. need_bytes(b) = 5 + n
    BY <1>1, <2>7, <2>8 DEF need_bytes
  <2>10. Len(b) \in Nat /\ Len(b) >= 5
    <3>1. PICK l \in Nat : l = Len(rest)  OBVIOUS
    <3> HIDE DEF n
    <3> QED  BY <1>1, <2>4, <3>1
  <2>11. verdict(b) = "ok"
    BY <1>1, <1>4, <2>5, <2>6, <2>7, <2>10, Accepted
  <2>12. from_bytes(b) = [tag |-> 2, reserved |-> p.reserved, command |-> p.command,
                          id |-> 0, ext |-> p.ext, body |-> p.body]
    BY <2>4, <2>5, <2>6, <2>7, <2>9 DEF from_bytes, PushTag
  <2>13. from_bytes(b) = p
    BY <1>1, <1>4, <2>12, FieldsFit
  <2> QED  BY <1>1, <2>2, <2>3, <2>4, <2>9, <2>11, <2>13
<1>5. CASE p.tag # 2
  <2> DEFINE h == <<first(p), hi(id), mid(id), lo(id), p.ext, hi(n), mid(n), lo(n)>>
  <2>1. h \in Seq(Byte) /\ Len(h) = 8
    BY <1>1, <1>2, <1>3
  <2>2. to_bytes(p) = h \o p.body /\ total_bytes(p) = n + 8
    BY <1>5 DEF to_bytes, header, total_bytes, PushTag, REQUEST_HEADER_SIZE
  <2>3. PICK b : b = to_bytes(p) \o rest
    OBVIOUS
  <2>4. /\ b \in Seq(Byte) /\ Len(to_bytes(p)) = 8 + n
        /\ Len(b) = 8 + n + Len(rest)
        /\ \A i \in 1 .. 8 : b[i] = h[i]
        /\ SubSeq(b, 8 + 1, 8 + n) = p.body
    <3> HIDE DEF h
    <3>1. b = (h \o p.body) \o rest
      BY <2>2, <2>3
    <3>2. h \in Seq(Byte) /\ p.body \in Seq(Byte)
      BY <1>1, <2>1
    <3>3. /\ b \in Seq(Byte) /\ Len(h \o p.body) = Len(h) + Len(p.body)
          /\ Len(b) = Len(h) + Len(p.body) + Len(rest)
          /\ \A i \in 1 .. Len(h) : b[i] = h[i]
          /\ SubSeq(b, Len(h) + 1, Len(h) + Len(p.body)) = p.body
      BY <3>1, <3>2, Front
    <3> QED  BY <2>1, <2>2, <3>3, Zenon
  <2>5. /\ b[1] = first(p) /\ b[2] = hi(id) /\ b[3] = mid(id) /\ b[4] = lo(id)
        /\ b[5] = p.ext /\ b[6] = hi(n) /\ b[7] = mid(n) /\ b[8] = lo(n)
    BY <2>4, Eight
  <2> HIDE DEF h
  <2>6. tag(b) = p.tag /\ reserved(b) = p.reserved /\ command(b) = p.command
    BY <2>5, FirstRead
  <2>7. ext_at(b) = 5 /\ header_size(b) = 8
    BY <1>5, <2>6 DEF ext_at, header_size, PushTag, REQUEST_HEADER_SIZE
  <2>8. body_len(b) = n /\ be24(b[2], b[3], b[4]) = id
    BY <1>2, <2>5, <2>7 DEF body_len
  <2>9. need_bytes(b) = 8 + n
    BY <1>1, <2>7, <2>8 DEF need_bytes
  <2>10. Len(b) \in Nat /\ Len(b) >= 8
    <3>1. PICK l \in Nat : l = Len(rest)  OBVIOUS
    <3> HIDE DEF n
    <3> QED  BY <1>1, <2>4, <3>1
  <2>11. verdict(b) = "ok"
    BY <1>1, <1>5, <2>5, <2>6, <2>7, <2>10, Accepted
  <2>12. from_bytes(b) = [tag |-> p.tag, reserved |-> p.reserved, command |-> p.command,
                          id |-> p.id, ext |-> p.ext, body |-> p.body]
    BY <1>5, <2>4, <2>5, <2>6, <2>7, <2>8, <2>9 DEF from_bytes, PushTag
  <2>13. from_bytes(b) = p
    BY <2>12, FieldsFit
  <2> QED  BY <1>1, <2>2, <2>3, <2>4, <2>9, <2>11, <2>13
<1> QED  BY <1>4, <1>5

\* The ranges of a byte and of its fields.
LEMMA InByte ==
  ASSUME NEW x \in Byte
  PROVE  x \in 0 .. 255 /\ x \div 64 \in 0 .. 3 /\ x % 16 \in 0 .. 15
BY DEF Byte

\* When PacketHeader::from_bytes is called on the first bytes s of a buffer b, it
\* decides exactly once HeaderSize[kind(b)] bytes are there (parse_packet_buf,
\* link.rs:410): before that it asks for more, from there on it accepts a header
\* with known fields and refuses any other.  LinkRead takes this table of kinds
\* and sizes for its headers.
THEOREM HeaderDecided ==
  ASSUME NEW b \in Seq(Byte), Len(b) >= 8,
         NEW s \in Seq(Byte), Len(s) <= Len(b),
         \A i \in 1 .. Len(s) : s[i] = b[i]
  PROVE  verdict(s) = IF Len(s) < HeaderSize[kind(b)] THEN "incomplete"
                      ELSE IF kind(b) \in GoodKind THEN "ok" ELSE "error"
<1>1. PICK n \in Nat : n = Len(s)
  OBVIOUS
<1>2. PICK t \in 0 .. 3 : t = tag(b)
  <2>1. b[1] \in Byte  OBVIOUS
  <2> QED  BY <2>1, InByte DEF tag
<1>3. PICK c \in 0 .. 15 : c = command(b)
  <2>1. b[1] \in Byte  OBVIOUS
  <2> QED  BY <2>1, InByte DEF command
<1>4. b[2] \in 0 .. 255 /\ b[5] \in 0 .. 255
  <2>1. b[2] \in Byte /\ b[5] \in Byte  OBVIOUS
  <2> QED  BY <2>1, InByte
<1>5. n >= 1 => tag(s) = t /\ command(s) = c
  BY <1>1, <1>2, <1>3 DEF tag, command
<1>6. (n >= 2 => s[2] = b[2]) /\ (n >= 5 => s[5] = b[5])
  BY <1>1
<1>7. /\ HeaderSize["request"] = 8 /\ HeaderSize["response"] = 8 /\ HeaderSize["push"] = 5
      /\ HeaderSize["badtag"] = 1 /\ HeaderSize["badmsg"] = 2 /\ HeaderSize["badstatus"] = 5
  BY DEF HeaderSize, Kind, GoodKind, BadKind, REQUEST_HEADER_SIZE, RESPONSE_HEADER_SIZE,
         PUSH_HEADER_SIZE
<1>8. CASE n = 0
  <2>1. verdict(s) = "incomplete"
    BY <1>1, <1>8 DEF verdict, Refused, Incomplete
  <2>2. n < HeaderSize[kind(b)]
    BY <1>7, <1>8 DEF kind
  <2> QED  BY <1>1, <2>1, <2>2
<1>9. CASE n >= 1 /\ (t > 2 \/ c > 13)
  <2>1. kind(b) = "badtag"
    BY <1>2, <1>3, <1>9 DEF kind, PushTag, MaxCommand
  <2>2. verdict(s) = "error"
    BY <1>1, <1>5, <1>9 DEF verdict, Refused, PushTag, MaxCommand
  <2> QED  BY <1>1, <1>7, <1>9, <2>1, <2>2 DEF GoodKind
<1>10. CASE n >= 1 /\ t = 2 /\ c <= 13
  <2>1. kind(b) = IF b[2] > 7 THEN "badmsg" ELSE "push"
    BY <1>2, <1>3, <1>10 DEF kind, PushTag, MaxCommand, MaxExt, RequestTag, ResponseTag
  <2>2. /\ ext_at(s) = 2 /\ header_size(s) = 5
        /\ Refused(s) <=> n >= 2 /\ s[2] > 7
    BY <1>1, <1>5, <1>10 DEF ext_at, header_size, Refused, PushTag, MaxCommand, MaxExt,
       RequestTag, ResponseTag, PUSH_HEADER_SIZE
  <2>3. Incomplete(s) <=> ~Refused(s) /\ n < 5
    BY <1>1, <1>10, <2>2 DEF Incomplete
  <2> QED  BY <1>1, <1>4, <1>6, <1>7, <1>10, <2>1, <2>2, <2>3 DEF verdict, GoodKind
<1>11. CASE n >= 1 /\ t = 1 /\ c <= 13
  <2>1. kind(b) = IF b[5] > 8 THEN "badstatus" ELSE "response"
    BY <1>2, <1>3, <1>11 DEF kind, PushTag, MaxCommand, MaxExt, RequestTag, ResponseTag
  <2>2. /\ ext_at(s) = 5 /\ header_size(s) = 8
        /\ Refused(s) <=> n >= 5 /\ s[5] > 8
    BY <1>1, <1>5, <1>11 DEF ext_at, header_size, Refused, PushTag, MaxCommand, MaxExt,
       RequestTag, ResponseTag, REQUEST_HEADER_SIZE
  <2>3. Incomplete(s) <=> ~Refused(s) /\ n < 8
    BY <1>1, <1>11, <2>2 DEF Incomplete
  <2> QED  BY <1>1, <1>4, <1>6, <1>7, <1>11, <2>1, <2>2, <2>3 DEF verdict, GoodKind
<1>12. CASE n >= 1 /\ t = 0 /\ c <= 13
  <2>1. kind(b) = "request"
    BY <1>2, <1>3, <1>12 DEF kind, PushTag, MaxCommand, ResponseTag
  <2>2. /\ ext_at(s) = 5 /\ header_size(s) = 8
        /\ Refused(s) <=> n >= 5 /\ s[5] > 255
    BY <1>1, <1>5, <1>12 DEF ext_at, header_size, Refused, PushTag, MaxCommand, MaxExt,
       RequestTag, ResponseTag, REQUEST_HEADER_SIZE
  <2>3. ~Refused(s)
    <3>1. PICK z \in 0 .. 255 : z = b[5]  BY <1>4
    <3>2. ~(z > 255)  OBVIOUS
    <3>3. n >= 5 => ~(s[5] > 255)
      <4> SUFFICES ASSUME n >= 5  PROVE ~(s[5] > 255)
        OBVIOUS
      <4>1. s[5] = z  BY <1>6, <3>1
      <4> QED  BY <3>2, <4>1, Zenon
    <3> QED  BY <2>2, <3>3, Zenon
  <2>4. Incomplete(s) <=> n < 8
    BY <1>1, <1>12, <2>2, <2>3 DEF Incomplete
  <2> QED  BY <1>1, <1>7, <1>12, <2>1, <2>3, <2>4 DEF verdict, GoodKind
<1> QED  BY <1>1, <1>8, <1>9, <1>10, <1>11, <1>12

\* Trimming leaves an id that fits the 24 bits of the field.
LEMMA Trimmed ==
  ASSUME NEW id \in Nat
  PROVE  request_id_trim(id) \in Bits24
<1>1. PICK x \in 0 .. 255 : x = hi(id) % 256
  <2>1. hi(id) \in Nat  BY DEF hi
  <2> QED  BY <2>1
<1>2. PICK y \in 0 .. 255 : y = mid(id)
  <2>1. id \div 256 \in Nat  OBVIOUS
  <2> QED  BY <2>1 DEF mid
<1>3. PICK z \in 0 .. 255 : z = lo(id)
  BY DEF lo
<1>4. request_id_trim(id) = 256 * (256 * x + y) + z
  BY <1>1, <1>2, <1>3 DEF request_id_trim, be24
<1>5. (256 * (256 * x + y) + z) \div 256 = 256 * x + y
  OBVIOUS
<1>6. (256 * x + y) \div 256 = x
  OBVIOUS
<1>7. 256 * (256 * x + y) + z \in Nat
  OBVIOUS
<1> QED  BY <1>4, <1>5, <1>6, <1>7 DEF Bits24, hi

\* What Packet's constructors make fits the wire format, for every id a counter
\* may have reached and every body of less than 2^24 bytes (packets.rs:79-164), so
\* that RoundTrip applies to it; a response carries the id of its request.
THEOREM ConstructedFits ==
  ASSUME NEW cmd \in 0 .. MaxCommand, NEW id \in Nat,
         NEW body \in Seq(Byte), Len(body) \in Bits24,
         NEW status \in 0 .. 8,
         NEW req, Fits(req), req.tag = RequestTag
  PROVE  /\ Fits(new_request(cmd, id, body))
         /\ Fits(new_response_from(req, status, body))
         /\ Fits(new_heartbeat_response(req))
         /\ new_response_from(req, status, body).id = req.id
         /\ new_heartbeat_response(req).id = req.id
<1>1. request_id_trim(id) \in Bits24
  BY Trimmed
<1>2. Fits(new_request(cmd, id, body))
  BY <1>1 DEF Fits, Packet, new_request, MaxExt, RequestTag, PushTag,
     DEFAULT_REQUEST_TIMEOUT, Byte
<1>3. /\ req.command \in 0 .. MaxCommand /\ req.id \in Bits24
      /\ req.body \in Seq(Byte) /\ Len(req.body) \in Bits24
  BY DEF Fits, Packet
<1>4. Fits(new_response_from(req, status, body))
  BY <1>3 DEF Fits, Packet, new_response_from, MaxExt, RequestTag, ResponseTag, PushTag, Byte
<1>5. Fits(new_heartbeat_response(req))
  BY <1>3 DEF Fits, Packet, new_heartbeat_response, MaxExt, RequestTag, ResponseTag,
     PushTag, Byte, Heartbeat, Success, MaxCommand
<1> QED  BY <1>2, <1>4, <1>5 DEF new_response_from, new_heartbeat_response
=============================================================================
