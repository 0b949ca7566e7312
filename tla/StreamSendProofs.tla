------------------------- MODULE StreamSendProofs -------------------------
(***************************************************************************)
(* Proofs about the sending half of quic_process_loop, for every buffer    *)
(* capacity, every set of packet sizes and every flow-control behaviour.   *)
(*                                                                         *)
(* The properties are not inductive: that the bytes come out in order      *)
(* depends on what waits in the buffer.  InLine accounts for every byte:   *)
(* what is on the wire, then what is in the buffer, then the rest of the   *)
(* packet in hand; and while a packet is sent nothing older waits, unless  *)
(* the stream is blocked and no byte of the packet has gone out.           *)
(***************************************************************************)
EXTENDS StreamSend, SimpleBufProofs

InLine ==
    /\ Len(wire) + len(stream_send_buffer) = base + sent
    /\ Holds(stream_send_buffer, Len(wire))
    /\ pc \in {"select", "flush", "tickflush"} => sent = 0
    /\ pc = "send" => len(stream_send_buffer) = 0 \/ (credit = 0 /\ sent = 0)

\* The room check passed for the packet being sent.
RoomChecked ==
    pc = "send" => len(stream_send_buffer) >= b \/ max_len(stream_send_buffer) >= b

Inv == TypeOK /\ InLine /\ RoomChecked /\ StreamIntegrity

-----------------------------------------------------------------------------
\* What the types say of the numbers.
LEMMA Numbers ==
  ASSUME TypeOK
  PROVE  /\ Capacity \in Nat
         /\ MaxCredit \in Nat
         /\ credit \in Nat
         /\ b \in Nat
         /\ sent \in Nat
         /\ base \in Nat
         /\ Len(wire) \in Nat
         /\ len(stream_send_buffer) \in 0 .. Capacity
         /\ max_len(stream_send_buffer) = Capacity - len(stream_send_buffer)
<1>1. Capacity \in Nat /\ MaxCredit \in Nat /\ Sizes \subseteq Nat
  BY SizesAssumption
<1>2. b \in Nat
  BY <1>1 DEF TypeOK
<1>3. credit \in Nat /\ sent \in Nat /\ base \in Nat /\ Len(wire) \in Nat
  BY <1>1, <1>2 DEF TypeOK
<1> QED BY <1>1, <1>2, <1>3, LenBuf DEF TypeOK

\* stream_send appends the bytes it takes: in order, if they come next
\* (link.rs:165, 247).
LEMMA WireGrows ==
  ASSUME wire \in Seq(Nat), StreamIntegrity, NEW n \in Nat, NEW data,
         \A j \in 1 .. n : data[j] = Len(wire) + j,
         wire' = wire \o [j \in 1 .. n |-> data[j]]
  PROVE  /\ wire' \in Seq(Nat)
         /\ Len(wire') = Len(wire) + n
         /\ StreamIntegrity'
<1> DEFINE new_bytes == [j \in 1 .. n |-> data[j]]
<1>1. Len(wire) \in Nat
  OBVIOUS
<1>2. \A j \in 1 .. n : new_bytes[j] = Len(wire) + j
  OBVIOUS
<1>3. new_bytes \in Seq(Nat) /\ Len(new_bytes) = n
  BY <1>1
<1> HIDE DEF new_bytes
<1>4. wire' = wire \o new_bytes
  BY DEF new_bytes
<1>5. wire' \in Seq(Nat) /\ Len(wire') = Len(wire) + n
  BY <1>3, <1>4
<1>6. ASSUME NEW i \in 1 .. Len(wire') PROVE wire'[i] = i
  <2>1. CASE i <= Len(wire)
    <3>1. i \in 1 .. Len(wire)
      BY <1>1, <2>1
    <3>2. wire'[i] = wire[i]
      BY <1>3, <1>4, <3>1
    <3> QED BY <3>1, <3>2 DEF StreamIntegrity
  <2>2. CASE ~(i <= Len(wire))
    <3>1. i - Len(wire) \in 1 .. n
      BY <1>1, <1>5, <2>2
    <3>2. i \in Len(wire) + 1 .. Len(wire) + Len(new_bytes)
      BY <1>1, <1>3, <1>5, <2>2
    <3>3. (wire \o new_bytes)[i] = new_bytes[i - Len(wire)]
      BY <1>1, <1>3, <3>2
    <3> QED BY <1>1, <1>2, <1>4, <3>1, <3>3
  <2> QED BY <2>1, <2>2
<1> QED BY <1>5, <1>6 DEF StreamIntegrity

\* Making room does not touch the bytes, and leaves max_len() at the tail when
\* the buffer held less than the packet (link.rs:234-242, 269-276).
LEMMA RoomyBuf ==
  ASSUME Capacity \in Nat, NEW buf, IsBuf(buf, Capacity, Nat),
         NEW pos \in Nat, Holds(buf, pos)
  PROVE  /\ IsBuf(Roomy(buf), Capacity, Nat)
         /\ len(Roomy(buf)) = len(buf)
         /\ Holds(Roomy(buf), pos)
         /\ LacksRoom(buf) => vacant_len(Roomy(buf)) = max_len(buf)
BY ReuseBuf DEF Roomy

-----------------------------------------------------------------------------
\* The loop starts with nothing in line.
LEMMA InitInv == Init => Inv
<1> SUFFICES ASSUME Init PROVE Inv
  OBVIOUS
<1>1. /\ IsBuf(stream_send_buffer, Capacity, Nat)
      /\ len(stream_send_buffer) = 0
      /\ Holds(stream_send_buffer, 0)
  BY NewBuf, SizesAssumption DEF Init
<1>2. TypeOK
  BY <1>1, SizesAssumption DEF Init, TypeOK
<1>3. InLine /\ RoomChecked /\ StreamIntegrity
  BY <1>1 DEF Init, InLine, RoomChecked, StreamIntegrity
<1> QED BY <1>2, <1>3 DEF Inv

\* Steps that move no byte and do not enter or disturb the sending of a packet.
LEMMA QuietInv ==
  ASSUME Inv,
         UNCHANGED <<stream_send_buffer, sent, base, wire>>,
         TypeOK',
         pc' # "send",
         pc' # "exit" => pc # "send" /\ pc # "exit"
  PROVE  Inv'
<1>1. InLine'
  BY DEF Inv, InLine, TypeOK
<1>2. RoomChecked' /\ StreamIntegrity'
  BY DEF Inv, RoomChecked, StreamIntegrity
<1> QED BY <1>1, <1>2 DEF Inv

\* Flushing sends the oldest bytes, which come next on the wire (link.rs:163-179).
LEMMA FlushInv ==
  ASSUME Inv, Flush
  PROVE  Inv'
<1> DEFINE n == Min2(credit, len(stream_send_buffer))
           buf == stream_send_buffer
<1>1. TypeOK /\ InLine /\ StreamIntegrity /\ IsBuf(buf, Capacity, Nat)
  BY DEF Inv, TypeOK
<1>2. /\ n \in 0 .. len(buf)
      /\ n \in 0 .. credit
      /\ n \in Nat
  BY <1>1, Numbers DEF Min2
<1> HIDE DEF n
<1>3. /\ wire' = wire \o [j \in 1 .. n |-> occupied_slice(buf)[j]]
      /\ credit' \in credit - n .. MaxCredit
      /\ stream_send_buffer' = free(buf, n)
      /\ UNCHANGED <<pc, open, b, sent, base, why>>
      /\ pc \in {"flush", "tickflush"}
  BY DEF Flush, StreamSend, n
<1>4. \A j \in 1 .. n : occupied_slice(buf)[j] = Len(wire) + j
  <2>1. ASSUME NEW j \in 1 .. n PROVE occupied_slice(buf)[j] = Len(wire) + j
    <3>1. j \in 1 .. len(buf)
      BY <1>1, <1>2, Numbers
    <3> QED BY <1>1, <3>1 DEF occupied_slice, InLine, Holds
  <2> QED BY <2>1
<1>5. wire' \in Seq(Nat) /\ Len(wire') = Len(wire) + n /\ StreamIntegrity'
  <2>1. wire \in Seq(Nat)
    BY <1>1 DEF TypeOK
  <2> QED BY <1>1, <1>2, <1>3, <1>4, <2>1, WireGrows
<1>6. /\ IsBuf(stream_send_buffer', Capacity, Nat)
      /\ len(stream_send_buffer') = len(buf) - n
      /\ Holds(stream_send_buffer', Len(wire) + n)
  <2>1. Capacity \in Nat /\ Len(wire) \in Nat /\ Holds(buf, Len(wire))
    BY <1>1, Numbers DEF InLine
  <2> QED BY <1>1, <1>2, <1>3, <2>1, FreeBuf
<1>7. TypeOK'
  <2>1. credit' \in 0 .. MaxCredit
    BY <1>1, <1>2, <1>3, Numbers
  <2> QED BY <1>1, <1>3, <1>5, <1>6, <2>1 DEF TypeOK
<1>8. InLine'
  <2>1. Len(wire') + len(stream_send_buffer') = base + sent
    BY <1>1, <1>2, <1>5, <1>6, Numbers DEF InLine
  <2> QED BY <1>1, <1>3, <1>5, <1>6, <2>1 DEF InLine
<1>9. RoomChecked'
  BY <1>3 DEF RoomChecked
<1> QED BY <1>5, <1>7, <1>8, <1>9 DEF Inv

\* A dropped packet leaves no trace (link.rs:234-240).
LEMMA DropInv ==
  ASSUME Inv, Drop
  PROVE  Inv'
<1>1. TypeOK /\ InLine /\ StreamIntegrity /\ IsBuf(stream_send_buffer, Capacity, Nat)
      /\ pc = "flush" /\ sent = 0
  BY DEF Inv, TypeOK, Drop, InLine
<1>2. /\ stream_send_buffer' = reuse_if(stream_send_buffer)
      /\ pc' = "select" /\ b' = 0
      /\ UNCHANGED <<credit, open, sent, base, wire, why>>
  BY DEF Drop
<1>3. /\ IsBuf(stream_send_buffer', Capacity, Nat)
      /\ len(stream_send_buffer') = len(stream_send_buffer)
      /\ Holds(stream_send_buffer', Len(wire))
  <2>1. Capacity \in Nat /\ Len(wire) \in Nat /\ Holds(stream_send_buffer, Len(wire))
    BY <1>1, Numbers DEF InLine
  <2> QED BY <1>1, <1>2, <2>1, ReuseIfBuf
<1>4. TypeOK'
  BY <1>1, <1>2, <1>3 DEF TypeOK
<1>5. (InLine /\ RoomChecked /\ StreamIntegrity)'
  BY <1>1, <1>2, <1>3 DEF InLine, RoomChecked, StreamIntegrity
<1> QED BY <1>4, <1>5 DEF Inv

\* A packet is sent only when the flush is over and there is room (link.rs:232-242).
LEMMA AcceptInv ==
  ASSUME Inv, Accept
  PROVE  Inv'
<1> DEFINE r == reuse_if(stream_send_buffer)
<1>1. TypeOK /\ InLine /\ StreamIntegrity /\ IsBuf(stream_send_buffer, Capacity, Nat)
      /\ pc = "flush" /\ sent = 0
  BY DEF Inv, TypeOK, Accept, InLine
<1>2. /\ stream_send_buffer' = Roomy(r)
      /\ ~Overflows(r)
      /\ FlushOver
      /\ pc' = "send"
      /\ UNCHANGED <<credit, open, b, sent, base, wire, why>>
  BY DEF Accept
<1>3. Capacity \in Nat /\ Len(wire) \in Nat /\ Holds(stream_send_buffer, Len(wire))
  BY <1>1, Numbers DEF InLine
<1>4. /\ IsBuf(r, Capacity, Nat)
      /\ len(r) = len(stream_send_buffer)
      /\ Holds(r, Len(wire))
  BY <1>1, <1>3, ReuseIfBuf
<1> HIDE DEF r
<1>5. /\ IsBuf(stream_send_buffer', Capacity, Nat)
      /\ len(stream_send_buffer') = len(stream_send_buffer)
      /\ Holds(stream_send_buffer', Len(wire))
  BY <1>2, <1>3, <1>4, RoomyBuf
<1>6. max_len(stream_send_buffer') = max_len(r)
  BY <1>3, <1>4, <1>5, LenBuf
<1>7. TypeOK'
  BY <1>1, <1>2, <1>5 DEF TypeOK
<1>8. InLine'
  BY <1>1, <1>2, <1>5 DEF InLine, FlushOver, is_empty
<1>9. RoomChecked'
  <2>1. len(r) >= b \/ max_len(r) >= b
    <3>1. len(r) \in Int /\ max_len(r) \in Int /\ b \in Int
      BY <1>1, <1>3, <1>4, LenBuf, Numbers
    <3> QED BY <1>2, <3>1 DEF Overflows, LacksRoom
  <2> QED BY <1>2, <1>4, <1>5, <1>6, <2>1 DEF RoomChecked
<1>10. StreamIntegrity'
  BY <1>1, <1>2 DEF StreamIntegrity
<1> QED BY <1>7, <1>8, <1>9, <1>10 DEF Inv

\* New bytes go out only when the buffer is empty (link.rs:245-262).
LEMMA SendNewEmpty ==
  ASSUME Inv, SendNew
  PROVE  len(stream_send_buffer) = 0
<1>1. credit > 0 /\ credit \in Nat /\ pc = "send"
  BY Numbers DEF Inv, SendNew
<1> QED BY <1>1 DEF Inv, InLine

\* A byte of a new packet continues the wire (link.rs:245-262).
LEMMA SendNewInv ==
  ASSUME Inv, SendNew
  PROVE  Inv'
<1> DEFINE n == Min2(credit, b - sent)
           data == [j \in 1 .. b - sent |-> base + sent + j]
<1>1. TypeOK /\ InLine /\ RoomChecked /\ StreamIntegrity
  BY DEF Inv
<1>2. len(stream_send_buffer) = 0 /\ Len(wire) = base + sent
  BY <1>1, SendNewEmpty, Numbers DEF InLine
<1>3. sent < b /\ credit > 0
  BY DEF SendNew
<1>4. n \in 0 .. b - sent /\ n \in 0 .. credit /\ n \in Nat
  BY <1>1, <1>3, Numbers DEF Min2
<1>5. \A j \in 1 .. n : data[j] = Len(wire) + j
  <2>1. ASSUME NEW j \in 1 .. n PROVE data[j] = Len(wire) + j
    <3>1. j \in 1 .. b - sent
      BY <1>1, <1>4, Numbers
    <3> QED BY <1>2, <3>1
  <2> QED BY <2>1
<1>6. /\ wire' = wire \o [j \in 1 .. n |-> data[j]]
      /\ credit' \in credit - n .. MaxCredit
      /\ sent' = sent + n
      /\ UNCHANGED <<pc, open, stream_send_buffer, b, base, why>>
      /\ pc = "send"
  BY DEF SendNew, StreamSend
<1> HIDE DEF n, data
<1>7. wire' \in Seq(Nat) /\ Len(wire') = Len(wire) + n /\ StreamIntegrity'
  <2>1. wire \in Seq(Nat)
    BY <1>1 DEF TypeOK
  <2> QED BY <1>1, <1>4, <1>5, <1>6, <2>1, WireGrows
<1>8. TypeOK'
  <2>0. credit \in Nat /\ MaxCredit \in Nat /\ b \in Nat /\ sent \in Nat
    BY <1>1, Numbers
  <2>1. credit' \in 0 .. MaxCredit
    <3>1. credit' \in credit - n .. MaxCredit
      BY <1>6
    <3> QED BY <1>4, <2>0, <3>1
  <2>2. sent' \in 0 .. b
    <3>1. sent + n \in 0 .. b
      BY <1>4, <2>0
    <3> QED BY <1>6, <3>1
  <2> QED BY <1>1, <1>6, <1>7, <2>1, <2>2 DEF TypeOK
<1>9. InLine'
  <2>1. Len(wire') + 0 = base + (sent + n)
    BY <1>1, <1>2, <1>4, <1>7, Numbers
  <2>2. Holds(stream_send_buffer, Len(wire'))
    BY <1>2 DEF Holds
  <2> QED BY <1>2, <1>6, <2>1, <2>2 DEF InLine
<1>10. RoomChecked'
  BY <1>1, <1>6 DEF RoomChecked
<1> QED BY <1>7, <1>8, <1>9, <1>10 DEF Inv

\* A packet sent whole needs no room (link.rs:265).
LEMMA SentAllInv ==
  ASSUME Inv, SentAll
  PROVE  Inv'
<1>1. TypeOK /\ InLine /\ StreamIntegrity
  BY DEF Inv
<1>2. /\ pc = "send" /\ sent = b
      /\ pc' = "select" /\ base' = base + b /\ b' = 0 /\ sent' = 0
      /\ UNCHANGED <<stream_send_buffer, credit, open, wire, why>>
  BY DEF SentAll, Finish
<1>3. TypeOK'
  BY <1>1, <1>2, Numbers DEF TypeOK
<1>4. InLine'
  <2>1. Len(wire) + len(stream_send_buffer) = (base + b) + 0
    BY <1>1, <1>2, Numbers DEF InLine
  <2> QED BY <1>1, <1>2, <2>1 DEF InLine
<1>5. RoomChecked' /\ StreamIntegrity'
  BY <1>1, <1>2 DEF RoomChecked, StreamIntegrity
<1> QED BY <1>3, <1>4, <1>5 DEF Inv

\* What stream_send did not take is kept, behind what waits already
\* (link.rs:265-280).
LEMMA KeepRestInv ==
  ASSUME Inv, KeepRest
  PROVE  Inv'
<1> DEFINE r == Roomy(stream_send_buffer)
<1>1. TypeOK /\ InLine /\ StreamIntegrity /\ IsBuf(stream_send_buffer, Capacity, Nat)
  BY DEF Inv, TypeOK
<1>2. /\ pc = "send" /\ sent < b
      /\ CanPush(r, b - sent)
      /\ stream_send_buffer' = push_slice(r, base + sent, b - sent)
      /\ pc' = "select" /\ base' = base + b /\ b' = 0 /\ sent' = 0
      /\ UNCHANGED <<credit, open, wire, why>>
  BY DEF KeepRest, Finish, Kept, Rest
<1>3. /\ Capacity \in Nat /\ Len(wire) \in Nat /\ Holds(stream_send_buffer, Len(wire))
      /\ base \in Nat /\ b \in Nat /\ sent \in Nat /\ b - sent \in Nat
      /\ len(stream_send_buffer) \in Nat
  BY <1>1, <1>2, Numbers DEF InLine
<1>4. /\ IsBuf(r, Capacity, Nat)
      /\ len(r) = len(stream_send_buffer)
      /\ Holds(r, Len(wire))
  BY <1>1, <1>3, RoomyBuf
<1>5. base + sent = Len(wire) + len(r)
  BY <1>1, <1>4 DEF InLine
<1> HIDE DEF r
<1>6. /\ IsBuf(stream_send_buffer', Capacity, Nat)
      /\ len(stream_send_buffer') = len(r) + (b - sent)
      /\ Holds(stream_send_buffer', Len(wire))
  BY <1>2, <1>3, <1>4, <1>5, PushBuf
<1>7. TypeOK'
  BY <1>1, <1>2, <1>3, <1>6 DEF TypeOK
<1>8. InLine'
  <2>1. Len(wire) + len(stream_send_buffer') = (base + b) + 0
    BY <1>3, <1>4, <1>5, <1>6
  <2> QED BY <1>2, <1>6, <2>1 DEF InLine
<1>9. RoomChecked' /\ StreamIntegrity'
  BY <1>1, <1>2 DEF RoomChecked, StreamIntegrity
<1> QED BY <1>7, <1>8, <1>9 DEF Inv

\* Every step keeps the invariant.
LEMMA NextInv == Inv /\ [Next]_vars => Inv'
<1> SUFFICES ASSUME Inv, [Next]_vars PROVE Inv'
  OBVIOUS
<1>0. TypeOK /\ (pc \in {"select", "flush", "tickflush"} => sent = 0)
  BY DEF Inv, InLine
<1>1. CASE Grant
  <2>1. TypeOK'
    BY <1>0, <1>1, Numbers DEF TypeOK, Grant
  <2> QED BY <1>1, <2>1, QuietInv DEF Grant
<1>2. CASE ConnDies
  <2>1. TypeOK'
    BY <1>0, <1>2 DEF TypeOK, ConnDies
  <2> QED BY <1>2, <2>1 DEF Inv, ConnDies, InLine, RoomChecked, StreamIntegrity
<1>3. CASE ConnFails
  <2>1. TypeOK'
    BY <1>0, <1>3 DEF TypeOK, ConnFails, Exit
  <2> QED BY <1>3, <2>1, QuietInv DEF ConnFails, Exit
<1>4. CASE Tick
  <2>1. TypeOK'
    BY <1>0, <1>4 DEF TypeOK, Tick
  <2> QED BY <1>4, <2>1, QuietInv DEF Tick
<1>5. CASE Packet
  <2>1. PICK n \in Sizes : TakePacket(n)
    BY <1>5 DEF Packet
  <2>2. n \in Nat
    BY SizesAssumption
  <2>3. TypeOK'
    BY <1>0, <2>1, <2>2 DEF TypeOK, TakePacket
  <2> QED BY <2>1, <2>3, QuietInv DEF TakePacket
<1>6. CASE SendClosed
  <2>1. TypeOK'
    BY <1>0, <1>6 DEF TypeOK, SendClosed, Exit
  <2> QED BY <1>6, <2>1, QuietInv DEF SendClosed, Exit
<1>7. CASE Body
  <2>1. CASE Flush
    BY <2>1, FlushInv
  <2>2. CASE TickOver
    <3>1. TypeOK' /\ pc' \in {"select", "exit"}
      BY <1>0, <2>2 DEF TypeOK, TickOver, Exit
    <3> QED BY <2>2, <3>1, QuietInv DEF TickOver
  <2>3. CASE Drop
    BY <2>3, DropInv
  <2>4. CASE Accept
    BY <2>4, AcceptInv
  <2>5. CASE SendNew
    BY <2>5, SendNewInv
  <2>6. CASE SentAll
    BY <2>6, SentAllInv
  <2>7. CASE KeepRest
    BY <2>7, KeepRestInv
  <2>8. CASE PushFails
    <3>1. TypeOK'
      BY <1>0, <2>8 DEF TypeOK, PushFails, Exit
    <3> QED BY <2>8, <3>1, QuietInv DEF PushFails, Exit
  <2> QED BY <1>7, <2>1, <2>2, <2>3, <2>4, <2>5, <2>6, <2>7, <2>8 DEF Body
<1>8. CASE UNCHANGED vars
  BY <1>8 DEF vars, Inv, TypeOK, InLine, RoomChecked, StreamIntegrity
<1> QED BY <1>1, <1>2, <1>3, <1>4, <1>5, <1>6, <1>7, <1>8 DEF Next

-----------------------------------------------------------------------------
\* The invariant holds throughout the loop.
THEOREM InvHolds == Safety => []Inv
<1>1. Init => Inv
  BY InitInv
<1>2. Inv /\ [Next]_vars => Inv'
  BY NextInv
<1> QED BY <1>1, <1>2, PTL DEF Safety

\* Type correctness: no flush frees more than the buffer holds (link.rs:168, 219).
THEOREM TypeCorrect == Safety => []TypeOK
<1>1. Inv => TypeOK
  BY DEF Inv
<1> QED BY <1>1, InvHolds, PTL

\* The peer reads the accepted packets end to end, whatever the flow control
\* lets through and when (link.rs:213-280).
THEOREM WireInOrder == Safety => []StreamIntegrity
<1>1. Inv => StreamIntegrity
  BY DEF Inv
<1> QED BY <1>1, InvHolds, PTL

\* No accepted byte is lost between two packets (link.rs:265-280).
THEOREM NoByteLost == Safety => []NothingLost
<1>1. Inv => NothingLost
  <2> SUFFICES ASSUME Inv, pc = "select"
               PROVE  /\ Len(wire) + len(stream_send_buffer) = base
                      /\ Holds(stream_send_buffer, Len(wire))
    BY DEF NothingLost, Holds
  <2>1. TypeOK /\ InLine /\ sent = 0
    BY DEF Inv, InLine
  <2> QED BY <2>1, Numbers DEF InLine
<1> QED BY <1>1, InvHolds, PTL

\* Once a part of a packet has been sent, its rest has a place (link.rs:234, 269-277).
THEOREM HalfSentHasRoom == Safety => []HalfSentFits
<1>1. Inv => HalfSentFits
  <2> SUFFICES ASSUME Inv, pc = "send", 0 < sent
               PROVE  CanPush(Roomy(stream_send_buffer), b - sent)
    BY DEF Inv, RoomChecked, HalfSentFits
  <2>1. TypeOK /\ InLine /\ IsBuf(stream_send_buffer, Capacity, Nat)
    BY DEF Inv, TypeOK
  <2>2. len(stream_send_buffer) = 0 /\ sent \in 1 .. b
    BY <2>1, Numbers DEF InLine, TypeOK
  <2>3. LacksRoom(stream_send_buffer) /\ Capacity >= b
    BY <2>1, <2>2, Numbers DEF LacksRoom, Inv, RoomChecked
  <2>4. vacant_len(Roomy(stream_send_buffer)) = Capacity - 0
    <3>1. Len(wire) \in Nat /\ Holds(stream_send_buffer, Len(wire)) /\ Capacity \in Nat
      BY <2>1, Numbers DEF InLine
    <3> QED BY <2>1, <2>2, <2>3, <3>1, RoomyBuf, Numbers
  <2> QED BY <2>1, <2>2, <2>3, <2>4, Numbers DEF CanPush
<1> QED BY <1>1, InvHolds, PTL

\* No byte of a new packet overtakes one that waits (link.rs:214-262).
THEOREM OldestGoesFirst == Safety => OldestFirst
<1>1. Inv /\ [Next]_vars => [SendNew => is_empty(stream_send_buffer)]_vars
  BY SendNewEmpty DEF is_empty
<1> QED BY <1>1, InvHolds, PTL DEF Safety, OldestFirst
=============================================================================
