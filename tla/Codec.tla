------------------------------- MODULE Codec -------------------------------
(***************************************************************************)
(* The wire format of packets (link/src/packets.rs): what deku derives     *)
(* from the attributes of Packet, Request, Response, Push and of their     *)
(* headers.  A byte is a number below 256.                                 *)
(*                                                                         *)
(*   request,   tag:2 reserved:2 command:4  id:24  ext:8  body_len:24      *)
(*   response                                                              *)
(*   push       tag:2 reserved:2 command:4  ext:8  body_len:24             *)
(*                                                                         *)
(* ext is a request's timeout, a response's status, a push's msg_type.     *)
(* What deku does with a body or an id of 2^24 or more is not modelled.    *)
(***************************************************************************)
EXTENDS Naturals, Sequences

REQUEST_HEADER_SIZE  == 8
RESPONSE_HEADER_SIZE == 8
PUSH_HEADER_SIZE     == 5
MIN_PACKET_HEADER_SIZE == 5

Byte == 0 .. 255

\* The bytes of a 24-bit number, big endian, and back.
hi(n)  == (n \div 256) \div 256
mid(n) == (n \div 256) % 256
lo(n)  == n % 256
be24(a, b, c) == 256 * (256 * a + b) + c
\* The numbers of 24 bits, 0 .. 2^24 - 1.
Bits24 == {n \in Nat : hi(n) < 256}

\* The tags, and the largest command, timeout, status and msg_type known.
RequestTag == 0
ResponseTag == 1
PushTag == 2
MaxCommand == 13
MaxExt(t) == IF t = RequestTag THEN 255 ELSE IF t = ResponseTag THEN 8 ELSE 7

Packet == [tag : 0 .. 2, reserved : 0 .. 3, command : 0 .. MaxCommand, id : Bits24,
           ext : Byte, body : Seq(Byte)]

\* A packet that fits the format; a push has no id.
Fits(p) == /\ p \in Packet
           /\ p.ext <= MaxExt(p.tag)
           /\ p.tag = PushTag => p.id = 0
           /\ Len(p.body) \in Bits24

-----------------------------------------------------------------------------
(* The packets the program makes *)

DEFAULT_REQUEST_TIMEOUT == 5
Heartbeat == 1
Success == 0

\* id & 0x00ff_ffff: the low three bytes of an id.
request_id_trim(id) == be24(hi(id) % 256, mid(id), lo(id))

\* new_request; new_auth, new_subscribe and new_heartbeat are the same with the
\* command and the body they make.
new_request(cmd, id, body) ==
    [tag |-> RequestTag, reserved |-> 0, command |-> cmd, id |-> request_id_trim(id),
     ext |-> DEFAULT_REQUEST_TIMEOUT, body |-> body]

new_response_from(req, status, body) ==
    [tag |-> ResponseTag, reserved |-> 0, command |-> req.command, id |-> req.id,
     ext |-> status, body |-> body]

new_heartbeat_response(req) ==
    [tag |-> ResponseTag, reserved |-> 0, command |-> Heartbeat, id |-> req.id,
     ext |-> Success, body |-> req.body]

-----------------------------------------------------------------------------
(* Writing *)

first(p) == 64 * p.tag + 16 * p.reserved + p.command

header(p) ==
    LET n == Len(p.body)
    IN  IF p.tag = PushTag
          THEN <<first(p), p.ext, hi(n), mid(n), lo(n)>>
          ELSE <<first(p), hi(p.id), mid(p.id), lo(p.id), p.ext, hi(n), mid(n), lo(n)>>

to_bytes(p) == header(p) \o p.body

total_bytes(p) == Len(p.body) + IF p.tag = PushTag THEN PUSH_HEADER_SIZE ELSE REQUEST_HEADER_SIZE

-----------------------------------------------------------------------------
(* Reading *)

tag(b)      == b[1] \div 64
reserved(b) == (b[1] \div 16) % 4
command(b)  == b[1] % 16

\* Where ext is, and the size of the header.
ext_at(b)      == IF tag(b) = PushTag THEN 2 ELSE 5
header_size(b) == IF tag(b) = PushTag THEN PUSH_HEADER_SIZE ELSE REQUEST_HEADER_SIZE

\* deku reads field by field and stops at the first one it does not know, ...
Refused(b) == \/ Len(b) >= 1 /\ (tag(b) > PushTag \/ command(b) > MaxCommand)
              \/ Len(b) >= 1 /\ Len(b) >= ext_at(b) /\ b[ext_at(b)] > MaxExt(tag(b))

\* ... or at the end of the bytes.
Incomplete(b) == ~Refused(b) /\ (Len(b) < 1 \/ Len(b) < header_size(b))

\* PacketHeader::from_bytes
verdict(b) == IF Refused(b) THEN "error" ELSE IF Incomplete(b) THEN "incomplete" ELSE "ok"

body_len(b) == LET e == ext_at(b) IN be24(b[e + 1], b[e + 2], b[e + 3])

need_bytes(b) == body_len(b) + header_size(b)

\* Packet::from_bytes, of bytes with a whole packet in front.
from_bytes(b) ==
    [tag |-> tag(b), reserved |-> reserved(b), command |-> command(b),
     id |-> IF tag(b) = PushTag THEN 0 ELSE be24(b[2], b[3], b[4]),
     ext |-> b[ext_at(b)],
     body |-> SubSeq(b, header_size(b) + 1, need_bytes(b))]

-----------------------------------------------------------------------------
(* Headers by kind *)

GoodKind == {"request", "response", "push"}
BadKind  == {"badtag", "badmsg", "badstatus"}
Kind     == GoodKind \cup BadKind

\* The kind of the header that starts with the eight bytes b.
kind(b) ==
    IF tag(b) > PushTag \/ command(b) > MaxCommand THEN "badtag"
    ELSE IF tag(b) = PushTag THEN IF b[2] > MaxExt(PushTag) THEN "badmsg" ELSE "push"
    ELSE IF tag(b) = ResponseTag
           THEN IF b[5] > MaxExt(ResponseTag) THEN "badstatus" ELSE "response"
    ELSE "request"

\* The bytes it takes to know what from_bytes says of a header of each kind: the
\* whole header, or as far as the field it refuses, which is the tag or the
\* command, a push's msg_type or a response's status.
HeaderSize ==
    [ k \in Kind |-> CASE k = "request"   -> REQUEST_HEADER_SIZE
                      [] k = "response"  -> RESPONSE_HEADER_SIZE
                      [] k = "push"      -> PUSH_HEADER_SIZE
                      [] k = "badtag"    -> 1
                      [] k = "badmsg"    -> 2
                      [] k = "badstatus" -> 5 ]
=============================================================================
