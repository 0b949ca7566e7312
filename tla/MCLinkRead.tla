---------------------------- MODULE MCLinkRead ----------------------------
(* Small streams for TLC: every sequence of at most MaxPackets packets.    *)
EXTENDS LinkRead

CONSTANT MaxPackets

\* <<kind, body length>>
MCShapes == { <<"push", 0>>, <<"push", 1>>, <<"request", 2>> }
MCBad    == { <<"badtag", 4>>, <<"badmsg", 4>>, <<"badstatus", 3>> }

PacketSize(p) == HeaderSize[p[1]] + p[2]

StreamOf(s) ==
    LET end[i \in 0 .. Len(s)] == IF i = 0 THEN 0 ELSE end[i - 1] + PacketSize(s[i])
    IN  [ n    |-> Len(s),
          end  |-> [i \in 0 .. Len(s) |-> end[i]],
          kind |-> [i \in 1 .. Len(s) |-> s[i][1]],
          good |-> Cardinality({i \in 1 .. Len(s) : s[i][1] \in GoodKind}) ]

SeqsUpTo(S, n) == UNION { [1 .. m -> S] : m \in 1 .. n }

\* Well-formed streams, and streams that end in a packet deku refuses.
MCStreams ==
    { StreamOf(s) : s \in SeqsUpTo(MCShapes, MaxPackets) }
      \cup { StreamOf(Append(s, b)) : s \in SeqsUpTo(MCShapes, MaxPackets - 1), b \in MCBad }

\* A few packets with fields at their limits, to evaluate Codec's operators on.
MCPackets ==
    { [tag |-> t, reserved |-> 0, command |-> c, id |-> IF t = PushTag THEN 0 ELSE id,
       ext |-> MaxExt(t), body |-> body] :
      t \in 0 .. 2, c \in {0, MaxCommand}, id \in {0, 65793, 16777215},
      body \in { << >>, <<255>>, <<0, 128, 7>> } }

ASSUME CodecExamples ==
    \A p \in MCPackets, rest \in { << >>, <<3, 1>> } :
        LET b == to_bytes(p) \o rest
        IN  /\ Fits(p)
            /\ verdict(b) = "ok" /\ need_bytes(b) = total_bytes(p) /\ from_bytes(b) = p
            /\ \A n \in 0 .. Len(header(p)) - 1 : verdict(SubSeq(b, 1, n)) = "incomplete"
            /\ request_id_trim(p.id + 256 * 256 * 256) = p.id
=============================================================================
