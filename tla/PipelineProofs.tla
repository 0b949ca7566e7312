-------------------------- MODULE PipelineProofs --------------------------
(***************************************************************************)
(* Proofs about the tasks and channels of one connection, for every        *)
(* capacity of the channels and every number of packets.                   *)
(*                                                                         *)
(* Neither property is inductive.  That packets come out in order, and     *)
(* how many of them the tasks can hold between them, both follow from      *)
(* where every packet is: on the way up UpLine has them one by one, from   *)
(* handed back to the main loop; on the way down DownLine has them one by  *)
(* one until link_read_loop and, before it, in stretches that follow on    *)
(* one another.                                                            *)
(***************************************************************************)
EXTENDS Pipeline, SequenceTheorems, TLAPS

\* The sequence holds the packets after the first a, one by one.
Singles(s, a) == \A i \in 1 .. Len(s) : s[i] = <<a + i>>

\* The same of a task that has them to send to channel c.
Carries(h, c, a) == \A i \in 1 .. Len(h) : h[i] = To(c, <<a + i>>)

\* The packets after the first a, up to the b-th.
Seg(a, b) == [k \in 1 .. (b - a) |-> a + k]

\* The first n + 1 values of pos do not fall.
Rising(pos, n) == \A i, j \in 0 .. n : i <= j => pos[i] <= pos[j]

\* The stretches of s, put together, are the packets after the first a, up to
\* the b-th: pos[i] is where the i-th of them ends.
Run(s, a, b) ==
    \E pos \in [0 .. Len(s) -> Nat] :
      /\ pos[0] = a /\ pos[Len(s)] = b /\ Rising(pos, Len(s))
      /\ \A i \in 1 .. Len(s) : s[i] = Seg(pos[i - 1], pos[i])

Whats(h) == [i \in 1 .. Len(h) |-> h[i].what]

Message == [to : Chan, what : Stretch]

\* What quic_process_loop sends.
QuicRoute(h) ==
    \A i \in 1 .. Len(h) : h[i] = To("udp_send", Datagram) \/ h[i].to = "quic_recv"

\* Messages of quic_process_loop that hold the packets after the first a, up to
\* the b-th.
Bundle(h, a, b) == h \in Seq(Message) /\ QuicRoute(h) /\ Run(Whats(h), a, b)

\* The packets on their way up: those quic_process_loop took, those in quic_send,
\* in the hand of link_write_loop, in request and in the hand of the main loop.
UpAt(took, sending, encoded, requested, sends, n) ==
    LET a == Len(took)
        b == a + Len(sending)
        c == b + Len(encoded)
        d == c + Len(requested)
    IN  /\ \A i \in 1 .. Len(took) : took[i] = i
        /\ Singles(sending, a)
        /\ Carries(encoded, "quic_send", b) /\ Len(encoded) <= 1
        /\ Singles(requested, c)
        /\ Carries(sends, "request", d) /\ Len(sends) <= 1
        /\ n = d + Len(sends)

UpLine == UpAt(handed, chan["quic_send"], hand["link_write"], chan["request"], hand["main"], issued)

\* The packets on their way down: those the main loop got, those in response, in
\* the hand of link_read_loop, in quic_recv and in the hand of quic_process_loop.
DownAt(got, answered, parsed, received, readable, n) ==
    LET a == Len(got)
        b == a + Len(answered)
        c == b + Len(parsed)
    IN  /\ \A i \in 1 .. Len(got) : got[i] = i
        /\ Singles(answered, a)
        /\ Carries(parsed, "response", b)
        /\ \E q \in Nat : Run(received, c, q) /\ Bundle(readable, q, n)

DownLine == DownAt(delivered, chan["response"], hand["link_read"], chan["quic_recv"], hand["quic"], read)

\* udp_write_loop sends to no channel, udp_read_loop to one.
UdpLine ==
    /\ hand["udp_write"] = << >>
    /\ \A i \in 1 .. Len(hand["udp_read"]) : hand["udp_read"][i].to = "udp_recv"

Inv == TypeOK /\ UdpLine /\ UpLine /\ DownLine

-----------------------------------------------------------------------------
(* Sequences of single packets *)

\* What is taken from the front is the next packet; the rest follows it.
LEMMA SinglesTail ==
  ASSUME NEW s \in Seq(Stretch), NEW a \in Nat, Singles(s, a), s # << >>
  PROVE  /\ Head(s) = <<a + 1>>
         /\ Tail(s) \in Seq(Stretch)
         /\ Len(Tail(s)) = Len(s) - 1
         /\ Singles(Tail(s), a + 1)
<1>1. Len(s) \in Nat \ {0} /\ Tail(s) \in Seq(Stretch) /\ Len(Tail(s)) = Len(s) - 1
  OBVIOUS
<1>2. Head(s) = <<a + 1>>
  BY <1>1 DEF Singles
<1>3. ASSUME NEW i \in 1 .. Len(Tail(s)) PROVE Tail(s)[i] = <<(a + 1) + i>>
  <2>1. Tail(s)[i] = s[i + 1] /\ i + 1 \in 1 .. Len(s)
    BY <1>1
  <2>2. s[i + 1] = <<a + (i + 1)>>
    BY <2>1 DEF Singles
  <2>3. a + (i + 1) = (a + 1) + i
    OBVIOUS
  <2> QED BY <2>1, <2>2, <2>3
<1> QED BY <1>1, <1>2, <1>3 DEF Singles

\* What is put at the back is the packet that comes next.
LEMMA SinglesAppend ==
  ASSUME NEW s \in Seq(Stretch), NEW a \in Nat, Singles(s, a), NEW p, p = <<(a + Len(s)) + 1>>
  PROVE  /\ Append(s, p) \in Seq(Stretch)
         /\ Len(Append(s, p)) = Len(s) + 1
         /\ Singles(Append(s, p), a)
<1>1. Len(s) \in Nat /\ p \in Stretch
  BY DEF Stretch
<1>2. Append(s, p) \in Seq(Stretch) /\ Len(Append(s, p)) = Len(s) + 1
  BY <1>1
<1>3. ASSUME NEW i \in 1 .. Len(Append(s, p)) PROVE Append(s, p)[i] = <<a + i>>
  <2>1. CASE i = Len(s) + 1
    <3>1. Append(s, p)[i] = p
      BY <1>1, <2>1
    <3>2. (a + Len(s)) + 1 = a + i
      BY <1>1, <2>1
    <3> QED BY <3>1, <3>2
  <2>2. CASE i \in 1 .. Len(s)
    <3>1. Append(s, p)[i] = s[i]
      BY <1>1, <2>2
    <3> QED BY <2>2, <3>1 DEF Singles
  <2> QED BY <1>1, <1>2, <2>1, <2>2
<1> QED BY <1>2, <1>3 DEF Singles

\* The same of a task's hand.
LEMMA CarriesTail ==
  ASSUME NEW h \in Seq(Message), NEW c, NEW a \in Nat,
         Carries(h, c, a), h # << >>
  PROVE  /\ Head(h) = To(c, <<a + 1>>)
         /\ Tail(h) \in Seq(Message)
         /\ Len(Tail(h)) = Len(h) - 1
         /\ Carries(Tail(h), c, a + 1)
<1>1. Len(h) \in Nat \ {0} /\ Len(Tail(h)) = Len(h) - 1
      /\ Tail(h) \in Seq(Message)
  OBVIOUS
<1>2. Head(h) = To(c, <<a + 1>>)
  BY <1>1 DEF Carries
<1>3. ASSUME NEW i \in 1 .. Len(Tail(h)) PROVE Tail(h)[i] = To(c, <<(a + 1) + i>>)
  <2>1. Tail(h)[i] = h[i + 1] /\ i + 1 \in 1 .. Len(h)
    BY <1>1
  <2>2. h[i + 1] = To(c, <<a + (i + 1)>>)
    BY <2>1 DEF Carries
  <2>3. a + (i + 1) = (a + 1) + i
    OBVIOUS
  <2> QED BY <2>1, <2>2, <2>3
<1> QED BY <1>1, <1>2, <1>3 DEF Carries

\* A message that carries one packet (client.rs:282, link.rs:372-378).
LEMMA CarriesOne ==
  ASSUME NEW c \in Chan, NEW n \in Nat, NEW a \in Nat, n = a + 1
  PROVE  /\ <<To(c, <<n>>)>> \in Seq(Message)
         /\ Len(<<To(c, <<n>>)>>) = 1
         /\ Carries(<<To(c, <<n>>)>>, c, a)
<1>1. To(c, <<n>>) \in Message
  BY DEF To, Stretch, Message
<1> DEFINE m == To(c, <<n>>)
<1> HIDE DEF m
<1>2. m \in Message /\ m = To(c, <<a + 1>>)
  BY <1>1 DEF m
<1>3. Len(<<m>>) = 1 /\ <<m>> \in Seq(Message) /\ <<m>>[1] = m
  BY <1>2
<1>4. Carries(<<m>>, c, a)
  BY <1>2, <1>3 DEF Carries
<1> QED BY <1>3, <1>4 DEF m

-----------------------------------------------------------------------------
(* Stretches *)

\* A stretch of packets, packet by packet.
LEMMA SegIsStretch ==
  ASSUME NEW a \in Nat, NEW b \in Nat, a <= b
  PROVE  /\ Seg(a, b) \in Stretch
         /\ Len(Seg(a, b)) = b - a
         /\ \A k \in 1 .. (b - a) : Seg(a, b)[k] = a + k
<1>1. b - a \in Nat
  OBVIOUS
<1> QED BY <1>1 DEF Seg, Stretch

\* Nothing is no packets.
LEMMA RunEmpty ==
  ASSUME NEW a \in Nat
  PROVE  Run(<< >>, a, a)
<1> DEFINE pos == [i \in 0 .. Len(<< >>) |-> a]
<1>1. pos \in [0 .. Len(<< >>) -> Nat] /\ pos[0] = a /\ pos[Len(<< >>)] = a
  OBVIOUS
<1>2. Rising(pos, Len(<< >>)) /\ \A i \in 1 .. Len(<< >>) : << >>[i] = Seg(pos[i - 1], pos[i])
  BY DEF Rising
<1> QED BY <1>1, <1>2 DEF Run

\* One more stretch at the back.
LEMMA RunAppend ==
  ASSUME NEW s \in Seq(Stretch), NEW a \in Nat, NEW b \in Nat, NEW c \in Nat,
         Run(s, a, b), b <= c
  PROVE  Run(Append(s, Seg(b, c)), a, c)
<1> DEFINE t == Append(s, Seg(b, c))
<1>0. Seg(b, c) \in Stretch
  BY SegIsStretch
<1>1. Len(s) \in Nat /\ Seg(b, c) \in Stretch
  BY <1>0
<1>2. Len(t) = Len(s) + 1 /\ t[Len(s) + 1] = Seg(b, c) /\ \A i \in 1 .. Len(s) : t[i] = s[i]
  BY <1>1
<1>3. PICK pos \in [0 .. Len(s) -> Nat] :
             /\ pos[0] = a /\ pos[Len(s)] = b /\ Rising(pos, Len(s))
             /\ \A i \in 1 .. Len(s) : s[i] = Seg(pos[i - 1], pos[i])
  BY DEF Run
<1> HIDE DEF t
<1> DEFINE new == [i \in 0 .. Len(t) |-> IF i <= Len(s) THEN pos[i] ELSE c]
<1>4. /\ new \in [0 .. Len(t) -> Nat]
      /\ \A i \in 0 .. Len(s) : new[i] = pos[i]
      /\ new[Len(s) + 1] = c
  BY <1>1, <1>2
<1> HIDE DEF new
<1>5. new[0] = a /\ new[Len(t)] = c /\ new[Len(s)] = b
  BY <1>1, <1>2, <1>3, <1>4
<1>6. ASSUME NEW i \in 1 .. Len(t) PROVE t[i] = Seg(new[i - 1], new[i])
  <2>1. CASE i \in 1 .. Len(s)
    <3>1. i - 1 \in 0 .. Len(s) /\ i \in 0 .. Len(s)
      BY <1>1, <2>1
    <3> QED BY <1>2, <1>3, <1>4, <2>1, <3>1
  <2>2. CASE i = Len(s) + 1
    <3>1. i - 1 = Len(s)
      BY <1>1, <2>2
    <3> QED BY <1>2, <1>4, <1>5, <2>2, <3>1
  <2> QED BY <1>1, <1>2, <2>1, <2>2
<1>7. Rising(new, Len(t))
  <2> SUFFICES ASSUME NEW i \in 0 .. Len(t), NEW j \in 0 .. Len(t), i <= j
               PROVE  new[i] <= new[j]
    BY DEF Rising
  <2>1. CASE j \in 0 .. Len(s)
    <3>1. i \in 0 .. Len(s)
      BY <1>1, <2>1
    <3> QED BY <1>3, <1>4, <2>1, <3>1 DEF Rising
  <2>2. CASE j = Len(s) + 1 /\ i \in 0 .. Len(s)
    <3>1. Len(s) \in 0 .. Len(s) /\ i <= Len(s)
      BY <1>1, <2>2
    <3>2. pos[i] <= b /\ pos[i] \in Nat
      BY <1>3, <2>2, <3>1 DEF Rising
    <3> QED BY <1>4, <2>2, <3>2
  <2>3. CASE j = Len(s) + 1 /\ i = Len(s) + 1
    BY <1>4, <2>3
  <2> QED BY <1>1, <1>2, <2>1, <2>2, <2>3
<1>8. Run(t, a, c)
  BY <1>4, <1>5, <1>6, <1>7 DEF Run
<1> QED BY <1>8 DEF t

\* The first stretch is the one that comes next; the others follow it.
LEMMA RunTail ==
  ASSUME NEW s \in Seq(Stretch), NEW a \in Nat, NEW b \in Nat, Run(s, a, b), s # << >>
  PROVE  \E c \in Nat : a <= c /\ Head(s) = Seg(a, c) /\ Run(Tail(s), c, b)
<1>1. Len(s) \in Nat \ {0} /\ Len(Tail(s)) = Len(s) - 1 /\ Head(s) = s[1]
      /\ \A i \in 1 .. (Len(s) - 1) : Tail(s)[i] = s[i + 1]
  OBVIOUS
<1>2. PICK pos \in [0 .. Len(s) -> Nat] :
             /\ pos[0] = a /\ pos[Len(s)] = b /\ Rising(pos, Len(s))
             /\ \A i \in 1 .. Len(s) : s[i] = Seg(pos[i - 1], pos[i])
  BY DEF Run
<1> DEFINE t == Tail(s)
           new == [i \in 0 .. Len(t) |-> pos[i + 1]]
<1>3. 0 \in 0 .. Len(s) /\ 1 \in 0 .. Len(s) /\ 1 \in 1 .. Len(s) /\ 1 - 1 = 0
  BY <1>1
<1>4. pos[1] \in Nat /\ a <= pos[1] /\ Head(s) = Seg(a, pos[1])
  <2>1. pos[0] <= pos[1]
    BY <1>2, <1>3 DEF Rising
  <2> QED BY <1>1, <1>2, <1>3, <2>1
<1> HIDE DEF t
<1>5. /\ new \in [0 .. Len(t) -> Nat]
      /\ \A i \in 0 .. Len(t) : new[i] = pos[i + 1]
  BY <1>1 DEF t
<1> HIDE DEF new
<1>6. new[0] = pos[1] /\ new[Len(t)] = b
  BY <1>1, <1>2, <1>5 DEF t
<1>7. ASSUME NEW i \in 1 .. Len(t) PROVE t[i] = Seg(new[i - 1], new[i])
  <2>1. i + 1 \in 1 .. Len(s) /\ (i + 1) - 1 = i /\ i \in 0 .. Len(t) /\ i - 1 \in 0 .. Len(t)
        /\ (i - 1) + 1 = i /\ t[i] = s[i + 1]
    BY <1>1 DEF t
  <2>2. s[i + 1] = Seg(pos[(i + 1) - 1], pos[i + 1])
    BY <1>2, <2>1
  <2>3. new[i] = pos[i + 1] /\ new[i - 1] = pos[(i - 1) + 1]
    BY <1>5, <2>1
  <2> QED BY <2>1, <2>2, <2>3
<1>8. Rising(new, Len(t))
  <2> SUFFICES ASSUME NEW i \in 0 .. Len(t), NEW j \in 0 .. Len(t), i <= j
               PROVE  new[i] <= new[j]
    BY DEF Rising
  <2>1. i + 1 \in 0 .. Len(s) /\ j + 1 \in 0 .. Len(s) /\ i + 1 <= j + 1
    BY <1>1 DEF t
  <2>2. pos[i + 1] <= pos[j + 1]
    BY <1>2, <2>1 DEF Rising
  <2> QED BY <1>5, <2>2
<1>9. Run(t, pos[1], b)
  BY <1>4, <1>5, <1>6, <1>7, <1>8 DEF Run
<1> QED BY <1>4, <1>9 DEF t

\* It cannot end before it begins.
LEMMA RunRises ==
  ASSUME NEW s \in Seq(Stretch), NEW a \in Nat, NEW b \in Nat, Run(s, a, b)
  PROVE  a <= b
<1>1. 0 \in 0 .. Len(s) /\ Len(s) \in 0 .. Len(s) /\ 0 <= Len(s)
  OBVIOUS
<1> QED BY <1>1 DEF Run, Rising

\* The contents of messages, message by message.
LEMMA WhatsSeq ==
  ASSUME NEW h \in Seq(Message)
  PROVE  /\ Whats(h) \in Seq(Stretch) /\ Len(Whats(h)) = Len(h)
         /\ \A i \in 1 .. Len(h) : Whats(h)[i] = h[i].what
<1>1. ASSUME NEW i \in 1 .. Len(h) PROVE h[i].what \in Stretch
  <2>1. h[i] \in Message
    OBVIOUS
  <2> QED BY <2>1 DEF Message
<1> QED BY <1>1 DEF Whats

\* What quic_process_loop sends next, and what remains (link.rs:106-156).
LEMMA BundleTail ==
  ASSUME NEW h, NEW a \in Nat, NEW b \in Nat, Bundle(h, a, b), h # << >>
  PROVE  \E c \in Nat :
           /\ a <= c
           /\ Bundle(Tail(h), c, b)
           /\ \/ Head(h) = To("udp_send", Datagram) /\ c = a
              \/ Head(h).to = "quic_recv" /\ Head(h).what = Seg(a, c)
<1>1. h \in Seq(Message) /\ QuicRoute(h) /\ Run(Whats(h), a, b)
  BY DEF Bundle
<1>2. /\ Len(h) \in Nat \ {0} /\ Len(Tail(h)) = Len(h) - 1 /\ Head(h) = h[1]
      /\ Tail(h) \in Seq(Message) /\ Head(h) \in Message
      /\ \A i \in 1 .. (Len(h) - 1) : Tail(h)[i] = h[i + 1]
  BY <1>1
<1>3. /\ Whats(h) \in Seq(Stretch) /\ Len(Whats(h)) = Len(h)
      /\ \A i \in 1 .. Len(h) : Whats(h)[i] = h[i].what
  BY <1>1, WhatsSeq
<1>4. Whats(h) # << >> /\ Head(Whats(h)) = Head(h).what
  BY <1>2, <1>3
<1>5. Tail(Whats(h)) = Whats(Tail(h))
  <2>1. /\ Tail(Whats(h)) \in Seq(Stretch) /\ Len(Tail(Whats(h))) = Len(h) - 1
        /\ \A i \in 1 .. (Len(h) - 1) : Tail(Whats(h))[i] = Whats(h)[i + 1]
    BY <1>3, <1>4
  <2>2. /\ Whats(Tail(h)) \in Seq(Stretch) /\ Len(Whats(Tail(h))) = Len(h) - 1
        /\ \A i \in 1 .. (Len(h) - 1) : Whats(Tail(h))[i] = Tail(h)[i].what
    BY <1>2, WhatsSeq
  <2>3. \A i \in 1 .. (Len(h) - 1) : Tail(Whats(h))[i] = Whats(Tail(h))[i]
    BY <1>2, <1>3, <2>1, <2>2
  <2> QED BY <2>1, <2>2, <2>3, SeqEqual
<1>6. PICK c \in Nat : a <= c /\ Head(Whats(h)) = Seg(a, c) /\ Run(Tail(Whats(h)), c, b)
  BY <1>1, <1>3, <1>4, RunTail
<1>7. QuicRoute(Tail(h))
  <2> SUFFICES ASSUME NEW i \in 1 .. Len(Tail(h))
               PROVE  Tail(h)[i] = To("udp_send", Datagram) \/ Tail(h)[i].to = "quic_recv"
    BY DEF QuicRoute
  <2>1. Tail(h)[i] = h[i + 1] /\ i + 1 \in 1 .. Len(h)
    BY <1>2
  <2> QED BY <1>1, <2>1 DEF QuicRoute
<1>8. Bundle(Tail(h), c, b)
  BY <1>2, <1>5, <1>6, <1>7 DEF Bundle
<1>9. Head(h) = To("udp_send", Datagram) \/ Head(h).to = "quic_recv"
  BY <1>1, <1>2 DEF QuicRoute
<1>10. CASE Head(h) = To("udp_send", Datagram)
  <2>1. Head(h).what = << >>
    BY <1>10 DEF To, Datagram
  <2>2. Len(Seg(a, c)) = c - a /\ Seg(a, c) = << >>
    BY <1>4, <1>6, <2>1, SegIsStretch
  <2>3. c = a
    BY <2>2
  <2> QED BY <1>6, <1>8, <1>10, <2>3
<1>11. CASE Head(h).to = "quic_recv"
  BY <1>4, <1>6, <1>8, <1>11
<1> QED BY <1>9, <1>10, <1>11

\* Messages one after the other.
LEMMA BundleConcat ==
  ASSUME NEW h, NEW g, NEW a \in Nat, NEW b \in Nat, NEW c \in Nat,
         Bundle(h, a, b), Bundle(g, b, c)
  PROVE  Bundle(h \o g, a, c)
<1> DEFINE n == Len(h)
           f == h \o g
<1>1. h \in Seq(Message) /\ g \in Seq(Message) /\ QuicRoute(h) /\ QuicRoute(g)
  BY DEF Bundle
<1>2. /\ f \in Seq(Message) /\ Len(f) = n + Len(g) /\ n \in Nat /\ Len(g) \in Nat
      /\ \A i \in 1 .. n : f[i] = h[i]
      /\ \A i \in (n + 1) .. Len(f) : f[i] = g[i - n]
  BY <1>1
<1> HIDE DEF f
<1>3. /\ Len(Whats(f)) = Len(f) /\ Len(Whats(h)) = n /\ Len(Whats(g)) = Len(g)
      /\ \A i \in 1 .. Len(f) : Whats(f)[i] = f[i].what
      /\ \A i \in 1 .. Len(h) : Whats(h)[i] = h[i].what
      /\ \A i \in 1 .. Len(g) : Whats(g)[i] = g[i].what
  BY <1>1, <1>2, WhatsSeq
<1>4. PICK p \in [0 .. n -> Nat] :
             /\ p[0] = a /\ p[n] = b /\ Rising(p, n)
             /\ \A i \in 1 .. n : Whats(h)[i] = Seg(p[i - 1], p[i])
  <2>1. Run(Whats(h), a, b) /\ Len(Whats(h)) = n
    BY <1>3 DEF Bundle
  <2> HIDE DEF n
  <2> QED BY <2>1 DEF Run
<1>5. PICK q \in [0 .. Len(g) -> Nat] :
             /\ q[0] = b /\ q[Len(g)] = c /\ Rising(q, Len(g))
             /\ \A i \in 1 .. Len(g) : Whats(g)[i] = Seg(q[i - 1], q[i])
  <2>1. Run(Whats(g), b, c) /\ Len(Whats(g)) = Len(g)
    BY <1>3 DEF Bundle
  <2> QED BY <2>1 DEF Run
<1> DEFINE pos == [i \in 0 .. Len(f) |-> IF i <= n THEN p[i] ELSE q[i - n]]
<1> HIDE DEF n
<1>6. /\ pos \in [0 .. Len(f) -> Nat]
      /\ \A i \in 0 .. n : pos[i] = p[i]
      /\ \A i \in n .. Len(f) : pos[i] = q[i - n]
  <2>1. n \in Nat /\ Len(g) \in Nat /\ Len(f) = n + Len(g)
    BY <1>2
  <2>2. p[n] = q[0]
    BY <1>4, <1>5
  <2>4. n - n = 0
    BY <2>1
  <2>5. pos \in [0 .. Len(f) -> Nat] /\ \A i \in 0 .. n : pos[i] = p[i]
    BY <2>1
  <2>6. ASSUME NEW i \in n .. Len(f) PROVE pos[i] = q[i - n]
    <3>1. CASE i = n
      <4>1. n \in 0 .. n
        BY <2>1
      <4> QED BY <2>2, <2>4, <2>5, <3>1, <4>1
    <3>2. CASE i # n
      <4>1. i \in 0 .. Len(f) /\ ~(i <= n)
        BY <2>1, <3>2
      <4> QED BY <4>1
    <3> QED BY <3>1, <3>2
  <2> QED BY <2>5, <2>6
<1> HIDE DEF pos
<1>7. pos[0] = a /\ pos[Len(f)] = c
  <2>1. 0 \in 0 .. n /\ Len(f) \in n .. Len(f) /\ Len(f) - n = Len(g)
    BY <1>2
  <2>2. pos[0] = p[0] /\ pos[Len(f)] = q[Len(g)]
    BY <1>6, <2>1
  <2> QED BY <1>4, <1>5, <2>2
<1>8. ASSUME NEW i \in 1 .. Len(f)
      PROVE  Whats(f)[i] = Seg(pos[i - 1], pos[i])
  <2>1. CASE i \in 1 .. n
    <3>1. i - 1 \in 0 .. n /\ i \in 0 .. n
      BY <1>2, <2>1
    <3>2. Whats(f)[i] = Whats(h)[i]
      BY <1>2, <1>3, <2>1 DEF n
    <3> QED BY <1>4, <1>6, <2>1, <3>1, <3>2
  <2>2. CASE i \in (n + 1) .. Len(f)
    <3>1. /\ i - 1 \in n .. Len(f) /\ i \in n .. Len(f)
          /\ i - n \in 1 .. Len(g) /\ (i - 1) - n = (i - n) - 1
      BY <1>2, <2>2
    <3>2. Whats(f)[i] = Whats(g)[i - n]
      <4>1. f[i] = g[i - n]
        BY <1>2, <2>2
      <4>2. Whats(f)[i] = f[i].what /\ Whats(g)[i - n] = g[i - n].what
        BY <1>3, <3>1
      <4> QED BY <4>1, <4>2
    <3>3. pos[i] = q[i - n] /\ pos[i - 1] = q[(i - n) - 1]
      BY <1>6, <3>1
    <3> QED BY <1>5, <3>1, <3>2, <3>3
  <2> QED BY <1>2, <2>1, <2>2
<1>9. Rising(pos, Len(f))
  <2> SUFFICES ASSUME NEW i \in 0 .. Len(f), NEW j \in 0 .. Len(f), i <= j
               PROVE  pos[i] <= pos[j]
    BY DEF Rising
  <2>1. CASE j \in 0 .. n
    <3>1. i \in 0 .. n
      BY <1>2, <2>1
    <3> QED BY <1>4, <1>6, <2>1, <3>1 DEF Rising
  <2>2. CASE i \in n .. Len(f)
    <3>1. j \in n .. Len(f) /\ i - n \in 0 .. Len(g) /\ j - n \in 0 .. Len(g) /\ i - n <= j - n
      BY <1>2, <2>2
    <3>2. q[i - n] <= q[j - n]
      BY <1>5, <3>1 DEF Rising
    <3> QED BY <1>6, <2>2, <3>1, <3>2
  <2>3. CASE i \in 0 .. n /\ j \in n .. Len(f)
    <3>1. n \in 0 .. n /\ i <= n /\ j - n \in 0 .. Len(g) /\ 0 \in 0 .. Len(g) /\ 0 <= j - n
      BY <1>2, <2>3
    <3>2. pos[i] <= b
      BY <1>4, <1>6, <2>3, <3>1 DEF Rising
    <3>3. b <= pos[j]
      BY <1>5, <1>6, <2>3, <3>1 DEF Rising
    <3>4. pos[i] \in Nat /\ pos[j] \in Nat
      BY <1>6
    <3> QED BY <3>2, <3>3, <3>4
  <2> QED BY <1>2, <2>1, <2>2, <2>3
<1>10. Run(Whats(f), a, c)
  BY <1>3, <1>6, <1>7, <1>8, <1>9 DEF Run
<1>11. QuicRoute(f)
  <2> SUFFICES ASSUME NEW i \in 1 .. Len(f)
               PROVE  f[i] = To("udp_send", Datagram) \/ f[i].to = "quic_recv"
    BY DEF QuicRoute
  <2>1. CASE i \in 1 .. n
    BY <1>1, <1>2, <2>1 DEF QuicRoute, n
  <2>2. CASE i \in (n + 1) .. Len(f)
    <3>1. i - n \in 1 .. Len(g) /\ f[i] = g[i - n]
      BY <1>2, <2>2
    <3> QED BY <1>1, <3>1 DEF QuicRoute
  <2> QED BY <1>2, <2>1, <2>2
<1> QED BY <1>2, <1>10, <1>11 DEF Bundle, f

\* Datagrams hold no packets (link.rs:15-55).
LEMMA ConnSendBundle ==
  ASSUME NEW n \in Nat, NEW a \in Nat
  PROVE  Bundle(ConnSend(n), a, a)
<1> DEFINE h == ConnSend(n)
           d == To("udp_send", Datagram)
           pos == [i \in 0 .. n |-> a]
<1>1. d \in Message /\ d.what = << >>
  BY DEF To, Datagram, Message, Stretch, Chan
<1> HIDE DEF d
<1>2. h \in Seq(Message) /\ Len(h) = n /\ \A i \in 1 .. n : h[i] = d
  BY <1>1 DEF ConnSend, d
<1> HIDE DEF h
<1>3. QuicRoute(h)
  BY <1>2 DEF QuicRoute, d
<1>4. Len(Whats(h)) = n /\ \A i \in 1 .. n : Whats(h)[i] = << >>
  BY <1>1, <1>2, WhatsSeq
<1>5. Seg(a, a) = << >>
  <2>1. Seg(a, a) \in Stretch /\ Len(Seg(a, a)) = 0
    BY SegIsStretch
  <2> QED BY <2>1 DEF Stretch
<1>6. /\ pos \in [0 .. n -> Nat] /\ pos[0] = a /\ pos[n] = a
      /\ \A i \in 1 .. n : pos[i - 1] = a /\ pos[i] = a
      /\ Rising(pos, n)
  BY DEF Rising
<1>7. Run(Whats(h), a, a)
  BY <1>4, <1>5, <1>6 DEF Run
<1> QED BY <1>2, <1>3, <1>7 DEF Bundle, h

\* stream_recv gives the packets that come next (link.rs:126-148).
LEMMA StreamRecvBundle ==
  ASSUME NEW r \in Nat, NEW n \in Nat, NEW part \in BOOLEAN
  PROVE  Bundle(StreamRecv(r, n, part), r, r + n)
<1>1. CASE n = 0 /\ ~part
  <2>1. StreamRecv(r, n, part) = ConnSend(0)
    BY <1>1 DEF StreamRecv, ConnSend
  <2>2. r + n = r
    BY <1>1
  <2> QED BY <2>1, <2>2, ConnSendBundle
<1>2. CASE ~(n = 0 /\ ~part)
  <2> DEFINE p == Seg(r, r + n)
             m == To("quic_recv", p)
  <2>1. (r + n) - r = n /\ r <= r + n /\ r + n \in Nat
    OBVIOUS
  <2>2. StreamRecv(r, n, part) = <<m>>
    BY <1>2, <2>1 DEF StreamRecv, Seg
  <2>3. p \in Stretch
    BY <2>1, SegIsStretch
  <2> HIDE DEF p
  <2>4. m \in Message /\ m.to = "quic_recv" /\ m.what = p
    BY <2>3 DEF To, Message, Chan
  <2> HIDE DEF m
  <2>5. <<m>> \in Seq(Message) /\ Len(<<m>>) = 1 /\ <<m>>[1] = m
    BY <2>4
  <2>6. QuicRoute(<<m>>)
    BY <2>4, <2>5 DEF QuicRoute
  <2>7. Run(<< >>, r, r) /\ << >> \in Seq(Stretch)
    BY RunEmpty
  <2>8. Run(Append(<< >>, p), r, r + n)
    BY <2>1, <2>7, RunAppend DEF p
  <2>9. Whats(<<m>>) = Append(<< >>, p)
    <3>0. /\ Whats(<<m>>) \in Seq(Stretch) /\ Len(Whats(<<m>>)) = Len(<<m>>)
          /\ \A i \in 1 .. Len(<<m>>) : Whats(<<m>>)[i] = <<m>>[i].what
      BY <2>5, WhatsSeq
    <3>1. /\ Whats(<<m>>) \in Seq(Stretch) /\ Len(Whats(<<m>>)) = 1
          /\ Whats(<<m>>)[1] = p
      BY <2>4, <2>5, <3>0
    <3>2. Append(<< >>, p) \in Seq(Stretch) /\ Len(Append(<< >>, p)) = 1 /\ Append(<< >>, p)[1] = p
      BY <2>3
    <3>3. \A i \in 1 .. 1 : Whats(<<m>>)[i] = Append(<< >>, p)[i]
      BY <3>1, <3>2
    <3> QED BY <3>1, <3>2, <3>3, SeqEqual
  <2> QED BY <2>2, <2>5, <2>6, <2>8, <2>9 DEF Bundle
<1> QED BY <1>1, <1>2

\* parse_packet_buf sends the packets of a stretch one by one (link.rs:399-465).
LEMMA ParsedCarries ==
  ASSUME NEW a \in Nat, NEW b \in Nat, a <= b
  PROVE  /\ Parsed(Seg(a, b)) \in Seq(Message)
         /\ Len(Parsed(Seg(a, b))) = b - a
         /\ Carries(Parsed(Seg(a, b)), "response", a)
<1> DEFINE p == Seg(a, b)
<1>1. p \in Stretch /\ Len(p) = b - a /\ b - a \in Nat /\ \A k \in 1 .. (b - a) : p[k] = a + k
  BY SegIsStretch
<1> HIDE DEF p
<1>2. \A i \in 1 .. Len(p) : To("response", <<p[i]>>) \in Message
  BY <1>1 DEF To, Message, Stretch, Chan
<1>3. Parsed(p) = [i \in 1 .. Len(p) |-> To("response", <<p[i]>>)]
  BY DEF Parsed
<1>4. Parsed(p) \in Seq(Message) /\ Len(Parsed(p)) = b - a
      /\ \A i \in 1 .. (b - a) : Parsed(p)[i] = To("response", <<p[i]>>)
  BY <1>1, <1>2, <1>3
<1>5. Carries(Parsed(p), "response", a)
  BY <1>1, <1>4 DEF Carries
<1> QED BY <1>4, <1>5 DEF p

\* A history that grows by the packet that comes next.
LEMMA HistoryGrows ==
  ASSUME NEW s \in Stretch, \A i \in 1 .. Len(s) : s[i] = i, NEW p, p = <<Len(s) + 1>>
  PROVE  /\ s \o p \in Stretch
         /\ Len(s \o p) = Len(s) + 1
         /\ \A i \in 1 .. Len(s \o p) : (s \o p)[i] = i
         /\ s \o p = Append(s, Len(s) + 1)
BY DEF Stretch

-----------------------------------------------------------------------------
(* The packets on their way up *)

\* The main loop begins to send the next packet (client.rs:282, 312).
LEMMA UpIssue ==
  ASSUME NEW h \in Stretch, NEW qs \in Seq(Stretch), NEW lw \in Seq(Message),
         NEW rq \in Seq(Stretch), NEW n \in Nat, UpAt(h, qs, lw, rq, << >>, n)
  PROVE  UpAt(h, qs, lw, rq, <<To("request", <<n + 1>>)>>, n + 1)
<1> DEFINE ms == <<To("request", <<n + 1>>)>>
           d == Len(h) + Len(qs) + Len(lw) + Len(rq)
<1>1. d = n
  BY DEF UpAt, Stretch
<1>2. Len(ms) = 1 /\ Carries(ms, "request", n)
  BY CarriesOne DEF Chan
<1> HIDE DEF ms
<1> QED BY <1>1, <1>2 DEF UpAt, ms

\* It puts it in the request channel.
LEMMA UpRequest ==
  ASSUME NEW h \in Stretch, NEW qs \in Seq(Stretch), NEW lw \in Seq(Message),
         NEW rq \in Seq(Stretch), NEW mn \in Seq(Message), NEW n \in Nat,
         UpAt(h, qs, lw, rq, mn, n), mn # << >>
  PROVE  /\ Head(mn).to = "request"
         /\ UpAt(h, qs, lw, Append(rq, Head(mn).what), Tail(mn), n)
<1> DEFINE c == Len(h) + Len(qs) + Len(lw)
           d == c + Len(rq)
           p == Head(mn).what
<1>1. c \in Nat /\ d \in Nat /\ Len(rq) \in Nat /\ Len(mn) \in Nat
  BY DEF Stretch
<1>2. Singles(rq, c) /\ Carries(mn, "request", d) /\ Len(mn) <= 1 /\ n = d + Len(mn)
  BY DEF UpAt
<1>3. /\ Head(mn) = To("request", <<d + 1>>)
      /\ Len(Tail(mn)) = Len(mn) - 1
      /\ Carries(Tail(mn), "request", d + 1)
  BY <1>1, <1>2, CarriesTail
<1>4. Head(mn).to = "request" /\ p = <<d + 1>>
  BY <1>3 DEF To
<1> HIDE DEF p
<1>5. Len(Append(rq, p)) = Len(rq) + 1 /\ Singles(Append(rq, p), c)
  BY <1>1, <1>2, <1>4, SinglesAppend
<1>6. c + Len(Append(rq, p)) = d + 1 /\ n = (d + 1) + Len(Tail(mn)) /\ Len(Tail(mn)) <= 1
  BY <1>1, <1>2, <1>3, <1>5
<1>7. UpAt(h, qs, lw, Append(rq, p), Tail(mn), n)
  BY <1>2, <1>3, <1>5, <1>6 DEF UpAt
<1> QED BY <1>4, <1>7 DEF p

\* link_write_loop takes the oldest request (link.rs:358-397).
LEMMA UpEncode ==
  ASSUME NEW h \in Stretch, NEW qs \in Seq(Stretch),
         NEW rq \in Seq(Stretch), NEW mn \in Seq(Message), NEW n \in Nat,
         UpAt(h, qs, << >>, rq, mn, n), rq # << >>
  PROVE  /\ Encoded(Head(rq)) \in Seq(Message)
         /\ UpAt(h, qs, Encoded(Head(rq)), Tail(rq), mn, n)
<1> DEFINE b == Len(h) + Len(qs)
           d == b + Len(rq)
           ms == Encoded(Head(rq))
<1>1. b \in Nat /\ d \in Nat /\ Len(rq) \in Nat /\ Len(mn) \in Nat
  BY DEF Stretch
<1>2. Len(<< >>) = 0 /\ b + 0 = b
  BY <1>1
<1>3. Singles(rq, b) /\ Carries(mn, "request", d) /\ Len(mn) <= 1 /\ n = d + Len(mn)
  BY <1>2 DEF UpAt
<1>4. Head(rq) = <<b + 1>> /\ Len(Tail(rq)) = Len(rq) - 1 /\ Singles(Tail(rq), b + 1)
  BY <1>1, <1>3, SinglesTail
<1>5. ms = <<To("quic_send", <<b + 1>>)>>
  BY <1>4 DEF Encoded
<1> HIDE DEF ms
<1>6. ms \in Seq(Message) /\ Len(ms) = 1 /\ Carries(ms, "quic_send", b)
  <2>1. "quic_send" \in Chan /\ b + 1 \in Nat
    BY <1>1 DEF Chan
  <2> QED BY <1>1, <1>5, <2>1, CarriesOne
<1>7. (b + 1) + Len(Tail(rq)) = d
  BY <1>1, <1>4
<1>8. UpAt(h, qs, ms, Tail(rq), mn, n)
  BY <1>3, <1>4, <1>6, <1>7 DEF UpAt
<1> QED BY <1>6, <1>8 DEF ms

\* It puts it in the quic_send channel (link.rs:376).
LEMMA UpSend ==
  ASSUME NEW h \in Stretch, NEW qs \in Seq(Stretch), NEW lw \in Seq(Message),
         NEW rq \in Seq(Stretch), NEW mn \in Seq(Message), NEW n \in Nat,
         UpAt(h, qs, lw, rq, mn, n), lw # << >>
  PROVE  /\ Head(lw).to = "quic_send"
         /\ UpAt(h, Append(qs, Head(lw).what), Tail(lw), rq, mn, n)
<1> DEFINE a == Len(h)
           b == a + Len(qs)
           c == b + Len(lw)
           p == Head(lw).what
<1>1. a \in Nat /\ b \in Nat /\ c \in Nat /\ Len(qs) \in Nat /\ Len(lw) \in Nat
  BY DEF Stretch
<1>2. Singles(qs, a) /\ Carries(lw, "quic_send", b) /\ Len(lw) <= 1
  BY DEF UpAt
<1>3. /\ Head(lw) = To("quic_send", <<b + 1>>)
      /\ Len(Tail(lw)) = Len(lw) - 1
      /\ Carries(Tail(lw), "quic_send", b + 1)
  BY <1>1, <1>2, CarriesTail
<1>4. Head(lw).to = "quic_send" /\ p = <<b + 1>>
  BY <1>3 DEF To
<1> HIDE DEF p
<1>5. Len(Append(qs, p)) = Len(qs) + 1 /\ Singles(Append(qs, p), a)
  BY <1>1, <1>2, <1>4, SinglesAppend
<1>6. a + Len(Append(qs, p)) = b + 1 /\ (b + 1) + Len(Tail(lw)) = c /\ Len(Tail(lw)) <= 1
  BY <1>1, <1>2, <1>3, <1>5
<1>7. UpAt(h, Append(qs, p), Tail(lw), rq, mn, n)
  BY <1>2, <1>3, <1>5, <1>6 DEF UpAt
<1> QED BY <1>4, <1>7 DEF p

\* quic_process_loop takes the oldest, which is the one that comes next
\* (link.rs:208-288).
LEMMA UpTake ==
  ASSUME NEW h \in Stretch, NEW qs \in Seq(Stretch), NEW lw \in Seq(Message),
         NEW rq \in Seq(Stretch), NEW mn \in Seq(Message), NEW n \in Nat,
         UpAt(h, qs, lw, rq, mn, n), qs # << >>
  PROVE  /\ Len(h) < n
         /\ h \o Head(qs) = Append(h, Len(h) + 1)
         /\ h \o Head(qs) \in Stretch
         /\ UpAt(h \o Head(qs), Tail(qs), lw, rq, mn, n)
<1> DEFINE a == Len(h)
           b == a + Len(qs)
           g == h \o Head(qs)
<1>1. a \in Nat /\ b \in Nat /\ Len(qs) \in Nat \ {0}
  BY DEF Stretch
<1>2. Singles(qs, a) /\ \A i \in 1 .. Len(h) : h[i] = i
  BY DEF UpAt
<1>3. Head(qs) = <<a + 1>> /\ Len(Tail(qs)) = Len(qs) - 1 /\ Singles(Tail(qs), a + 1)
  BY <1>1, <1>2, SinglesTail
<1>4. /\ g \in Stretch /\ Len(g) = a + 1 /\ \A i \in 1 .. Len(g) : g[i] = i
      /\ g = Append(h, Len(h) + 1)
  BY <1>2, <1>3, HistoryGrows
<1> HIDE DEF g
<1>5. (a + 1) + Len(Tail(qs)) = b
  BY <1>1, <1>3
<1>6. UpAt(g, Tail(qs), lw, rq, mn, n)
  BY <1>3, <1>4, <1>5 DEF UpAt
<1>7. Len(h) < n
  <2>1. n = b + Len(lw) + Len(rq) + Len(mn)
    BY DEF UpAt
  <2>2. Len(lw) \in Nat /\ Len(rq) \in Nat /\ Len(mn) \in Nat
    OBVIOUS
  <2> QED BY <1>1, <2>1, <2>2
<1> QED BY <1>4, <1>6, <1>7 DEF g

-----------------------------------------------------------------------------
(* The packets on their way down *)

\* quic_process_loop has read more of the stream (link.rs:126-148).
LEMMA DownRead ==
  ASSUME NEW g \in Stretch, NEW rs \in Seq(Stretch), NEW lr \in Seq(Message),
         NEW qr \in Seq(Stretch), NEW n \in Nat, DownAt(g, rs, lr, qr, << >>, n),
         NEW h, NEW m \in Nat, Bundle(h, n, m)
  PROVE  DownAt(g, rs, lr, qr, h, m)
<1> DEFINE c == Len(g) + Len(rs) + Len(lr)
<1>1. PICK q \in Nat : Run(qr, c, q) /\ Bundle(<< >>, q, n)
  BY DEF DownAt
<1>2. q = n
  <2>1. Whats(<< >>) = << >>
    BY DEF Whats
  <2>2. Run(<< >>, q, n)
    BY <1>1, <2>1 DEF Bundle
  <2> QED BY <2>2 DEF Run
<1> QED BY <1>1, <1>2 DEF DownAt

\* It sends a datagram or a stretch (link.rs:15-55, 132).
LEMMA DownReadable ==
  ASSUME NEW g \in Stretch, NEW rs \in Seq(Stretch), NEW lr \in Seq(Message),
         NEW qr \in Seq(Stretch), NEW qc \in Seq(Message), NEW n \in Nat,
         DownAt(g, rs, lr, qr, qc, n), qc # << >>
  PROVE  \/ /\ Head(qc).to = "udp_send"
            /\ DownAt(g, rs, lr, qr, Tail(qc), n)
         \/ /\ Head(qc).to = "quic_recv"
            /\ DownAt(g, rs, lr, Append(qr, Head(qc).what), Tail(qc), n)
<1> DEFINE c == Len(g) + Len(rs) + Len(lr)
<1>1. c \in Nat
  BY DEF Stretch
<1>2. PICK q \in Nat : Run(qr, c, q) /\ Bundle(qc, q, n)
  BY DEF DownAt
<1>3. PICK r \in Nat : /\ q <= r
                       /\ Bundle(Tail(qc), r, n)
                       /\ \/ Head(qc) = To("udp_send", Datagram) /\ r = q
                          \/ Head(qc).to = "quic_recv" /\ Head(qc).what = Seg(q, r)
  BY <1>2, BundleTail
<1>4. CASE Head(qc) = To("udp_send", Datagram) /\ r = q
  <2>1. Head(qc).to = "udp_send"
    BY <1>4 DEF To
  <2>2. DownAt(g, rs, lr, qr, Tail(qc), n)
    BY <1>2, <1>3, <1>4 DEF DownAt
  <2> QED BY <2>1, <2>2
<1>5. CASE Head(qc).to = "quic_recv" /\ Head(qc).what = Seg(q, r)
  <2>1. Run(Append(qr, Head(qc).what), c, r)
    BY <1>1, <1>2, <1>3, <1>5, RunAppend
  <2>2. DownAt(g, rs, lr, Append(qr, Head(qc).what), Tail(qc), n)
    BY <1>3, <2>1 DEF DownAt
  <2> QED BY <1>5, <2>2
<1> QED BY <1>3, <1>4, <1>5

\* link_read_loop parses the oldest stretch (link.rs:296-356, 399-465).
LEMMA DownParse ==
  ASSUME NEW g \in Stretch, NEW rs \in Seq(Stretch),
         NEW qr \in Seq(Stretch), NEW qc, NEW n \in Nat,
         DownAt(g, rs, << >>, qr, qc, n), qr # << >>
  PROVE  /\ Parsed(Head(qr)) \in Seq(Message)
         /\ DownAt(g, rs, Parsed(Head(qr)), Tail(qr), qc, n)
<1> DEFINE b == Len(g) + Len(rs)
           ms == Parsed(Head(qr))
<1>1. b \in Nat /\ Len(<< >>) = 0 /\ b + 0 = b
  BY DEF Stretch
<1>2. PICK q \in Nat : Run(qr, b, q) /\ Bundle(qc, q, n)
  BY <1>1 DEF DownAt
<1>3. PICK r \in Nat : b <= r /\ Head(qr) = Seg(b, r) /\ Run(Tail(qr), r, q)
  BY <1>1, <1>2, RunTail
<1>4. ms \in Seq(Message) /\ Len(ms) = r - b /\ Carries(ms, "response", b)
  BY <1>1, <1>3, ParsedCarries
<1> HIDE DEF ms
<1>5. b + Len(ms) = r
  BY <1>1, <1>3, <1>4
<1>6. DownAt(g, rs, ms, Tail(qr), qc, n)
  BY <1>2, <1>3, <1>4, <1>5 DEF DownAt
<1> QED BY <1>4, <1>6 DEF ms

\* It sends the next packet to the main loop (link.rs:447).
LEMMA DownAnswer ==
  ASSUME NEW g \in Stretch, NEW rs \in Seq(Stretch), NEW lr \in Seq(Message),
         NEW qr, NEW qc, NEW n, DownAt(g, rs, lr, qr, qc, n), lr # << >>
  PROVE  /\ Head(lr).to = "response"
         /\ DownAt(g, Append(rs, Head(lr).what), Tail(lr), qr, qc, n)
<1> DEFINE a == Len(g)
           b == a + Len(rs)
           c == b + Len(lr)
           p == Head(lr).what
<1>1. a \in Nat /\ b \in Nat /\ c \in Nat /\ Len(rs) \in Nat /\ Len(lr) \in Nat
  BY DEF Stretch
<1>2. Singles(rs, a) /\ Carries(lr, "response", b)
  BY DEF DownAt
<1>3. /\ Head(lr) = To("response", <<b + 1>>)
      /\ Len(Tail(lr)) = Len(lr) - 1
      /\ Carries(Tail(lr), "response", b + 1)
  BY <1>1, <1>2, CarriesTail
<1>4. Head(lr).to = "response" /\ p = <<b + 1>>
  BY <1>3 DEF To
<1> HIDE DEF p
<1>5. Len(Append(rs, p)) = Len(rs) + 1 /\ Singles(Append(rs, p), a)
  BY <1>1, <1>2, <1>4, SinglesAppend
<1>6. a + Len(Append(rs, p)) = b + 1 /\ (b + 1) + Len(Tail(lr)) = c
  BY <1>1, <1>3, <1>5
<1>7. DownAt(g, Append(rs, p), Tail(lr), qr, qc, n)
  BY <1>3, <1>5, <1>6 DEF DownAt
<1> QED BY <1>4, <1>7 DEF p

\* The main loop receives the oldest, which is the one that comes next
\* (client.rs:330-399).
LEMMA DownTake ==
  ASSUME NEW g \in Stretch, NEW rs \in Seq(Stretch), NEW lr,
         NEW qr, NEW qc, NEW n, DownAt(g, rs, lr, qr, qc, n), rs # << >>
  PROVE  /\ g \o Head(rs) = Append(g, Len(g) + 1)
         /\ g \o Head(rs) \in Stretch
         /\ DownAt(g \o Head(rs), Tail(rs), lr, qr, qc, n)
<1> DEFINE a == Len(g)
           b == a + Len(rs)
           f == g \o Head(rs)
<1>1. a \in Nat /\ b \in Nat /\ Len(rs) \in Nat
  BY DEF Stretch
<1>2. Singles(rs, a) /\ \A i \in 1 .. Len(g) : g[i] = i
  BY DEF DownAt
<1>3. Head(rs) = <<a + 1>> /\ Len(Tail(rs)) = Len(rs) - 1 /\ Singles(Tail(rs), a + 1)
  BY <1>1, <1>2, SinglesTail
<1>4. /\ f \in Stretch /\ Len(f) = a + 1 /\ \A i \in 1 .. Len(f) : f[i] = i
      /\ f = Append(g, Len(g) + 1)
  BY <1>2, <1>3, HistoryGrows
<1> HIDE DEF f
<1>5. (a + 1) + Len(Tail(rs)) = b
  BY <1>1, <1>3
<1>6. DownAt(f, Tail(rs), lr, qr, qc, n)
  BY <1>3, <1>4, <1>5 DEF DownAt
<1> QED BY <1>4, <1>6 DEF f

\* What is in response has been read.
LEMMA DownShort ==
  ASSUME NEW g \in Stretch, NEW rs \in Seq(Stretch), NEW lr \in Seq(Message),
         NEW qr \in Seq(Stretch), NEW qc \in Seq(Message), NEW n \in Nat,
         DownAt(g, rs, lr, qr, qc, n), rs # << >>
  PROVE  Len(g) < n
<1> DEFINE c == Len(g) + Len(rs) + Len(lr)
<1>1. c \in Nat /\ Len(g) \in Nat /\ Len(g) < c
  BY DEF Stretch
<1>2. PICK q \in Nat : Run(qr, c, q) /\ Bundle(qc, q, n)
  BY DEF DownAt
<1>3. Whats(qc) \in Seq(Stretch) /\ Run(Whats(qc), q, n)
  BY <1>2, WhatsSeq DEF Bundle
<1>4. c <= q
  BY <1>1, <1>2, RunRises
<1>5. q <= n
  BY <1>3, RunRises
<1> QED BY <1>1, <1>4, <1>5

-----------------------------------------------------------------------------
(* Steps *)

\* What a send leaves, and what it leaves alone.
LEMMA PutFrame ==
  ASSUME TypeOK, NEW t \in Task, Put(t)
  PROVE  LET m == Head(hand[t])
         IN  /\ m \in Message /\ hand[t] # << >>
             /\ Len(chan[m.to]) < Cap(m.to)
             /\ chan' \in [Chan -> Seq(Stretch)]
             /\ \A c \in Chan : Len(chan'[c]) <= Cap(c)
             /\ chan'[m.to] = Append(chan[m.to], m.what)
             /\ \A c \in Chan \ {m.to} : chan'[c] = chan[c]
             /\ hand' \in [Task -> Seq(Message)]
             /\ hand'[t] = Tail(hand[t])
             /\ \A u \in Task \ {t} : hand'[u] = hand[u]
<1> DEFINE m == Head(hand[t])
<1>1. chan \in [Chan -> Seq(Stretch)] /\ hand \in [Task -> Seq(Message)]
  BY DEF TypeOK, Message
<1>2. hand[t] # << >> /\ hand[t] \in Seq(Message)
  BY <1>1 DEF Put, Idle
<1>3. m \in Message /\ Tail(hand[t]) \in Seq(Message)
  BY <1>2
<1> HIDE DEF m
<1>4. m.to \in Chan /\ m.what \in Stretch
  BY <1>3 DEF Message
<1>5. /\ Len(chan[m.to]) < Cap(m.to)
      /\ chan' = [chan EXCEPT ![m.to] = Append(chan[m.to], m.what)]
      /\ hand' = [hand EXCEPT ![t] = Tail(hand[t])]
  BY DEF Put, Room, m
<1>6. \A c \in Chan : Cap(c) \in Nat
  BY PipelineAssumption DEF Cap
<1>7. chan[m.to] \in Seq(Stretch) /\ Append(chan[m.to], m.what) \in Seq(Stretch)
      /\ Len(Append(chan[m.to], m.what)) = Len(chan[m.to]) + 1
  BY <1>1, <1>4
<1>8. chan' \in [Chan -> Seq(Stretch)] /\ hand' \in [Task -> Seq(Message)]
  BY <1>1, <1>3, <1>5, <1>7
<1>9. /\ chan'[m.to] = Append(chan[m.to], m.what)
      /\ \A c \in Chan \ {m.to} : chan'[c] = chan[c]
      /\ hand'[t] = Tail(hand[t])
      /\ \A u \in Task \ {t} : hand'[u] = hand[u]
  BY <1>1, <1>4, <1>5
<1>10. ASSUME NEW c \in Chan PROVE Len(chan'[c]) <= Cap(c)
  <2>1. CASE c = m.to
    BY <1>4, <1>5, <1>6, <1>7, <1>9, <2>1
  <2>2. CASE c # m.to
    BY <1>9, <2>2 DEF TypeOK
  <2> QED BY <2>1, <2>2
<1> QED BY <1>2, <1>3, <1>5, <1>8, <1>9, <1>10 DEF m

\* The same of a receive.
LEMMA GetFrame ==
  ASSUME TypeOK, NEW t \in Task, NEW c \in Chan, NEW ms \in Seq(Message), Get(t, c, ms)
  PROVE  /\ chan[c] # << >> /\ hand[t] = << >>
         /\ chan' \in [Chan -> Seq(Stretch)]
         /\ \A d \in Chan : Len(chan'[d]) <= Cap(d)
         /\ chan'[c] = Tail(chan[c])
         /\ \A d \in Chan \ {c} : chan'[d] = chan[d]
         /\ hand' \in [Task -> Seq(Message)]
         /\ hand'[t] = ms
         /\ \A u \in Task \ {t} : hand'[u] = hand[u]
<1>1. chan \in [Chan -> Seq(Stretch)] /\ hand \in [Task -> Seq(Message)]
  BY DEF TypeOK, Message
<1>2. /\ chan[c] # << >> /\ hand[t] = << >>
      /\ chan' = [chan EXCEPT ![c] = Tail(chan[c])]
      /\ hand' = [hand EXCEPT ![t] = ms]
  BY DEF Get, Idle
<1>3. \A d \in Chan : Cap(d) \in Nat
  BY PipelineAssumption DEF Cap
<1>4. chan[c] \in Seq(Stretch) /\ Tail(chan[c]) \in Seq(Stretch)
      /\ Len(Tail(chan[c])) = Len(chan[c]) - 1 /\ Len(chan[c]) \in Nat
  BY <1>1, <1>2
<1>5. chan' \in [Chan -> Seq(Stretch)] /\ hand' \in [Task -> Seq(Message)]
  BY <1>1, <1>2, <1>4
<1>6. /\ chan'[c] = Tail(chan[c])
      /\ \A d \in Chan \ {c} : chan'[d] = chan[d]
      /\ hand'[t] = ms
      /\ \A u \in Task \ {t} : hand'[u] = hand[u]
  BY <1>1, <1>2
<1>7. ASSUME NEW d \in Chan PROVE Len(chan'[d]) <= Cap(d)
  <2>1. Len(chan[d]) <= Cap(d)
    BY DEF TypeOK
  <2>2. CASE d = c
    <3>1. Len(chan'[c]) = Len(chan[c]) - 1 /\ Len(chan[c]) <= Cap(c) /\ Cap(c) \in Nat
      BY <1>3, <1>4, <1>6, <2>1, <2>2
    <3>2. Len(chan'[c]) <= Cap(c)
      BY <1>4, <3>1
    <3> QED BY <2>2, <3>2
  <2>3. CASE d # c
    BY <1>6, <2>1, <2>3
  <2> QED BY <2>2, <2>3
<1> QED BY <1>2, <1>5, <1>6, <1>7

\* What the types say of the hands, the channels and the histories.
LEMMA Types ==
  ASSUME TypeOK
  PROVE  /\ \A c \in Chan : chan[c] \in Seq(Stretch)
         /\ \A t \in Task : hand[t] \in Seq(Message)
         /\ handed \in Stretch /\ delivered \in Stretch
         /\ issued \in Nat /\ read \in Nat
<1>1. chan \in [Chan -> Seq(Stretch)] /\ hand \in [Task -> Seq(Message)]
  BY DEF TypeOK, Message
<1>2. handed \in Stretch /\ delivered \in Stretch /\ issued \in Nat /\ read \in Nat
  BY PipelineAssumption DEF TypeOK
<1> QED BY <1>1, <1>2

\* The connection starts with nothing on its way (transport.rs:140-166).
LEMMA InitInv == Init => Inv
<1> SUFFICES ASSUME Init PROVE Inv
  OBVIOUS
<1>1. /\ \A c \in Chan : chan[c] = << >>
      /\ \A t \in Task : hand[t] = << >>
      /\ chan \in [Chan -> Seq(Stretch)] /\ hand \in [Task -> Seq(Message)]
  BY DEF Init
<1>2. TypeOK
  <2>1. \A c \in Chan : Len(chan[c]) <= Cap(c)
    BY <1>1, PipelineAssumption DEF Cap
  <2> QED BY <1>1, <2>1, PipelineAssumption DEF Init, TypeOK, Stretch, Message
<1>3. UdpLine
  BY <1>1 DEF UdpLine, Task
<1>4. UpLine
  BY <1>1 DEF Init, UpLine, UpAt, Singles, Carries, Task, Chan
<1>5. DownLine
  <2>1. Run(<< >>, 0, 0)
    BY RunEmpty
  <2>2. ConnSend(0) = << >>
    BY DEF ConnSend
  <2>3. Bundle(<< >>, 0, 0)
    BY <2>2, ConnSendBundle
  <2>4. Singles(<< >>, 0) /\ Carries(<< >>, "response", 0) /\ Len(<< >>) = 0
    BY DEF Singles, Carries
  <2>5. DownAt(<< >>, << >>, << >>, << >>, << >>, 0)
    BY <2>1, <2>3, <2>4 DEF DownAt
  <2> QED BY <1>1, <2>5 DEF Init, DownLine, Chan, Task
<1> QED BY <1>2, <1>3, <1>4, <1>5 DEF Inv

\* The main loop begins to send a packet (client.rs:282, 312).
LEMMA MainSendsInv == Inv /\ MainSends => Inv'
<1> SUFFICES ASSUME Inv, MainSends PROVE Inv'
  OBVIOUS
<1> DEFINE ms == <<To("request", <<issued + 1>>)>>
<1>1. TypeOK /\ UdpLine /\ UpLine /\ DownLine
  BY DEF Inv
<1>2. issued \in Nat /\ issued + 1 \in Nat /\ issued + 1 \in 0 .. MaxUp
  BY <1>1, Types, PipelineAssumption DEF MainSends
<1>3. ms \in Seq(Message)
  <2>1. "request" \in Chan
    BY DEF Chan
  <2> QED BY <1>2, <2>1, CarriesOne
<1>4. /\ hand' = [hand EXCEPT !["main"] = ms] /\ hand["main"] = << >>
      /\ issued' = issued + 1 /\ UNCHANGED <<chan, handed, read, delivered>>
  BY DEF MainSends, Idle
<1>5. "main" \in Task /\ hand \in [Task -> Seq(Message)]
  BY <1>1 DEF TypeOK, Message, Task
<1>6. UpAt(handed, chan["quic_send"], hand["link_write"], chan["request"], ms, issued + 1)
  <2>1. /\ handed \in Stretch /\ chan["quic_send"] \in Seq(Stretch)
        /\ chan["request"] \in Seq(Stretch) /\ hand["link_write"] \in Seq(Message)
    BY <1>1, Types DEF Chan, Task
  <2> QED BY <1>1, <1>2, <1>4, <2>1, UpIssue DEF UpLine
<1> HIDE DEF ms
<1>7. /\ hand' \in [Task -> Seq(Message)] /\ hand'["main"] = ms
      /\ \A u \in Task \ {"main"} : hand'[u] = hand[u]
  BY <1>3, <1>4, <1>5
<1>8. \A u \in {"link_write", "quic", "link_read", "udp_read", "udp_write"} : hand'[u] = hand[u]
  BY <1>7 DEF Task
<1>9. TypeOK'
  BY <1>1, <1>2, <1>4, <1>7 DEF TypeOK, Message, Cap
<1>10. UpLine'
  BY <1>4, <1>6, <1>7, <1>8 DEF UpLine
<1>11. DownLine' /\ UdpLine'
  BY <1>1, <1>4, <1>8 DEF DownLine, UdpLine
<1> QED BY <1>9, <1>10, <1>11 DEF Inv

\* The main loop receives a packet (client.rs:330-399).
LEMMA MainReceivesInv == Inv /\ MainReceives => Inv'
<1> SUFFICES ASSUME Inv, MainReceives PROVE Inv'
  OBVIOUS
<1>1. TypeOK /\ UdpLine /\ UpLine /\ DownLine
  BY DEF Inv
<1>2. /\ Get("main", "response", << >>)
      /\ delivered' = delivered \o Head(chan["response"]) /\ UNCHANGED <<issued, handed, read>>
  BY DEF MainReceives
<1>3. << >> \in Seq(Message) /\ "main" \in Task /\ "response" \in Chan
  BY DEF Task, Chan
<1>4. /\ chan["response"] # << >> /\ hand["main"] = << >>
      /\ chan' \in [Chan -> Seq(Stretch)]
      /\ \A c \in Chan : Len(chan'[c]) <= Cap(c)
      /\ chan'["response"] = Tail(chan["response"])
      /\ \A c \in Chan \ {"response"} : chan'[c] = chan[c]
      /\ hand' \in [Task -> Seq(Message)]
      /\ hand'["main"] = << >>
      /\ \A u \in Task \ {"main"} : hand'[u] = hand[u]
  BY <1>1, <1>2, <1>3, GetFrame
<1>5. \A u \in Task : hand'[u] = hand[u]
  BY <1>4
<1>6. chan["response"] \in Seq(Stretch) /\ delivered \in Stretch
  BY <1>1, <1>3, Types
<1>7. /\ delivered' \in Stretch
      /\ DownAt(delivered', chan'["response"], hand["link_read"], chan["quic_recv"], hand["quic"], read)
  BY <1>1, <1>2, <1>4, <1>6, DownTake DEF DownLine
<1>8. TypeOK'
  BY <1>1, <1>2, <1>4, <1>7 DEF TypeOK, Message, Cap
<1>9. UpLine' /\ UdpLine'
  BY <1>1, <1>2, <1>4, <1>5 DEF UpLine, UdpLine, Chan, Task
<1>10. DownLine'
  BY <1>2, <1>4, <1>5, <1>7 DEF DownLine, Chan, Task
<1> QED BY <1>8, <1>9, <1>10 DEF Inv

\* link_write_loop takes a request (link.rs:358-397).
LEMMA LinkWriteInv == Inv /\ link_write_loop => Inv'
<1> SUFFICES ASSUME Inv, link_write_loop PROVE Inv'
  OBVIOUS
<1> DEFINE ms == Encoded(Head(chan["request"]))
<1>1. TypeOK /\ UdpLine /\ UpLine /\ DownLine
  BY DEF Inv
<1>2. Get("link_write", "request", ms) /\ UNCHANGED <<issued, handed, read, delivered>>
  BY DEF link_write_loop
<1>3. "link_write" \in Task /\ "request" \in Chan
  BY DEF Task, Chan
<1>4. chan["request"] # << >> /\ hand["link_write"] = << >>
  BY <1>2 DEF Get, Idle
<1>5. /\ ms \in Seq(Message)
      /\ UpAt(handed, chan["quic_send"], ms, Tail(chan["request"]), hand["main"], issued)
  <2>1. /\ handed \in Stretch /\ chan["quic_send"] \in Seq(Stretch) /\ issued \in Nat
        /\ chan["request"] \in Seq(Stretch) /\ hand["main"] \in Seq(Message)
    BY <1>1, Types DEF Chan, Task
  <2> QED BY <1>1, <1>4, <2>1, UpEncode DEF UpLine
<1> HIDE DEF ms
<1>6. /\ chan' \in [Chan -> Seq(Stretch)]
      /\ \A c \in Chan : Len(chan'[c]) <= Cap(c)
      /\ chan'["request"] = Tail(chan["request"])
      /\ \A c \in Chan \ {"request"} : chan'[c] = chan[c]
      /\ hand' \in [Task -> Seq(Message)]
      /\ hand'["link_write"] = ms
      /\ \A u \in Task \ {"link_write"} : hand'[u] = hand[u]
  BY <1>1, <1>2, <1>3, <1>5, GetFrame
<1>7. TypeOK'
  BY <1>1, <1>2, <1>6 DEF TypeOK, Message, Cap
<1>8. UpLine'
  BY <1>2, <1>5, <1>6 DEF UpLine, Chan, Task
<1>9. DownLine' /\ UdpLine'
  BY <1>1, <1>2, <1>6 DEF DownLine, UdpLine, Chan, Task
<1> QED BY <1>7, <1>8, <1>9 DEF Inv

\* link_read_loop parses a stretch (link.rs:296-356).
LEMMA LinkReadInv == Inv /\ link_read_loop => Inv'
<1> SUFFICES ASSUME Inv, link_read_loop PROVE Inv'
  OBVIOUS
<1> DEFINE ms == Parsed(Head(chan["quic_recv"]))
<1>1. TypeOK /\ UdpLine /\ UpLine /\ DownLine
  BY DEF Inv
<1>2. Get("link_read", "quic_recv", ms) /\ UNCHANGED <<issued, handed, read, delivered>>
  BY DEF link_read_loop
<1>3. "link_read" \in Task /\ "quic_recv" \in Chan
  BY DEF Task, Chan
<1>4. chan["quic_recv"] # << >> /\ hand["link_read"] = << >>
  BY <1>2 DEF Get, Idle
<1>5. /\ ms \in Seq(Message)
      /\ DownAt(delivered, chan["response"], ms, Tail(chan["quic_recv"]), hand["quic"], read)
  <2>1. /\ delivered \in Stretch /\ chan["response"] \in Seq(Stretch) /\ read \in Nat
        /\ chan["quic_recv"] \in Seq(Stretch)
    BY <1>1, Types DEF Chan
  <2> QED BY <1>1, <1>4, <2>1, DownParse DEF DownLine
<1> HIDE DEF ms
<1>6. /\ chan' \in [Chan -> Seq(Stretch)]
      /\ \A c \in Chan : Len(chan'[c]) <= Cap(c)
      /\ chan'["quic_recv"] = Tail(chan["quic_recv"])
      /\ \A c \in Chan \ {"quic_recv"} : chan'[c] = chan[c]
      /\ hand' \in [Task -> Seq(Message)]
      /\ hand'["link_read"] = ms
      /\ \A u \in Task \ {"link_read"} : hand'[u] = hand[u]
  BY <1>1, <1>2, <1>3, <1>5, GetFrame
<1>7. TypeOK'
  BY <1>1, <1>2, <1>6 DEF TypeOK, Message, Cap
<1>8. DownLine'
  BY <1>2, <1>5, <1>6 DEF DownLine, Chan, Task
<1>9. UpLine' /\ UdpLine'
  BY <1>1, <1>2, <1>6 DEF UpLine, UdpLine, Chan, Task
<1> QED BY <1>7, <1>8, <1>9 DEF Inv

\* A datagram from the socket (transport/client.rs:9-39).
LEMMA UdpReadInv == Inv /\ udp_read_loop => Inv'
<1> SUFFICES ASSUME Inv, udp_read_loop PROVE Inv'
  OBVIOUS
<1> DEFINE d == To("udp_recv", Datagram)
<1>1. TypeOK /\ UdpLine /\ UpLine /\ DownLine
  BY DEF Inv
<1>2. d \in Message /\ d.to = "udp_recv"
  BY DEF To, Datagram, Message, Stretch, Chan
<1>3. /\ hand' = [hand EXCEPT !["udp_read"] = <<d>>]
      /\ UNCHANGED <<chan, issued, handed, read, delivered>>
  BY DEF udp_read_loop
<1> HIDE DEF d
<1>4. "udp_read" \in Task /\ hand \in [Task -> Seq(Message)] /\ <<d>> \in Seq(Message)
  BY <1>1, <1>2 DEF TypeOK, Message, Task
<1>5. /\ hand' \in [Task -> Seq(Message)] /\ hand'["udp_read"] = <<d>>
      /\ \A u \in Task \ {"udp_read"} : hand'[u] = hand[u]
  BY <1>3, <1>4
<1>6. TypeOK'
  BY <1>1, <1>3, <1>5 DEF TypeOK, Message, Cap
<1>7. UpLine' /\ DownLine'
  BY <1>1, <1>3, <1>5 DEF UpLine, DownLine, Task
<1>8. UdpLine'
  <2>1. hand'["udp_write"] = << >>
    BY <1>1, <1>5 DEF UdpLine, Task
  <2>2. \A i \in 1 .. Len(<<d>>) : <<d>>[i].to = "udp_recv"
    BY <1>2
  <2> QED BY <1>5, <2>1, <2>2 DEF UdpLine
<1> QED BY <1>6, <1>7, <1>8 DEF Inv

\* A datagram to the socket (transport/client.rs:90-126).
LEMMA UdpWriteInv == Inv /\ udp_write_loop => Inv'
<1> SUFFICES ASSUME Inv, udp_write_loop PROVE Inv'
  OBVIOUS
<1>1. TypeOK /\ UdpLine /\ UpLine /\ DownLine
  BY DEF Inv
<1>2. Get("udp_write", "udp_send", << >>) /\ UNCHANGED <<issued, handed, read, delivered>>
  BY DEF udp_write_loop
<1>3. "udp_write" \in Task /\ "udp_send" \in Chan /\ << >> \in Seq(Message)
  BY DEF Task, Chan
<1>4. /\ chan' \in [Chan -> Seq(Stretch)]
      /\ \A c \in Chan : Len(chan'[c]) <= Cap(c)
      /\ \A c \in Chan \ {"udp_send"} : chan'[c] = chan[c]
      /\ hand' \in [Task -> Seq(Message)]
      /\ hand["udp_write"] = << >>
      /\ hand'["udp_write"] = << >>
      /\ \A u \in Task \ {"udp_write"} : hand'[u] = hand[u]
  BY <1>1, <1>2, <1>3, GetFrame
<1>5. TypeOK'
  BY <1>1, <1>2, <1>4 DEF TypeOK, Message, Cap
<1>6. UpLine' /\ DownLine'
  BY <1>1, <1>2, <1>4 DEF UpLine, DownLine, Chan, Task
<1>7. UdpLine'
  BY <1>1, <1>4 DEF UdpLine, Task
<1> QED BY <1>5, <1>6, <1>7 DEF Inv

\* quic_process_loop gets new messages to send, with what it has read since, and
\* leaves the packets on their way up alone.
LEMMA QuicHandInv ==
  ASSUME Inv, hand["quic"] = << >>, NEW h, Bundle(h, read, read'), read' \in 0 .. MaxDown,
         hand' = [hand EXCEPT !["quic"] = h],
         chan' \in [Chan -> Seq(Stretch)],
         \A c \in Chan : Len(chan'[c]) <= Cap(c),
         chan'["response"] = chan["response"], chan'["quic_recv"] = chan["quic_recv"],
         handed' \in Stretch,
         UpAt(handed', chan'["quic_send"], hand["link_write"], chan'["request"], hand["main"], issued),
         UNCHANGED <<issued, delivered>>
  PROVE  Inv'
<1>1. TypeOK /\ UdpLine /\ UpLine /\ DownLine
  BY DEF Inv
<1>2. h \in Seq(Message) /\ "quic" \in Task /\ hand \in [Task -> Seq(Message)]
  BY <1>1 DEF Bundle, TypeOK, Message, Task
<1>3. /\ hand' \in [Task -> Seq(Message)] /\ hand'["quic"] = h
      /\ \A u \in Task \ {"quic"} : hand'[u] = hand[u]
  BY <1>2
<1>4. TypeOK'
  BY <1>1, <1>3 DEF TypeOK, Message, Cap
<1>5. UpLine' /\ UdpLine'
  BY <1>1, <1>3 DEF UpLine, UdpLine, Task
<1>6. DownAt(delivered, chan["response"], hand["link_read"], chan["quic_recv"], h, read')
  <2>1. /\ delivered \in Stretch /\ chan["response"] \in Seq(Stretch) /\ read \in Nat
        /\ chan["quic_recv"] \in Seq(Stretch) /\ hand["link_read"] \in Seq(Message)
    BY <1>1, Types DEF Chan, Task
  <2>2. read' \in Nat
    BY PipelineAssumption
  <2> QED BY <1>1, <2>1, <2>2, DownRead DEF DownLine
<1>7. DownLine'
  BY <1>3, <1>6 DEF DownLine, Task
<1> QED BY <1>4, <1>5, <1>7 DEF Inv

\* A datagram: what it made readable follows what was read (link.rs:106-156).
LEMMA QuicReceivesInv ==
  ASSUME Inv, NEW before \in Nat, NEW n \in Nat, NEW m \in Nat, NEW after \in Nat,
         NEW part \in BOOLEAN, QuicReceives(before, n, m, after, part)
  PROVE  Inv'
<1> DEFINE more == part /\ n > 0
           last == IF m > 0 THEN after ELSE 0
           h == ConnSend(before) \o StreamRecv(read, n, part) \o ConnSend(after)
                  \o StreamRecv(read + n, m, more) \o ConnSend(last)
<1>1. TypeOK /\ UpLine
  BY DEF Inv
<1>2. /\ Get("quic", "udp_recv", h) /\ read' = read + n + m /\ read' <= MaxDown
      /\ UNCHANGED <<issued, handed, delivered>>
  BY DEF QuicReceives
<1>3. read \in Nat /\ read + n \in Nat /\ read' \in Nat /\ last \in Nat /\ more \in BOOLEAN
      /\ read' = (read + n) + m
  BY <1>1, <1>2, Types
<1> HIDE DEF last, more
<1>4. Bundle(ConnSend(before), read, read) /\ Bundle(StreamRecv(read, n, part), read, read + n)
      /\ Bundle(ConnSend(after), read + n, read + n)
  BY <1>3, ConnSendBundle, StreamRecvBundle
<1>5. Bundle(StreamRecv(read + n, m, more), read + n, read') /\ Bundle(ConnSend(last), read', read')
  BY <1>3, ConnSendBundle, StreamRecvBundle
<1>6. Bundle(ConnSend(before) \o StreamRecv(read, n, part), read, read + n)
  BY <1>3, <1>4, BundleConcat
<1>7. Bundle(ConnSend(before) \o StreamRecv(read, n, part) \o ConnSend(after), read, read + n)
  BY <1>3, <1>4, <1>6, BundleConcat
<1>8. Bundle(ConnSend(before) \o StreamRecv(read, n, part) \o ConnSend(after)
               \o StreamRecv(read + n, m, more), read, read')
  BY <1>3, <1>5, <1>7, BundleConcat
<1>9. Bundle(h, read, read')
  BY <1>3, <1>5, <1>8, BundleConcat
<1> HIDE DEF h
<1>10. "quic" \in Task /\ "udp_recv" \in Chan /\ h \in Seq(Message)
  BY <1>9 DEF Task, Chan, Bundle
<1>11. /\ hand["quic"] = << >>
       /\ chan' \in [Chan -> Seq(Stretch)]
       /\ \A c \in Chan : Len(chan'[c]) <= Cap(c)
       /\ \A c \in Chan \ {"udp_recv"} : chan'[c] = chan[c]
  BY <1>1, <1>2, <1>10, GetFrame
<1>12. hand' = [hand EXCEPT !["quic"] = h]
  BY <1>2 DEF Get
<1>13. \A c \in {"response", "quic_recv", "quic_send", "request"} : chan'[c] = chan[c]
  BY <1>11 DEF Chan
<1>14. /\ handed' \in Stretch
       /\ UpAt(handed', chan'["quic_send"], hand["link_write"], chan'["request"], hand["main"], issued)
  BY <1>1, <1>2, <1>13, Types DEF UpLine
<1>15. read' \in 0 .. MaxDown
  BY <1>2, <1>3, PipelineAssumption
<1> QED BY <1>2, <1>9, <1>11, <1>12, <1>13, <1>14, <1>15, QuicHandInv

\* A packet is given to quiche (link.rs:208-288).
LEMMA QuicSendsInv ==
  ASSUME Inv, NEW n \in Nat, QuicSends(n)
  PROVE  Inv'
<1> DEFINE h == ConnSend(n)
<1>1. TypeOK /\ UpLine
  BY DEF Inv
<1>2. /\ Get("quic", "quic_send", h) /\ handed' = handed \o Head(chan["quic_send"])
      /\ UNCHANGED <<issued, read, delivered>>
  BY DEF QuicSends
<1>3. read \in Nat /\ read' = read /\ read \in 0 .. MaxDown
  BY <1>1, <1>2, Types DEF TypeOK
<1>4. Bundle(h, read, read')
  BY <1>3, ConnSendBundle
<1> HIDE DEF h
<1>5. "quic" \in Task /\ "quic_send" \in Chan /\ h \in Seq(Message)
  BY <1>4 DEF Task, Chan, Bundle
<1>6. /\ hand["quic"] = << >> /\ chan["quic_send"] # << >>
      /\ chan' \in [Chan -> Seq(Stretch)]
      /\ \A c \in Chan : Len(chan'[c]) <= Cap(c)
      /\ chan'["quic_send"] = Tail(chan["quic_send"])
      /\ \A c \in Chan \ {"quic_send"} : chan'[c] = chan[c]
  BY <1>1, <1>2, <1>5, GetFrame
<1>7. hand' = [hand EXCEPT !["quic"] = h]
  BY <1>2 DEF Get
<1>8. \A c \in {"response", "quic_recv", "request"} : chan'[c] = chan[c]
  BY <1>6 DEF Chan
<1>9. /\ handed' \in Stretch
      /\ UpAt(handed', chan'["quic_send"], hand["link_write"], chan'["request"], hand["main"], issued)
  <2>1. /\ handed \in Stretch /\ chan["quic_send"] \in Seq(Stretch) /\ issued \in Nat
        /\ chan["request"] \in Seq(Stretch)
        /\ hand["main"] \in Seq(Message) /\ hand["link_write"] \in Seq(Message)
    BY <1>1, Types DEF Chan, Task
  <2>2. /\ handed \o Head(chan["quic_send"]) \in Stretch
        /\ UpAt(handed \o Head(chan["quic_send"]), Tail(chan["quic_send"]), hand["link_write"],
                chan["request"], hand["main"], issued)
    BY <1>1, <1>6, <2>1, UpTake DEF UpLine
  <2> QED BY <1>2, <1>6, <1>8, <2>2
<1> QED BY <1>2, <1>3, <1>4, <1>6, <1>7, <1>8, <1>9, QuicHandInv

\* The ticker or a timeout signal (link.rs:93-104).
LEMMA QuicTimerInv == Inv /\ QuicTimer => Inv'
<1> SUFFICES ASSUME Inv, QuicTimer PROVE Inv'
  OBVIOUS
<1>1. TypeOK /\ UpLine
  BY DEF Inv
<1>2. /\ hand["quic"] = << >> /\ hand' = [hand EXCEPT !["quic"] = ConnSend(1)]
      /\ UNCHANGED <<chan, issued, handed, read, delivered>>
  BY DEF QuicTimer, Idle
<1>3. read \in Nat /\ read' = read /\ read \in 0 .. MaxDown
  BY <1>1, <1>2, Types DEF TypeOK
<1>4. Bundle(ConnSend(1), read, read')
  BY <1>3, ConnSendBundle
<1>5. chan' \in [Chan -> Seq(Stretch)] /\ \A c \in Chan : Len(chan'[c]) <= Cap(c)
  BY <1>1, <1>2 DEF TypeOK
<1>6. /\ handed' \in Stretch
      /\ UpAt(handed', chan'["quic_send"], hand["link_write"], chan'["request"], hand["main"], issued)
  BY <1>1, <1>2, Types DEF UpLine
<1> QED BY <1>2, <1>3, <1>4, <1>5, <1>6, QuicHandInv

\* A send in any of the tasks: what it carries moves on and nothing else changes.
LEMMA PutInv ==
  ASSUME Inv, NEW t \in Task, Put(t)
  PROVE  Inv'
<1> DEFINE m == Head(hand[t])
<1>1. TypeOK /\ UdpLine /\ UpLine /\ DownLine
  BY DEF Inv
<1>2. UNCHANGED <<issued, handed, read, delivered>>
  BY DEF Put
<1>3. /\ m \in Message /\ hand[t] # << >>
      /\ chan' \in [Chan -> Seq(Stretch)]
      /\ \A c \in Chan : Len(chan'[c]) <= Cap(c)
      /\ chan'[m.to] = Append(chan[m.to], m.what)
      /\ \A c \in Chan \ {m.to} : chan'[c] = chan[c]
      /\ hand' \in [Task -> Seq(Message)]
      /\ hand'[t] = Tail(hand[t])
      /\ \A u \in Task \ {t} : hand'[u] = hand[u]
  BY <1>1, PutFrame
<1>4. TypeOK'
  BY <1>1, <1>2, <1>3 DEF TypeOK, Message, Cap
<1>5. /\ chan["request"] \in Seq(Stretch) /\ chan["quic_send"] \in Seq(Stretch)
      /\ chan["response"] \in Seq(Stretch) /\ chan["quic_recv"] \in Seq(Stretch)
      /\ hand["main"] \in Seq(Message) /\ hand["link_write"] \in Seq(Message)
      /\ hand["link_read"] \in Seq(Message) /\ hand["quic"] \in Seq(Message)
      /\ hand["udp_read"] \in Seq(Message)
      /\ handed \in Stretch /\ delivered \in Stretch /\ issued \in Nat /\ read \in Nat
  BY <1>1, Types DEF Chan, Task
<1>6. CASE t = "main"
  <2>0. hand["main"] # << >> /\ m = Head(hand["main"])
    BY <1>3, <1>6
  <2>1. /\ m.to = "request"
        /\ UpAt(handed, chan["quic_send"], hand["link_write"], Append(chan["request"], m.what),
                Tail(hand["main"]), issued)
    <3>1. UpAt(handed, chan["quic_send"], hand["link_write"], chan["request"], hand["main"], issued)
      BY <1>1 DEF UpLine
    <3>2. /\ Head(hand["main"]).to = "request"
          /\ UpAt(handed, chan["quic_send"], hand["link_write"],
                  Append(chan["request"], Head(hand["main"]).what), Tail(hand["main"]), issued)
      BY <1>5, <2>0, <3>1, UpRequest
    <3> QED BY <2>0, <3>2
  <2>2. chan'["request"] = Append(chan["request"], m.what) /\ hand'["main"] = Tail(hand["main"])
        /\ (\A c \in Chan \ {"request"} : chan'[c] = chan[c])
        /\ (\A u \in Task \ {"main"} : hand'[u] = hand[u])
    BY <1>3, <1>6, <2>1
  <2> HIDE DEF m
  <2>3. UpLine'
    BY <1>2, <2>1, <2>2 DEF UpLine, Chan, Task
  <2>4. DownLine' /\ UdpLine'
    BY <1>1, <1>2, <2>2 DEF DownLine, UdpLine, Chan, Task
  <2> QED BY <1>4, <2>3, <2>4 DEF Inv
<1>7. CASE t = "link_write"
  <2>0. hand["link_write"] # << >> /\ m = Head(hand["link_write"])
    BY <1>3, <1>7
  <2>1. /\ m.to = "quic_send"
        /\ UpAt(handed, Append(chan["quic_send"], m.what), Tail(hand["link_write"]),
                chan["request"], hand["main"], issued)
    <3>1. UpAt(handed, chan["quic_send"], hand["link_write"], chan["request"], hand["main"], issued)
      BY <1>1 DEF UpLine
    <3>2. /\ Head(hand["link_write"]).to = "quic_send"
          /\ UpAt(handed, Append(chan["quic_send"], Head(hand["link_write"]).what),
                  Tail(hand["link_write"]), chan["request"], hand["main"], issued)
      BY <1>5, <2>0, <3>1, UpSend
    <3> QED BY <2>0, <3>2
  <2>2. chan'["quic_send"] = Append(chan["quic_send"], m.what)
        /\ hand'["link_write"] = Tail(hand["link_write"])
        /\ (\A c \in Chan \ {"quic_send"} : chan'[c] = chan[c])
        /\ (\A u \in Task \ {"link_write"} : hand'[u] = hand[u])
    BY <1>3, <1>7, <2>1
  <2> HIDE DEF m
  <2>3. UpLine'
    BY <1>2, <2>1, <2>2 DEF UpLine, Chan, Task
  <2>4. DownLine' /\ UdpLine'
    BY <1>1, <1>2, <2>2 DEF DownLine, UdpLine, Chan, Task
  <2> QED BY <1>4, <2>3, <2>4 DEF Inv
<1>8. CASE t = "link_read"
  <2>0. hand["link_read"] # << >> /\ m = Head(hand["link_read"])
    BY <1>3, <1>8
  <2>1. /\ m.to = "response"
        /\ DownAt(delivered, Append(chan["response"], m.what), Tail(hand["link_read"]),
                  chan["quic_recv"], hand["quic"], read)
    <3>1. DownAt(delivered, chan["response"], hand["link_read"], chan["quic_recv"], hand["quic"], read)
      BY <1>1 DEF DownLine
    <3>2. /\ Head(hand["link_read"]).to = "response"
          /\ DownAt(delivered, Append(chan["response"], Head(hand["link_read"]).what),
                    Tail(hand["link_read"]), chan["quic_recv"], hand["quic"], read)
      BY <1>5, <2>0, <3>1, DownAnswer
    <3> QED BY <2>0, <3>2
  <2>2. chan'["response"] = Append(chan["response"], m.what)
        /\ hand'["link_read"] = Tail(hand["link_read"])
        /\ (\A c \in Chan \ {"response"} : chan'[c] = chan[c])
        /\ (\A u \in Task \ {"link_read"} : hand'[u] = hand[u])
    BY <1>3, <1>8, <2>1
  <2> HIDE DEF m
  <2>3. DownLine'
    BY <1>2, <2>1, <2>2 DEF DownLine, Chan, Task
  <2>4. UpLine' /\ UdpLine'
    BY <1>1, <1>2, <2>2 DEF UpLine, UdpLine, Chan, Task
  <2> QED BY <1>4, <2>3, <2>4 DEF Inv
<1>9. CASE t = "quic"
  <2>0. hand["quic"] # << >> /\ m = Head(hand["quic"])
    BY <1>3, <1>9
  <2>1. \/ /\ m.to = "udp_send"
           /\ DownAt(delivered, chan["response"], hand["link_read"], chan["quic_recv"],
                     Tail(hand["quic"]), read)
        \/ /\ m.to = "quic_recv"
           /\ DownAt(delivered, chan["response"], hand["link_read"],
                     Append(chan["quic_recv"], m.what), Tail(hand["quic"]), read)
    <3>1. DownAt(delivered, chan["response"], hand["link_read"], chan["quic_recv"], hand["quic"], read)
      BY <1>1 DEF DownLine
    <3>2. \/ /\ Head(hand["quic"]).to = "udp_send"
             /\ DownAt(delivered, chan["response"], hand["link_read"], chan["quic_recv"],
                       Tail(hand["quic"]), read)
          \/ /\ Head(hand["quic"]).to = "quic_recv"
             /\ DownAt(delivered, chan["response"], hand["link_read"],
                       Append(chan["quic_recv"], Head(hand["quic"]).what), Tail(hand["quic"]), read)
      BY <1>5, <2>0, <3>1, DownReadable
    <3> QED BY <2>0, <3>2
  <2>2. hand'["quic"] = Tail(hand["quic"])
        /\ (\A u \in Task \ {"quic"} : hand'[u] = hand[u])
    BY <1>3, <1>9
  <2>3. /\ \A c \in {"quic_send", "request", "response"} : chan'[c] = chan[c]
        /\ m.to = "udp_send" => chan'["quic_recv"] = chan["quic_recv"]
        /\ m.to = "quic_recv" => chan'["quic_recv"] = Append(chan["quic_recv"], m.what)
    BY <1>3, <2>1 DEF Chan
  <2> HIDE DEF m
  <2>4. DownLine'
    BY <1>2, <2>1, <2>2, <2>3 DEF DownLine, Task
  <2>5. UpLine' /\ UdpLine'
    BY <1>1, <1>2, <2>2, <2>3 DEF UpLine, UdpLine, Task
  <2> QED BY <1>4, <2>4, <2>5 DEF Inv
<1>10. CASE t = "udp_read"
  <2>1. hand["udp_read"] \in Seq(Message) /\ hand["udp_read"] # << >>
    BY <1>3, <1>5, <1>10 DEF Task
  <2>2. Len(hand["udp_read"]) \in Nat \ {0} /\ m = hand["udp_read"][1]
    BY <1>10, <2>1
  <2>3. m.to = "udp_recv"
    BY <1>1, <2>2 DEF UdpLine
  <2>4. (\A c \in {"quic_send", "request", "response", "quic_recv"} : chan'[c] = chan[c])
        /\ (\A u \in Task \ {"udp_read"} : hand'[u] = hand[u])
        /\ hand'["udp_read"] = Tail(hand["udp_read"])
    BY <1>3, <1>10, <2>3 DEF Chan
  <2>5. UpLine' /\ DownLine'
    BY <1>1, <1>2, <2>4 DEF UpLine, DownLine, Task
  <2>6. UdpLine'
    <3>1. hand'["udp_write"] = << >>
      BY <1>1, <2>4 DEF UdpLine, Task
    <3>2. ASSUME NEW i \in 1 .. Len(Tail(hand["udp_read"]))
          PROVE  Tail(hand["udp_read"])[i].to = "udp_recv"
      <4>1. Tail(hand["udp_read"])[i] = hand["udp_read"][i + 1] /\ i + 1 \in 1 .. Len(hand["udp_read"])
        BY <2>1
      <4> QED BY <1>1, <4>1 DEF UdpLine
    <3> QED BY <2>4, <3>1, <3>2 DEF UdpLine
  <2> QED BY <1>4, <2>5, <2>6 DEF Inv
<1>11. CASE t = "udp_write"
  BY <1>1, <1>3, <1>11 DEF UdpLine
<1> QED BY <1>6, <1>7, <1>8, <1>9, <1>10, <1>11 DEF Task

\* Every step of every task keeps the packets in line.
LEMMA NextInv == Inv /\ [Next]_vars => Inv'
<1> SUFFICES ASSUME Inv, [Next]_vars PROVE Inv'
  OBVIOUS
<1>1. CASE Next
  <2>1. ASSUME NEW before \in 0 .. 1, NEW after \in 0 .. 1, NEW m \in 0 .. 1, NEW n \in 0 .. 2,
               NEW part \in BOOLEAN, QuicReceives(before, n, m, after, part)
        PROVE  Inv'
    <3>1. before \in Nat /\ after \in Nat /\ m \in Nat /\ n \in Nat
      OBVIOUS
    <3> QED BY <2>1, <3>1, QuicReceivesInv
  <2>2. ASSUME NEW n \in 0 .. 1, QuicSends(n) PROVE Inv'
    <3>1. n \in Nat
      OBVIOUS
    <3> QED BY <2>2, <3>1, QuicSendsInv
  <2> QED BY <1>1, <2>1, <2>2, MainSendsInv, MainReceivesInv, LinkWriteInv, LinkReadInv,
             UdpReadInv, UdpWriteInv, QuicTimerInv, PutInv DEF Next, quic_process_loop
<1>2. CASE UNCHANGED vars
  BY <1>2 DEF vars, Inv, TypeOK, UdpLine, UpLine, DownLine, Cap
<1> QED BY <1>1, <1>2

\* Hence they are in line always.
LEMMA Invariant == Safety => []Inv
<1> QED BY InitInv, NextInv, PTL DEF Safety

\* No channel ever holds more than its capacity, and every task has messages to
\* send to the channels it has.
THEOREM TypeCorrect == Safety => []TypeOK
<1>1. Inv => TypeOK
  BY DEF Inv
<1> QED BY <1>1, Invariant, PTL

-----------------------------------------------------------------------------
(* No circle of tasks that wait for each other *)

\* Where each task waits.
LEMMA WaitsFor ==
  ASSUME Inv
  PROVE  /\ Blocked("main") => ~Room("request")
         /\ Blocked("link_write") => ~Room("quic_send")
         /\ Blocked("link_read") => ~Room("response")
         /\ Blocked("quic") => ~Room("udp_send") \/ ~Room("quic_recv")
         /\ Blocked("udp_read") => ~Room("udp_recv")
         /\ Idle("udp_write")
<1>1. TypeOK /\ UdpLine /\ UpLine /\ DownLine
  BY DEF Inv
<1>2. /\ chan["request"] \in Seq(Stretch) /\ chan["quic_send"] \in Seq(Stretch)
      /\ chan["response"] \in Seq(Stretch) /\ chan["quic_recv"] \in Seq(Stretch)
      /\ hand["main"] \in Seq(Message) /\ hand["link_write"] \in Seq(Message)
      /\ hand["link_read"] \in Seq(Message) /\ hand["quic"] \in Seq(Message)
      /\ hand["udp_read"] \in Seq(Message)
      /\ handed \in Stretch /\ delivered \in Stretch /\ issued \in Nat /\ read \in Nat
  BY <1>1, Types DEF Chan, Task
<1>3. hand["main"] # << >> => Head(hand["main"]).to = "request"
  BY <1>1, <1>2, UpRequest DEF UpLine
<1>4. hand["link_write"] # << >> => Head(hand["link_write"]).to = "quic_send"
  BY <1>1, <1>2, UpSend DEF UpLine
<1>5. hand["link_read"] # << >> => Head(hand["link_read"]).to = "response"
  BY <1>1, <1>2, DownAnswer DEF DownLine
<1>6. hand["quic"] # << >> => Head(hand["quic"]).to = "udp_send" \/ Head(hand["quic"]).to = "quic_recv"
  BY <1>1, <1>2, DownReadable DEF DownLine
<1>7. hand["udp_read"] # << >> => Head(hand["udp_read"]).to = "udp_recv"
  <2> SUFFICES ASSUME hand["udp_read"] # << >> PROVE Head(hand["udp_read"]).to = "udp_recv"
    OBVIOUS
  <2>1. Len(hand["udp_read"]) \in Nat \ {0} /\ Head(hand["udp_read"]) = hand["udp_read"][1]
    BY <1>2
  <2> QED BY <1>1, <2>1 DEF UdpLine
<1>8. Idle("udp_write")
  BY <1>1 DEF UdpLine, Idle
<1> QED BY <1>3, <1>4, <1>5, <1>6, <1>7, <1>8 DEF Blocked, Idle

\* A full channel is not empty.
LEMMA FullHasSome ==
  ASSUME TypeOK, NEW c \in Chan
  PROVE  /\ chan[c] = << >> => Room(c)
         /\ ~Room(c) => Len(chan[c]) >= Cap(c)
<1>1. chan[c] \in Seq(Stretch)
  BY Types
<1>2. Cap(c) \in Nat \ {0} /\ Len(chan[c]) \in Nat
  BY <1>1, PipelineAssumption DEF Cap
<1>3. chan[c] = << >> => Len(chan[c]) = 0
  OBVIOUS
<1> QED BY <1>2, <1>3 DEF Room

\* When main and link_write_loop both wait, they and their channels hold
\* 2 * send_chan_size + 2 packets.
LEMMA WaitingLoad ==
  ASSUME Inv, ~Room("request"), ~Room("quic_send"), ~Idle("main"), ~Idle("link_write")
  PROVE  issued - Len(handed) >= 2 * SendChan + 2
<1>1. TypeOK /\ UpLine
  BY DEF Inv
<1>2. Len(chan["request"]) >= SendChan /\ Len(chan["quic_send"]) >= SendChan
  BY <1>1, FullHasSome DEF Chan, Cap
<1>3. /\ chan["request"] \in Seq(Stretch) /\ chan["quic_send"] \in Seq(Stretch)
      /\ hand["main"] \in Seq(Message) /\ hand["link_write"] \in Seq(Message)
      /\ handed \in Stretch
  BY <1>1, Types DEF Chan, Task
<1>4. /\ Len(chan["request"]) \in Nat /\ Len(chan["quic_send"]) \in Nat /\ Len(handed) \in Nat
      /\ Len(hand["main"]) \in Nat \ {0} /\ Len(hand["link_write"]) \in Nat \ {0}
  BY <1>3 DEF Idle, Stretch
<1>5. issued = Len(handed) + Len(chan["quic_send"]) + Len(hand["link_write"])
                 + Len(chan["request"]) + Len(hand["main"])
  BY <1>1 DEF UpLine, UpAt
<1>6. SendChan \in Nat
  BY PipelineAssumption
<1>7. ASSUME NEW a \in Nat, NEW b \in Nat, NEW c \in Nat, NEW d \in Nat, NEW e \in Nat, NEW n,
             b >= SendChan, c # 0, d >= SendChan, e # 0, n = a + b + c + d + e
      PROVE  n - a >= 2 * SendChan + 2
  BY <1>6, <1>7
<1> QED BY <1>2, <1>4, <1>5, <1>7

\* While at most 2 * send_chan_size + 1 packets are on their way up, whenever a
\* task waits for room some task can go on: udp_write_loop never waits, every
\* other chain of waiting tasks leads to quic_process_loop, and for that one to
\* wait, all of link_read_loop, the main loop and link_write_loop must
\* (transport.rs:144, 164-166, link.rs:132, 376).
THEOREM SafeLoadHolds == Safety => []SafeLoad
<1>1. ASSUME Inv PROVE SafeLoad
  <2> SUFFICES ASSUME issued - Len(handed) <= 2 * SendChan + 1,
                      NEW t0 \in Task, Blocked(t0),
                      \A t \in Task : ~CanStep(t)
               PROVE  FALSE
    BY DEF SafeLoad
  <2>1. TypeOK
    BY <1>1 DEF Inv
  <2>2. \A t \in Task : Blocked(t) \/ (Idle(t) /\ \A c \in Inputs[t] : chan[c] = << >>)
    BY DEF CanStep
  <2>3. /\ Inputs["main"] = {"response"} /\ Inputs["link_write"] = {"request"}
        /\ Inputs["quic"] = {"quic_send", "udp_recv"} /\ Inputs["link_read"] = {"quic_recv"}
        /\ Inputs["udp_write"] = {"udp_send"}
    BY DEF Inputs
  <2>4. /\ Blocked("main") \/ chan["response"] = << >>
        /\ Blocked("link_write") \/ chan["request"] = << >>
        /\ Blocked("quic") \/ (chan["quic_send"] = << >> /\ chan["udp_recv"] = << >>)
        /\ Blocked("link_read") \/ chan["quic_recv"] = << >>
        /\ Blocked("udp_write") \/ chan["udp_send"] = << >>
    BY <2>2, <2>3 DEF Task
  <2>5. \A c \in {"request", "quic_send", "udp_send", "udp_recv", "quic_recv", "response"} :
          chan[c] = << >> => Room(c)
    BY <2>1, FullHasSome DEF Chan
  <2>6. ~Blocked("udp_write")
    BY <1>1, WaitsFor DEF Blocked
  <2>7. Room("udp_send")
    BY <2>4, <2>5, <2>6
  <2>8. /\ Blocked("main") => Blocked("link_write")
        /\ Blocked("link_write") => Blocked("quic")
        /\ Blocked("quic") => Blocked("link_read")
        /\ Blocked("link_read") => Blocked("main")
        /\ Blocked("udp_read") => Blocked("quic")
    BY <1>1, <2>4, <2>5, <2>7, WaitsFor
  <2>9. Blocked("main") /\ Blocked("link_write")
    BY <2>6, <2>8 DEF Task
  <2>10. ~Room("request") /\ ~Room("quic_send") /\ ~Idle("main") /\ ~Idle("link_write")
    BY <1>1, <2>9, WaitsFor DEF Blocked
  <2>11. issued - Len(handed) >= 2 * SendChan + 2
    BY <1>1, <2>10, WaitingLoad
  <2>12. issued \in Nat /\ Len(handed) \in Nat /\ SendChan \in Nat
    BY <2>1, Types, PipelineAssumption DEF Stretch
  <2> QED BY <2>11, <2>12
<1> QED BY <1>1, Invariant, PTL

-----------------------------------------------------------------------------
(* The pipes *)

\* The histories begin empty.
LEMMA PipesInit == Init => Down!Init /\ Up!Init
BY DEF Init, Down!Init, Up!Init

\* How the packets handed to quiche and those delivered grow.
LEMMA HistoriesStep ==
  ASSUME Inv, Next
  PROVE  /\ handed' = handed \/ (handed' = Append(handed, Len(handed) + 1) /\ Len(handed) < MaxUp)
         /\ \/ delivered' = delivered
            \/ delivered' = Append(delivered, Len(delivered) + 1) /\ Len(delivered) < MaxDown
<1>1. TypeOK /\ UpLine /\ DownLine
  BY DEF Inv
<1>2. /\ chan["request"] \in Seq(Stretch) /\ chan["quic_send"] \in Seq(Stretch)
      /\ chan["response"] \in Seq(Stretch) /\ chan["quic_recv"] \in Seq(Stretch)
      /\ hand["main"] \in Seq(Message) /\ hand["link_write"] \in Seq(Message)
      /\ hand["link_read"] \in Seq(Message) /\ hand["quic"] \in Seq(Message)
      /\ handed \in Stretch /\ delivered \in Stretch /\ issued \in Nat /\ read \in Nat
  BY <1>1, Types DEF Chan, Task
<1>3. ASSUME NEW n \in 0 .. 1, QuicSends(n)
      PROVE  handed' = Append(handed, Len(handed) + 1) /\ Len(handed) < MaxUp
             /\ delivered' = delivered
  <2>1. /\ chan["quic_send"] # << >> /\ handed' = handed \o Head(chan["quic_send"])
        /\ delivered' = delivered
    BY <1>3 DEF QuicSends, Get
  <2>2. Len(handed) < issued /\ handed \o Head(chan["quic_send"]) = Append(handed, Len(handed) + 1)
    BY <1>1, <1>2, <2>1, UpTake DEF UpLine
  <2>3. Len(handed) \in Nat /\ issued <= MaxUp /\ MaxUp \in Nat
    BY <1>1, <1>2, PipelineAssumption DEF TypeOK, Stretch
  <2> QED BY <1>2, <2>1, <2>2, <2>3
<1>4. ASSUME MainReceives
      PROVE  delivered' = Append(delivered, Len(delivered) + 1) /\ Len(delivered) < MaxDown
             /\ handed' = handed
  <2>1. /\ chan["response"] # << >> /\ delivered' = delivered \o Head(chan["response"])
        /\ handed' = handed
    BY <1>4 DEF MainReceives, Get
  <2>2. delivered \o Head(chan["response"]) = Append(delivered, Len(delivered) + 1)
    BY <1>1, <1>2, <2>1, DownTake DEF DownLine
  <2>3. Len(delivered) < read
    BY <1>1, <1>2, <2>1, DownShort DEF DownLine
  <2>4. Len(delivered) \in Nat /\ read <= MaxDown /\ MaxDown \in Nat /\ read \in Nat
    BY <1>1, <1>2, PipelineAssumption DEF TypeOK, Stretch
  <2> QED BY <2>1, <2>2, <2>3, <2>4
<1>5. CASE \E n \in 0 .. 1 : QuicSends(n)
  BY <1>3, <1>5
<1>6. CASE MainReceives
  BY <1>4, <1>6
<1>7. CASE ~(\E n \in 0 .. 1 : QuicSends(n)) /\ ~MainReceives
  BY <1>7 DEF Next, MainSends, link_write_loop, link_read_loop, udp_read_loop, udp_write_loop,
              quic_process_loop, QuicReceives, QuicTimer, Put
<1> QED BY <1>5, <1>6, <1>7

\* What a sender of n packets has sent.
LEMMA SentSeq ==
  ASSUME NEW n \in Nat
  PROVE  /\ Len([i \in 1 .. n |-> i]) = n
         /\ \A k \in 0 .. n - 1 : [i \in 1 .. n |-> i][k + 1] = k + 1
OBVIOUS

\* Every step moves at most one packet into each history, the one that comes next.
LEMMA PipesStep ==
  ASSUME Inv, [Next]_vars
  PROVE  [Down!Next]_(Down!vars) /\ [Up!Next]_(Up!vars)
<1>1. CASE UNCHANGED vars
  BY <1>1 DEF vars, Down!vars, Up!vars
<1>2. CASE Next
  <2>1. Len(handed) \in Nat /\ Len(delivered) \in Nat /\ MaxUp \in Nat /\ MaxDown \in Nat
    BY Types, PipelineAssumption DEF Inv, Stretch
  <2>2. ASSUME handed' = Append(handed, Len(handed) + 1), Len(handed) < MaxUp
        PROVE  Up!Next
    <3>1. /\ Len([i \in 1 .. MaxUp |-> i]) = MaxUp
          /\ [i \in 1 .. MaxUp |-> i][Len(handed) + 1] = Len(handed) + 1
      BY <2>1, <2>2, SentSeq
    <3> QED BY <2>2, <3>1 DEF Up!Next, Up!Deliver
  <2>3. ASSUME delivered' = Append(delivered, Len(delivered) + 1), Len(delivered) < MaxDown
        PROVE  Down!Next
    <3>1. /\ Len([i \in 1 .. MaxDown |-> i]) = MaxDown
          /\ [i \in 1 .. MaxDown |-> i][Len(delivered) + 1] = Len(delivered) + 1
      BY <2>1, <2>3, SentSeq
    <3> QED BY <2>3, <3>1 DEF Down!Next, Down!Deliver
  <2>4. handed' = handed => UNCHANGED Up!vars
    BY DEF Up!vars
  <2>5. delivered' = delivered => UNCHANGED Down!vars
    BY DEF Down!vars
  <2> QED BY <1>2, <2>2, <2>3, <2>4, <2>5, HistoriesStep
<1> QED BY <1>1, <1>2

\* The tasks and channels implement one pipe in each direction: what the main loop
\* sends is handed to quiche, and what the peer sends is delivered to it, whole,
\* once and in order, however the tasks wait for each other
\* (link.rs:132, 376, 447, client.rs:282, 312, 331).
THEOREM PipesImplemented == Safety => Pipes
<1>1. Safety => Down!Init /\ Up!Init
  BY PipesInit DEF Safety
<1>2. Safety => [][Down!Next]_(Down!vars) /\ [][Up!Next]_(Up!vars)
  BY Invariant, PipesStep, PTL DEF Safety
<1> QED BY <1>1, <1>2, PTL DEF Pipes, Down!Safety, Up!Safety
=============================================================================
