--------------------------- MODULE ListenProofs ---------------------------
(***************************************************************************)
(* Proofs about listen_at and the connections it feeds, for every set of   *)
(* addresses, any number of connections and every capacity.                *)
(*                                                                         *)
(* OneReceiver is not inductive: a slot that is taken for a new connection *)
(* must not be one of which a loop still runs, which Slotted says.         *)
(***************************************************************************)
EXTENDS Listen, TLAPS

ConnRec == [addr : Addrs, task : {"waiting", "handshake", "running", "done"},
            peer : 0 .. MaxClients, loops : SUBSET Loop, recv : Seq(Datagram),
            spawned : SUBSET Datagram, end : {"sending", "queued", "held", "dropped"}]

\* A connection within its bounds: the loops run only after the handshake.
Sound(c) ==
    /\ c \in ConnRec /\ Len(c.recv) <= RecvChan
    /\ c.task # "running" => c.loops = {}

\* The receiver of its datagrams exists.
Receives(c) == c.task \in {"waiting", "handshake"} \/ "quic" \in c.loops

Slotted == \A s \in Slots : Sound(conn[s])

Inv == TypeOK /\ Slotted /\ OneReceiver

\* The types of everything but the map and the connections.
RestOK ==
    /\ serving \in BOOLEAN
    /\ accept_rx \in Seq(Slots) /\ Len(accept_rx) <= SignalChan
    /\ client \in [Addrs -> 1 .. MaxClients]
    /\ answered \in [Addrs -> BOOLEAN]
    /\ faults \in 0 .. MaxFaults

-----------------------------------------------------------------------------
\* The type invariant, taken apart.
LEMMA Types ==
  TypeOK <=> /\ listening \in BOOLEAN /\ map \in [Addrs -> Slots \cup {NoSlot}]
             /\ conn \in [Slots -> ConnRec] /\ (\A s \in Slots : Len(conn[s].recv) <= RecvChan)
             /\ RestOK
BY DEF TypeOK, RestOK, ConnRec, map

\* Open is about the connection in the slot.
LEMMA OpenReceives == \A s \in Slots : Open(s) <=> Receives(conn[s])
BY DEF Open, Receives

\* A slot that has been given up: no task, no loops, no datagrams.
LEMMA NothingSound ==
  /\ Nothing \in ConnRec /\ Sound(Nothing) /\ ~Receives(Nothing)
<1>1. (CHOOSE a \in Addrs : TRUE) \in Addrs
  BY ListenAssumption
<1>2. 0 \in 0 .. MaxClients /\ 0 <= RecvChan
  BY ListenAssumption
<1> DEFINE c == CHOOSE a \in Addrs : TRUE
<1> HIDE DEF c
<1>3. Nothing = [addr |-> c, task |-> "done", peer |-> 0, loops |-> {},
                 recv |-> << >>, spawned |-> {}, end |-> "dropped"]
  BY DEF Nothing, c
<1>4. Nothing \in ConnRec
  BY <1>1, <1>2, <1>3 DEF ConnRec, c
<1>5. Sound(Nothing) /\ ~Receives(Nothing)
  BY <1>2, <1>3, <1>4 DEF Sound, Receives
<1> QED BY <1>4, <1>5

\* A step of one connection, which neither moves to another address nor gets a
\* receiver it did not have.
LEMMA SlotStep ==
  ASSUME Inv, NEW s \in Slots, NEW r, Sound(r), r.addr = conn[s].addr,
         Receives(r) => Receives(conn[s]),
         conn' = [conn EXCEPT ![s] = r], UNCHANGED listenVars, RestOK'
  PROVE  Inv'
<1>1. /\ listening \in BOOLEAN /\ map \in [Addrs -> Slots \cup {NoSlot}]
      /\ conn \in [Slots -> ConnRec] /\ Slotted /\ OneReceiver
  BY Types DEF Inv
<1>2. r \in ConnRec /\ Len(r.recv) <= RecvChan
  BY DEF Sound
<1>3. /\ conn' \in [Slots -> ConnRec] /\ conn'[s] = r
      /\ \A t \in Slots \ {s} : conn'[t] = conn[t]
  BY <1>1, <1>2
<1>4. listening' = listening /\ map' = map
  BY DEF listenVars, map
<1>5. Slotted'
  <2> SUFFICES ASSUME NEW t \in Slots PROVE Sound(conn'[t])
    BY DEF Slotted, Sound
  <2>1. CASE t = s
    BY <1>3, <2>1
  <2>2. CASE t # s
    BY <1>1, <1>3, <2>2 DEF Slotted
  <2> QED BY <2>1, <2>2
<1>6. TypeOK'
  <2>1. \A t \in Slots : Len(conn'[t].recv) <= RecvChan
    BY <1>5 DEF Slotted, Sound
  <2> QED BY <1>1, <1>3, <1>4, <2>1 DEF TypeOK, RestOK, ConnRec, map
<1>7. OneReceiver'
  <2> SUFFICES ASSUME NEW t \in Slots, listening', Receives(conn'[t])
               PROVE  map'[conn'[t].addr] = t
    BY DEF OneReceiver, Open, Receives
  <2>1. Receives(conn[t]) /\ conn'[t].addr = conn[t].addr
    <3>1. CASE t = s
      BY <1>3, <3>1
    <3>2. CASE t # s
      BY <1>3, <3>2
    <3> QED BY <3>1, <3>2
  <2>2. Open(t)
    BY <2>1, OpenReceives
  <2> QED BY <1>1, <1>4, <2>1, <2>2 DEF OneReceiver
<1> QED BY <1>5, <1>6, <1>7 DEF Inv

-----------------------------------------------------------------------------
(* What may become of a connection *)

\* The channel gets shorter by a datagram that was in it.
LEMMA Popped ==
  ASSUME NEW c, Sound(c), c.recv # << >>
  PROVE  /\ Tail(c.recv) \in Seq(Datagram) /\ Len(Tail(c.recv)) <= RecvChan
         /\ Head(c.recv) \in Datagram
<1>1. c.recv \in Seq(Datagram) /\ Len(c.recv) <= RecvChan
  BY DEF Sound, ConnRec
<1>2. /\ Tail(c.recv) \in Seq(Datagram) /\ Len(Tail(c.recv)) = Len(c.recv) - 1
      /\ Head(c.recv) \in Datagram /\ Len(c.recv) \in Nat
  BY <1>1
<1>3. RecvChan \in Nat
  BY ListenAssumption
<1> QED BY <1>1, <1>2, <1>3

\* It gets longer by a datagram there is room for.
LEMMA Pushed ==
  ASSUME NEW c, Sound(c), NEW d \in Datagram, Len(c.recv) < RecvChan
  PROVE  /\ Append(c.recv, d) \in Seq(Datagram) /\ Len(Append(c.recv, d)) <= RecvChan
         /\ Append(c.recv, d) # << >>
<1>1. c.recv \in Seq(Datagram)
  BY DEF Sound, ConnRec
<1> DEFINE q == Append(c.recv, d)
<1>2. q \in Seq(Datagram) /\ Len(q) = Len(c.recv) + 1 /\ Len(c.recv) \in Nat
  BY <1>1
<1> HIDE DEF q
<1>3. q # << >>
  BY <1>2
<1>4. RecvChan \in Nat
  BY ListenAssumption
<1>5. Len(q) <= RecvChan
  BY <1>2, <1>4
<1> QED BY <1>2, <1>3, <1>5 DEF q

\* A connection whose task has returned without loops.
LEMMA Returned ==
  ASSUME NEW c, Sound(c), c.loops = {},
         NEW r, r = [c EXCEPT !.task = "done", !.peer = 0, !.recv = << >>, !.spawned = {}]
  PROVE  Sound(r) /\ ~Receives(r) /\ r.addr = c.addr
<1>1. 0 \in 0 .. MaxClients /\ 0 <= RecvChan
  BY ListenAssumption
<1>2. c \in ConnRec
  BY DEF Sound
<1>3. ASSUME NEW q \in Seq(Datagram), NEW z \in SUBSET Datagram, NEW p \in 0 .. MaxClients,
             r = [c EXCEPT !.task = "done", !.peer = p, !.recv = q, !.spawned = z]
      PROVE  r \in ConnRec /\ r.addr = c.addr /\ r.task = "done" /\ r.loops = c.loops /\ r.recv = q
  BY <1>2, <1>3 DEF ConnRec
<1>4. << >> \in Seq(Datagram) /\ {} \in SUBSET Datagram
  OBVIOUS
<1>5. r \in ConnRec /\ r.addr = c.addr /\ r.task = "done" /\ r.loops = {} /\ r.recv = << >>
  BY <1>1, <1>3, <1>4
<1> QED BY <1>1, <1>5 DEF Sound, Receives

\* The rest of the state of a step that changes nothing of it, or counts a fault.
LEMMA RestSame ==
  ASSUME RestOK, UNCHANGED <<serving, accept_rx, clientVars>>, Fault \/ UNCHANGED faults
  PROVE  RestOK'
<1>1. faults' \in 0 .. MaxFaults
  BY ListenAssumption DEF RestOK, Fault
<1> QED BY <1>1 DEF RestOK, clientVars

\* The task returns without a connection (transport/server.rs:47-125).
LEMMA FailsInv ==
  ASSUME Inv, NEW s \in Slots, conn[s].task \in {"waiting", "handshake"}, HandshakeFails(s),
         UNCHANGED listenVars, RestOK'
  PROVE  Inv'
<1> DEFINE c == conn[s]
           r == [c EXCEPT !.task = "done", !.peer = 0, !.recv = << >>, !.spawned = {}]
<1>1. Sound(c) /\ c \in ConnRec /\ conn \in [Slots -> ConnRec]
  BY Types DEF Inv, Slotted, Sound
<1>2. conn' = [conn EXCEPT ![s] = r]
  BY <1>1 DEF HandshakeFails
<1>3. c.loops = {}
  BY <1>1 DEF Sound
<1>4. Sound(r) /\ ~Receives(r) /\ r.addr = c.addr
  BY <1>1, <1>3, Returned
<1> HIDE DEF r
<1> QED BY <1>2, <1>4, SlotStep

\* A handshake error (transport/server.rs:47-120).
LEMMA HandshakeErrInv == ASSUME Inv, NEW s \in Slots, HandshakeErr(s) PROVE Inv'
<1>1. RestOK
  BY Types DEF Inv
<1>2. RestOK'
  BY <1>1, RestSame DEF HandshakeErr, clientVars
<1> QED BY <1>2, FailsInv DEF HandshakeErr

\* No sender is left (transport/server.rs:122-125).
LEMMA HandshakeNoneInv == ASSUME Inv, NEW s \in Slots, HandshakeNone(s) PROVE Inv'
<1>1. RestOK
  BY Types DEF Inv
<1>2. RestOK'
  BY <1>1, RestSame DEF HandshakeNone, clientVars
<1> QED BY <1>2, FailsInv DEF HandshakeNone

\* A datagram is taken, and the task goes on in the handshake or in
\* quic_process_loop, or starts the loops.
LEMMA PopInv ==
  ASSUME Inv, NEW s \in Slots, conn[s].recv # << >>, Receives(conn[s]),
         NEW task, NEW loops,
         \/ task = conn[s].task /\ loops = conn[s].loops
         \/ task = "running" /\ loops = Loop,
         conn' = [conn EXCEPT ![s] = [conn[s] EXCEPT !.task = task, !.loops = loops,
                                                     !.recv = Tail(conn[s].recv)]],
         UNCHANGED listenVars, RestOK'
  PROVE  Inv'
<1> DEFINE c == conn[s]
           r == [c EXCEPT !.task = task, !.loops = loops, !.recv = Tail(c.recv)]
<1>1. Sound(c) /\ c \in ConnRec /\ conn \in [Slots -> ConnRec]
  BY Types DEF Inv, Slotted, Sound
<1>2. Tail(c.recv) \in Seq(Datagram) /\ Len(Tail(c.recv)) <= RecvChan
  BY <1>1, Popped
<1>3. conn' = [conn EXCEPT ![s] = r] /\ Receives(c)
  OBVIOUS
<1>4. (task = c.task /\ loops = c.loops) \/ (task = "running" /\ loops = Loop)
  OBVIOUS
<1> HIDE DEF c
<1>5. r \in ConnRec /\ r.addr = c.addr /\ r.task = task /\ r.loops = loops
      /\ r.recv = Tail(c.recv)
  BY <1>1, <1>2, <1>4 DEF ConnRec
<1> HIDE DEF r
<1>6. Sound(r)
  BY <1>1, <1>2, <1>4, <1>5 DEF Sound
<1> QED BY <1>3, <1>5, <1>6, SlotStep DEF c

\* The first datagram (transport/server.rs:47-97).
LEMMA FirstInv == ASSUME Inv, NEW s \in Slots, First(s) PROVE Inv'
<1> DEFINE c == conn[s]
           d == Head(c.recv)
           a == c.addr
           talks == d.client = client[a] /\ ~answered[a]
           p == IF talks THEN d.client ELSE 0
           r == [c EXCEPT !.task = "handshake", !.recv = Tail(c.recv), !.peer = p]
<1>1. Sound(c) /\ c \in ConnRec /\ conn \in [Slots -> ConnRec] /\ RestOK
  BY Types DEF Inv, Slotted, Sound
<1>2. /\ c.task = "waiting" /\ c.recv # << >> /\ UNCHANGED listenVars
      /\ UNCHANGED <<serving, accept_rx, client, faults>>
  BY DEF First
<1>3. c.loops = {}
  BY <1>1, <1>2 DEF Sound
<1>4. Tail(c.recv) \in Seq(Datagram) /\ Len(Tail(c.recv)) <= RecvChan /\ d \in Datagram
  BY <1>1, <1>2, Popped
<1>5. CASE d.kind = "initial"
  <2>1. /\ conn' = [conn EXCEPT ![s] = r]
        /\ answered' = [answered EXCEPT ![a] = @ \/ talks]
    BY <1>1, <1>5 DEF First
  <2>2. a \in Addrs /\ answered \in [Addrs -> BOOLEAN]
    BY <1>1 DEF ConnRec, RestOK
  <2>3. answered' \in [Addrs -> BOOLEAN]
    BY <2>1, <2>2
  <2>4. RestOK'
    BY <1>1, <1>2, <2>3 DEF RestOK
  <2>5. p \in 0 .. MaxClients
    BY <1>4, ListenAssumption DEF Datagram
  <2> HIDE DEF c, p
  <2>6. r \in ConnRec /\ r.addr = c.addr /\ r.task = "handshake" /\ r.loops = c.loops
        /\ r.recv = Tail(c.recv)
    BY <1>1, <1>4, <2>5 DEF ConnRec
  <2> HIDE DEF r
  <2>7. Sound(r)
    BY <1>3, <1>4, <2>6 DEF Sound
  <2>8. Receives(c)
    BY <1>2 DEF Receives
  <2> QED BY <1>2, <2>1, <2>4, <2>6, <2>7, <2>8, SlotStep DEF c
<1>6. CASE d.kind # "initial"
  <2>1. UNCHANGED answered /\ (HandshakeFails(s) \/ conn' = [conn EXCEPT ![s].recv = Tail(@)])
    BY <1>6 DEF First
  <2>2. RestOK'
    BY <1>1, <1>2, <2>1 DEF RestOK
  <2>3. CASE HandshakeFails(s)
    BY <1>2, <2>2, <2>3, FailsInv
  <2>4. CASE conn' = [conn EXCEPT ![s].recv = Tail(@)]
    <3>1. conn' = [conn EXCEPT ![s] = [c EXCEPT !.task = c.task, !.loops = c.loops,
                                                !.recv = Tail(c.recv)]]
      BY <1>1, <2>4 DEF ConnRec
    <3>2. Receives(c)
      BY <1>2 DEF Receives
    <3> QED BY <1>2, <2>2, <3>1, <3>2, PopInv
  <2> QED BY <2>1, <2>3, <2>4
<1> QED BY <1>5, <1>6

\* A further datagram of the handshake (transport/server.rs:72-120).
LEMMA MoreInv == ASSUME Inv, NEW s \in Slots, More(s) PROVE Inv'
<1>1. RestOK /\ conn \in [Slots -> ConnRec]
  BY Types DEF Inv
<1>2. RestOK' /\ UNCHANGED listenVars /\ conn[s].task = "handshake" /\ conn[s].recv # << >>
  BY <1>1, RestSame DEF More, clientVars
<1>3. CASE HandshakeFails(s)
  BY <1>2, <1>3, FailsInv
<1>4. CASE conn' = [conn EXCEPT ![s].recv = Tail(@)]
  <2>1. conn' = [conn EXCEPT ![s] = [conn[s] EXCEPT !.task = conn[s].task, !.loops = conn[s].loops,
                                                    !.recv = Tail(conn[s].recv)]]
    BY <1>1, <1>4 DEF ConnRec
  <2>2. Receives(conn[s])
    BY <1>2 DEF Receives
  <2> QED BY <1>2, <2>1, <2>2, PopInv
<1> QED BY <1>3, <1>4 DEF More

\* The loops are started (transport/server.rs:130-197).
LEMMA EstablishedInv == ASSUME Inv, NEW s \in Slots, Established(s) PROVE Inv'
<1>1. RestOK /\ conn \in [Slots -> ConnRec]
  BY Types DEF Inv
<1>2. RestOK' /\ UNCHANGED listenVars /\ conn[s].task = "handshake" /\ conn[s].recv # << >>
  BY <1>1, RestSame DEF Established, clientVars
<1>3. conn' = [conn EXCEPT ![s] = [conn[s] EXCEPT !.task = "running", !.loops = Loop,
                                                  !.recv = Tail(conn[s].recv)]]
  BY <1>1 DEF Established
<1>4. Receives(conn[s])
  BY <1>2 DEF Receives
<1> QED BY <1>2, <1>3, <1>4, PopInv

\* A loop ends, with the task if it is the last one (transport/server.rs:203-240).
LEMMA LoopEndsInv ==
  ASSUME Inv, NEW s \in Slots, NEW l \in Loop, LoopEnds(s, l), Fault \/ UNCHANGED faults
  PROVE  Inv'
<1> DEFINE c == conn[s]
           task == IF c.loops = {l} THEN "done" ELSE c.task
           peer == IF l = "quic" THEN 0 ELSE c.peer
           recv == IF l = "quic" THEN << >> ELSE c.recv
           spawned == IF l = "quic" THEN {} ELSE c.spawned
           r == [c EXCEPT !.loops = c.loops \ {l}, !.task = task, !.peer = peer, !.recv = recv,
                          !.spawned = spawned]
<1>1. Sound(c) /\ c \in ConnRec /\ conn \in [Slots -> ConnRec] /\ RestOK
  BY Types DEF Inv, Slotted, Sound
<1>2. l \in c.loops /\ RestOK' /\ UNCHANGED listenVars
  BY <1>1, RestSame DEF LoopEnds, clientVars
<1>3. conn' = [conn EXCEPT ![s] = r]
  BY <1>1 DEF LoopEnds
<1>4. c.task = "running" /\ Len(c.recv) <= RecvChan
  BY <1>1, <1>2 DEF Sound
<1>5. /\ task \in {"running", "done"} /\ (task # "running" => c.loops \ {l} = {})
      /\ c.loops \ {l} \in SUBSET Loop
  BY <1>1, <1>4 DEF ConnRec
<1>6. peer \in 0 .. MaxClients /\ spawned \in SUBSET Datagram
  BY <1>1, ListenAssumption DEF ConnRec
<1>7. recv \in Seq(Datagram) /\ Len(recv) <= RecvChan
  <2>1. c.recv \in Seq(Datagram)
    BY <1>1 DEF ConnRec
  <2>2. << >> \in Seq(Datagram) /\ Len(<< >>) <= RecvChan
    BY ListenAssumption
  <2> QED BY <1>4, <2>1, <2>2
<1> HIDE DEF task, peer, recv, spawned
<1>8. r \in ConnRec /\ r.addr = c.addr /\ r.task = task /\ r.loops = c.loops \ {l}
      /\ r.recv = recv
  BY <1>1, <1>5, <1>6, <1>7 DEF ConnRec
<1> HIDE DEF r
<1>9. Sound(r)
  BY <1>5, <1>7, <1>8 DEF Sound
<1>10. Receives(r) => Receives(c)
  BY <1>5, <1>8 DEF Receives
<1> QED BY <1>2, <1>3, <1>8, <1>9, <1>10, SlotStep

\* quic_process_loop takes a datagram (link.rs:108-122).
LEMMA QuicRecvInv == ASSUME Inv, NEW s \in Slots, QuicRecv(s) PROVE Inv'
<1>1. RestOK /\ conn \in [Slots -> ConnRec] /\ Sound(conn[s])
  BY Types DEF Inv, Slotted
<1>2. "quic" \in conn[s].loops /\ conn[s].recv # << >> /\ UNCHANGED faults
  BY DEF QuicRecv
<1>3. CASE LoopEnds(s, "quic")
  BY <1>2, <1>3, LoopEndsInv DEF Loop
<1>4. CASE /\ conn' = [conn EXCEPT ![s].recv = Tail(@)]
           /\ UNCHANGED <<listenVars, serving, accept_rx, clientVars>>
  <2>1. conn' = [conn EXCEPT ![s] = [conn[s] EXCEPT !.task = conn[s].task, !.loops = conn[s].loops,
                                                    !.recv = Tail(conn[s].recv)]]
    BY <1>1, <1>4 DEF ConnRec
  <2>2. Receives(conn[s])
    BY <1>1, <1>2 DEF Receives, Sound
  <2>3. RestOK' /\ UNCHANGED listenVars
    BY <1>1, <1>2, <1>4, RestSame
  <2> QED BY <1>2, <2>1, <2>2, <2>3, PopInv
<1> QED BY <1>3, <1>4 DEF QuicRecv

\* A datagram is put in the channel, from a task spawned for it or by listen_at
\* itself (transport.rs:325-349).
LEMMA PushInv ==
  ASSUME Inv, NEW s \in Slots, NEW d \in Datagram, Len(conn[s].recv) < RecvChan,
         NEW spawned \in SUBSET Datagram,
         conn' = [conn EXCEPT ![s] = [conn[s] EXCEPT !.recv = Append(conn[s].recv, d),
                                                     !.spawned = spawned]],
         UNCHANGED listenVars, RestOK'
  PROVE  Inv'
<1> DEFINE c == conn[s]
           recv == Append(c.recv, d)
           r == [c EXCEPT !.recv = recv, !.spawned = spawned]
<1>1. Sound(c) /\ c \in ConnRec
  BY Types DEF Inv, Slotted, Sound
<1>2. recv \in Seq(Datagram) /\ Len(recv) <= RecvChan /\ recv # << >>
  BY <1>1, Pushed
<1>3. conn' = [conn EXCEPT ![s] = r]
  OBVIOUS
<1> HIDE DEF recv
<1>4. r \in ConnRec /\ r.addr = c.addr /\ r.task = c.task /\ r.loops = c.loops /\ r.recv = recv
  BY <1>1, <1>2 DEF ConnRec
<1> HIDE DEF r
<1>5. Sound(r) /\ (Receives(r) <=> Receives(c))
  BY <1>1, <1>2, <1>4 DEF Sound, Receives
<1> QED BY <1>3, <1>4, <1>5, SlotStep

\* A spawned task finds room (transport.rs:336-339).
LEMMA SpawnedSendsInv == ASSUME Inv, NEW s \in Slots, SpawnedSends(s) PROVE Inv'
<1>1. RestOK /\ conn \in [Slots -> ConnRec]
  BY Types DEF Inv
<1>2. RestOK' /\ UNCHANGED listenVars
  BY <1>1, RestSame DEF SpawnedSends, clientVars
<1>3. PICK d \in conn[s].spawned :
        /\ Len(conn[s].recv) < RecvChan
        /\ conn' = [conn EXCEPT ![s].recv = Append(@, d), ![s].spawned = @ \ {d}]
  BY DEF SpawnedSends, HasRoom
<1>4. conn' = [conn EXCEPT ![s] = [conn[s] EXCEPT !.recv = Append(conn[s].recv, d),
                                                  !.spawned = conn[s].spawned \ {d}]]
  BY <1>1, <1>3
<1>5. d \in Datagram /\ conn[s].spawned \ {d} \in SUBSET Datagram
  BY <1>1 DEF ConnRec
<1> QED BY <1>2, <1>3, <1>4, <1>5, PushInv

\* What becomes of the server's end does not concern the tasks.
LEMMA EndInv ==
  ASSUME Inv, NEW s \in Slots, NEW e \in {"sending", "queued", "held", "dropped"},
         conn' = [conn EXCEPT ![s].end = e], UNCHANGED listenVars, RestOK'
  PROVE  Inv'
<1> DEFINE c == conn[s]
           r == [c EXCEPT !.end = e]
<1>1. Sound(c) /\ c \in ConnRec /\ conn \in [Slots -> ConnRec]
  BY Types DEF Inv, Slotted, Sound
<1>2. conn' = [conn EXCEPT ![s] = r]
  BY <1>1
<1>3. /\ r \in ConnRec /\ r.addr = c.addr /\ r.task = c.task /\ r.loops = c.loops
      /\ r.recv = c.recv
  BY <1>1 DEF ConnRec
<1> HIDE DEF r
<1>4. Sound(r) /\ (Receives(r) <=> Receives(c))
  BY <1>1, <1>3 DEF Sound, Receives
<1> QED BY <1>2, <1>3, <1>4, SlotStep

\* The connection is reported to the server (transport.rs:319-324).
LEMMA ReportInv == ASSUME Inv, NEW s \in Slots, Report(s) PROVE Inv'
<1>1. RestOK /\ SignalChan \in Nat
  BY Types, ListenAssumption DEF Inv
<1>2. UNCHANGED listenVars /\ UNCHANGED <<serving, clientVars, faults>>
  BY DEF Report
<1>3. CASE /\ serving /\ Len(accept_rx) < SignalChan
           /\ accept_rx' = Append(accept_rx, s)
           /\ conn' = [conn EXCEPT ![s].end = "queued"]
  <2>1. accept_rx' \in Seq(Slots) /\ Len(accept_rx') = Len(accept_rx) + 1 /\ Len(accept_rx) \in Nat
    BY <1>1, <1>3 DEF RestOK
  <2>2. Len(accept_rx') <= SignalChan
    BY <1>1, <1>3, <2>1
  <2>3. RestOK'
    BY <1>1, <1>2, <2>1, <2>2 DEF RestOK, clientVars
  <2> QED BY <1>2, <1>3, <2>3, EndInv
<1>4. CASE ~serving /\ conn' = [conn EXCEPT ![s].end = "dropped"] /\ UNCHANGED accept_rx
  <2>1. RestOK'
    BY <1>1, <1>2, <1>4 DEF RestOK, clientVars
  <2> QED BY <1>2, <1>4, <2>1, EndInv
<1> QED BY <1>3, <1>4 DEF Report

\* serve_linker takes it.
LEMMA TakenInv == ASSUME Inv, Taken PROVE Inv'
<1>1. RestOK /\ SignalChan \in Nat
  BY Types, ListenAssumption DEF Inv
<1>2. accept_rx \in Seq(Slots) /\ accept_rx # << >> /\ accept_rx' = Tail(accept_rx)
      /\ UNCHANGED <<listenVars, serving, clientVars, faults>>
  BY <1>1 DEF Taken, RestOK
<1>3. /\ Head(accept_rx) \in Slots /\ accept_rx' \in Seq(Slots)
      /\ Len(accept_rx') = Len(accept_rx) - 1 /\ Len(accept_rx) \in Nat
  BY <1>2
<1>4. Len(accept_rx') <= SignalChan
  BY <1>1, <1>3 DEF RestOK
<1>5. RestOK'
  BY <1>1, <1>2, <1>3, <1>4 DEF RestOK, clientVars
<1>6. conn' = [conn EXCEPT ![Head(accept_rx)].end = "held"]
  BY DEF Taken
<1> QED BY <1>2, <1>3, <1>5, <1>6, EndInv

\* The server drops its end.
LEMMA DropEndInv == ASSUME Inv, NEW s \in Slots, DropEnd(s) PROVE Inv'
<1>1. RestOK
  BY Types DEF Inv
<1>2. RestOK' /\ UNCHANGED listenVars
  BY <1>1, RestSame DEF DropEnd, clientVars
<1> QED BY <1>2, EndInv DEF DropEnd

-----------------------------------------------------------------------------
(* Steps of listen_at and of the server *)

\* The steps that leave the connections alone, and the map or all but its closed
\* entries (transport.rs:255-265, 353-359).
LEMMA MapInv ==
  ASSUME Inv, UNCHANGED conn, RestOK', listening' \in BOOLEAN,
         map' \in [Addrs -> Slots \cup {NoSlot}],
         listening' => /\ listening
                       /\ \A a \in Addrs : map[a] # NoSlot /\ Open(map[a]) => map'[a] = map[a]
  PROVE  Inv'
<1>1. conn \in [Slots -> ConnRec] /\ Slotted /\ OneReceiver
      /\ \A s \in Slots : Len(conn[s].recv) <= RecvChan
  BY Types DEF Inv
<1>2. Slotted'
  BY <1>1 DEF Slotted, Sound
<1>3. TypeOK'
  BY <1>1 DEF TypeOK, RestOK, ConnRec, map
<1>4. OneReceiver'
  <2> SUFFICES ASSUME NEW s \in Slots, listening', Open(s)
               PROVE  map'[conn[s].addr] = s
    BY DEF OneReceiver, Open
  <2>1. map[conn[s].addr] = s
    BY <1>1 DEF OneReceiver
  <2>2. conn[s].addr \in Addrs
    BY <1>1 DEF ConnRec
  <2>3. s # NoSlot
    BY ListenAssumption
  <2> QED BY <2>1, <2>2, <2>3
<1> QED BY <1>2, <1>3, <1>4 DEF Inv

\* What retain keeps (transport.rs:255-265, 306-313).
LEMMA RetainedMap ==
  ASSUME TypeOK
  PROVE  /\ Retained(map) \in [Addrs -> Slots \cup {NoSlot}]
         /\ \A a \in Addrs : map[a] # NoSlot /\ Open(map[a]) => Retained(map)[a] = map[a]
<1>1. map \in [Addrs -> Slots \cup {NoSlot}]
  BY Types
<1> QED BY <1>1 DEF Retained

\* The ticker of listen_at (transport.rs:255-265).
LEMMA TickInv == ASSUME Inv, Tick PROVE Inv'
<1>1. RestOK /\ listening \in BOOLEAN
  BY Types DEF Inv
<1>2. map' = Retained(map) /\ UNCHANGED <<listening, conn>> /\ listening
  BY DEF Tick, map
<1>3. RestOK'
  BY <1>1, RestSame DEF Tick, clientVars
<1>4. TypeOK
  BY DEF Inv
<1> QED BY <1>1, <1>2, <1>3, <1>4, RetainedMap, MapInv

\* recv_from fails (transport.rs:353-359).
LEMMA ListenFailsInv == ASSUME Inv, ListenFails PROVE Inv'
<1>1. RestOK
  BY Types DEF Inv
<1>2. map' = [a \in Addrs |-> NoSlot] /\ listening' = FALSE /\ UNCHANGED conn
  BY DEF ListenFails, map
<1>3. RestOK'
  BY <1>1, RestSame DEF ListenFails, clientVars
<1>4. map' \in [Addrs -> Slots \cup {NoSlot}]
  BY <1>2
<1> QED BY <1>2, <1>3, <1>4, MapInv

\* The client at an address connects again.
LEMMA ReconnectsInv == ASSUME Inv, NEW a \in Addrs, Reconnects(a) PROVE Inv'
<1>1. RestOK /\ listening \in BOOLEAN /\ map \in [Addrs -> Slots \cup {NoSlot}]
  BY Types DEF Inv
<1>2. /\ client' = [client EXCEPT ![a] = client[a] + 1] /\ client[a] < MaxClients
      /\ answered' = [answered EXCEPT ![a] = FALSE]
      /\ UNCHANGED <<listenVars, serving, accept_rx, conn, faults>>
  BY DEF Reconnects
<1>3. client[a] \in 1 .. MaxClients /\ client \in [Addrs -> 1 .. MaxClients]
  BY <1>1 DEF RestOK
<1>4. client[a] + 1 \in 1 .. MaxClients
  BY <1>2, <1>3, ListenAssumption
<1>5. RestOK'
  BY <1>1, <1>2, <1>3, <1>4 DEF RestOK
<1>6. listening' = listening /\ map' = map
  BY <1>2 DEF listenVars, map
<1> QED BY <1>1, <1>2, <1>5, <1>6, MapInv

\* serve_linker's task returns: what waits in the accept channel is dropped.
LEMMA ServerStopsInv == ASSUME Inv, ServerStops PROVE Inv'
<1>1. /\ RestOK /\ listening \in BOOLEAN /\ map \in [Addrs -> Slots \cup {NoSlot}]
      /\ conn \in [Slots -> ConnRec] /\ Slotted /\ OneReceiver
  BY Types DEF Inv
<1>2. /\ serving' = FALSE /\ accept_rx' = << >> /\ (Fault \/ UNCHANGED faults)
      /\ UNCHANGED <<listenVars, clientVars>>
      /\ conn' = [s \in Slots |-> IF conn[s].end = "queued" THEN [conn[s] EXCEPT !.end = "dropped"]
                                                            ELSE conn[s]]
  BY DEF ServerStops
<1>3. RestOK'
  <2>1. faults' \in 0 .. MaxFaults
    BY <1>1, <1>2, ListenAssumption DEF RestOK, Fault
  <2>2. << >> \in Seq(Slots) /\ Len(<< >>) <= SignalChan
    BY ListenAssumption
  <2> QED BY <1>1, <1>2, <2>1, <2>2 DEF RestOK, clientVars
<1>4. ASSUME NEW s \in Slots
      PROVE  Sound(conn'[s]) /\ conn'[s].addr = conn[s].addr /\ (Receives(conn'[s]) <=> Receives(conn[s]))
  <2> DEFINE c == conn[s]
             r == [c EXCEPT !.end = "dropped"]
  <2>1. Sound(c) /\ c \in ConnRec
    BY <1>1 DEF Slotted, Sound
  <2>2. /\ r \in ConnRec /\ r.addr = c.addr /\ r.task = c.task /\ r.loops = c.loops
        /\ r.recv = c.recv
    BY <2>1 DEF ConnRec
  <2>3. conn'[s] = r \/ conn'[s] = c
    BY <1>2
  <2> HIDE DEF r
  <2>4. Sound(r) /\ (Receives(r) <=> Receives(c))
    BY <2>1, <2>2 DEF Sound, Receives
  <2> QED BY <2>1, <2>2, <2>3, <2>4
<1>5. conn' \in [Slots -> ConnRec]
  <2>1. \A s \in Slots : conn'[s] \in ConnRec
    BY <1>4 DEF Sound
  <2> QED BY <1>2, <2>1
<1>6. Slotted'
  BY <1>4 DEF Slotted, Sound
<1>7. listening' = listening /\ map' = map
  BY <1>2 DEF listenVars, map
<1>8. TypeOK'
  <2>1. \A s \in Slots : Len(conn'[s].recv) <= RecvChan
    BY <1>4 DEF Sound
  <2> QED BY <1>1, <1>3, <1>5, <1>7, <2>1 DEF TypeOK, RestOK, ConnRec, map
<1>9. OneReceiver'
  <2> SUFFICES ASSUME NEW s \in Slots, listening', Receives(conn'[s])
               PROVE  map'[conn'[s].addr] = s
    BY DEF OneReceiver, Open, Receives
  <2>1. Open(s) /\ conn'[s].addr = conn[s].addr
    BY <1>4, OpenReceives
  <2> QED BY <1>1, <1>7, <2>1 DEF OneReceiver
<1> QED BY <1>6, <1>8, <1>9 DEF Inv

\* The first datagram of an address: the slot it gets has no receiver any more,
\* and no receiver is cut off (transport.rs:275-324).
LEMMA AcceptInv ==
  ASSUME Inv, NEW a \in Addrs, NEW d \in Datagram, AcceptNewConn(a, d), listening,
         listening' = listening, RestOK'
  PROVE  Inv'
<1>1. /\ listening \in BOOLEAN /\ map \in [Addrs -> Slots \cup {NoSlot}]
      /\ conn \in [Slots -> ConnRec] /\ Slotted /\ OneReceiver /\ TypeOK
  BY Types DEF Inv
<1> DEFINE s == CHOOSE t \in Slots : Released(t)
<1>2. /\ map[a] = NoSlot /\ s \in Slots /\ Released(s)
      /\ conn' = [conn EXCEPT ![s] = [Nothing EXCEPT !.addr = a, !.task = "waiting",
                                                     !.recv = <<d>>, !.end = "sending"]]
      /\ map' = [Retained(map) EXCEPT ![a] = s]
  BY DEF AcceptNewConn, map
<1> HIDE DEF s
<1> DEFINE r == [Nothing EXCEPT !.addr = a, !.task = "waiting", !.recv = <<d>>, !.end = "sending"]
<1>3. r \in ConnRec /\ r.addr = a /\ r.task = "waiting" /\ r.loops = {} /\ r.recv = <<d>>
  <2>1. <<d>> \in Seq(Datagram) /\ Nothing \in ConnRec /\ Nothing.loops = {}
    BY NothingSound DEF Nothing
  <2> QED BY <2>1 DEF ConnRec
<1>4. Sound(r)
  <2>1. Len(<<d>>) <= RecvChan /\ <<d>> # << >>
    BY ListenAssumption
  <2> QED BY <1>3, <2>1 DEF Sound
<1>5. conn' = [conn EXCEPT ![s] = r]
  BY <1>2
<1> HIDE DEF r
<1>6. conn' \in [Slots -> ConnRec] /\ conn'[s] = r /\ \A t \in Slots \ {s} : conn'[t] = conn[t]
  BY <1>1, <1>2, <1>3, <1>5
<1>7. \A t \in Slots : Sound(conn'[t])
  <2> SUFFICES ASSUME NEW t \in Slots PROVE Sound(conn'[t])
    OBVIOUS
  <2>1. CASE t = s
    BY <1>4, <1>6, <2>1
  <2>2. CASE t # s
    BY <1>1, <1>6, <2>2 DEF Slotted
  <2> QED BY <2>1, <2>2
<1>8. Slotted'
  BY <1>7 DEF Slotted, Sound
<1>9. map' \in [Addrs -> Slots \cup {NoSlot}] /\ map'[a] = s
      /\ \A b \in Addrs \ {a} : map'[b] = Retained(map)[b]
  BY <1>1, <1>2, RetainedMap
<1>10. TypeOK'
  <2>1. \A t \in Slots : Len(conn'[t].recv) <= RecvChan
    BY <1>7 DEF Sound
  <2> QED BY <1>1, <1>6, <1>9, <2>1 DEF TypeOK, RestOK, ConnRec, map
<1>11. OneReceiver'
  <2> SUFFICES ASSUME NEW t \in Slots, listening', Receives(conn'[t])
               PROVE  map'[conn'[t].addr] = t
    BY DEF OneReceiver, Open, Receives
  <2>1. CASE t = s
    BY <1>3, <1>6, <1>9, <2>1
  <2>2. CASE t # s
    <3>1. conn'[t] = conn[t] /\ Receives(conn[t])
      BY <1>6, <2>2
    <3>2. Open(t) /\ map[conn[t].addr] = t
      BY <1>1, <3>1, OpenReceives DEF OneReceiver
    <3>3. conn[t].addr \in Addrs /\ t # NoSlot
      BY <1>1, ListenAssumption DEF ConnRec
    <3>4. conn[t].addr # a
      BY <1>2, <3>2, <3>3
    <3> QED BY <1>1, <1>9, <3>1, <3>2, <3>3, <3>4, RetainedMap
  <2> QED BY <2>1, <2>2
<1> QED BY <1>8, <1>10, <1>11 DEF Inv

\* A datagram of an address in the map (transport.rs:325-349).
LEMMA ForwardInv ==
  ASSUME Inv, NEW a \in Addrs, NEW d \in Datagram, Forward(a, d),
         listening' = listening, RestOK'
  PROVE  Inv'
<1> DEFINE s == map[a]
<1>1. /\ listening \in BOOLEAN /\ map \in [Addrs -> Slots \cup {NoSlot}]
      /\ conn \in [Slots -> ConnRec]
  BY Types DEF Inv
<1>2. s \in Slots /\ map' = map /\ UNCHANGED listenVars
  BY <1>1 DEF Forward, map, listenVars
<1>3. CASE UNCHANGED conn
  BY <1>1, <1>2, <1>3, MapInv
<1>4. CASE Open(s) /\ HasRoom(s) /\ conn' = [conn EXCEPT ![s].recv = Append(@, d)]
  <2>1. conn' = [conn EXCEPT ![s] = [conn[s] EXCEPT !.recv = Append(conn[s].recv, d),
                                                    !.spawned = conn[s].spawned]]
    BY <1>1, <1>2, <1>4 DEF ConnRec
  <2>2. conn[s].spawned \in SUBSET Datagram
    BY <1>1, <1>2 DEF ConnRec
  <2> QED BY <1>2, <1>4, <2>1, <2>2, PushInv DEF HasRoom
<1>5. CASE conn' = [conn EXCEPT ![s].spawned = @ \cup {d}]
  <2> DEFINE c == conn[s]
             r == [c EXCEPT !.spawned = c.spawned \cup {d}]
  <2>1. Sound(c) /\ c \in ConnRec
    BY <1>2 DEF Inv, Slotted, Sound
  <2>2. conn' = [conn EXCEPT ![s] = r]
    BY <1>1, <1>2, <1>5
  <2>3. /\ r \in ConnRec /\ r.addr = c.addr /\ r.task = c.task /\ r.loops = c.loops
        /\ r.recv = c.recv
    BY <2>1 DEF ConnRec
  <2> HIDE DEF r
  <2>4. Sound(r) /\ (Receives(r) <=> Receives(c))
    BY <2>1, <2>3 DEF Sound, Receives
  <2> QED BY <1>2, <2>2, <2>3, <2>4, SlotStep
<1> QED BY <1>3, <1>4, <1>5 DEF Forward

\* recv_from returns a datagram (transport.rs:267-351).
LEMMA ArrivesInv ==
  ASSUME Inv, NEW a \in Addrs, NEW d \in Datagram, Arrives(a, d), Fault \/ UNCHANGED faults
  PROVE  Inv'
<1>1. RestOK
  BY Types DEF Inv
<1>2. RestOK' /\ listening' = listening /\ listening
  BY <1>1, RestSame DEF Arrives, clientVars
<1> QED BY <1>2, AcceptInv, ForwardInv DEF Arrives

-----------------------------------------------------------------------------
\* listen_at starts with no connections (transport.rs:236-252).
LEMMA InitInv == Init => Inv
<1> SUFFICES ASSUME Init PROVE Inv
  OBVIOUS
<1>1. \A s \in Slots : conn[s] = Nothing
  BY DEF Init
<1>2. conn \in [Slots -> ConnRec] /\ Slotted
  BY <1>1, NothingSound DEF Init, Slotted
<1>3. RestOK
  BY ListenAssumption DEF Init, RestOK
<1>4. listening \in BOOLEAN /\ map \in [Addrs -> Slots \cup {NoSlot}]
  BY DEF Init, map
<1>5. \A s \in Slots : Len(conn[s].recv) <= RecvChan
  BY <1>2 DEF Slotted, Sound
<1>6. OneReceiver
  BY <1>1, NothingSound, OpenReceives DEF OneReceiver
<1> QED BY <1>2, <1>3, <1>4, <1>5, <1>6, Types DEF Inv

\* Every step of every task keeps the invariant.
LEMMA NextInv == Inv /\ [Next]_vars => Inv'
<1> SUFFICES ASSUME Inv, [Next]_vars PROVE Inv'
  OBVIOUS
<1>1. CASE UNCHANGED vars
  <2>1. RestOK' /\ UNCHANGED conn /\ listening' = listening /\ map' = map
    BY <1>1, Types DEF vars, listenVars, clientVars, Inv, RestOK, map
  <2>2. listening \in BOOLEAN /\ map \in [Addrs -> Slots \cup {NoSlot}]
    BY Types DEF Inv
  <2> QED BY <2>1, <2>2, MapInv
<1>2. ASSUME NEW s \in Slots, Conn(s) PROVE Inv'
  <2>1. CASE Handshake(s) \/ HandshakeErr(s)
    BY <2>1, FirstInv, MoreInv, EstablishedInv, HandshakeNoneInv, HandshakeErrInv DEF Handshake
  <2>2. CASE LoopClosed(s) \/ \E l \in Loop : LoopFails(s, l)
    BY <2>2, LoopEndsInv DEF LoopClosed, LoopFails
  <2>3. CASE TimedOut(s)
    BY <2>3, LoopEndsInv DEF TimedOut, Loop
  <2>4. CASE QuicRecv(s) \/ SpawnedSends(s) \/ Report(s)
    BY <2>4, QuicRecvInv, SpawnedSendsInv, ReportInv
  <2>5. CASE ServerSees(s) \/ ServerLeaves(s)
    BY <2>5, DropEndInv DEF ServerSees, ServerLeaves
  <2> QED BY <1>2, <2>1, <2>2, <2>3, <2>4, <2>5 DEF Conn
<1>3. ASSUME NEW a \in Addrs, Client(a) PROVE Inv'
  <2>1. CASE Reconnects(a)
    BY <2>1, ReconnectsInv
  <2>2. CASE Arrive(a)
    <3>1. Sends(a) \in Datagram
      <4>1. client[a] \in 0 .. MaxClients
        BY Types, ListenAssumption DEF Inv, RestOK
      <4> QED BY <4>1 DEF Sends, Datagram
    <3> QED BY <2>2, <3>1, ArrivesInv DEF Arrive
  <2>3. CASE \E d \in Datagram : ArriveLate(a, d)
    BY <2>3, ArrivesInv DEF ArriveLate
  <2> QED BY <1>3, <2>1, <2>2, <2>3 DEF Client
<1> QED BY <1>1, <1>2, <1>3, TickInv, ListenFailsInv, TakenInv, ServerStopsInv DEF Next

\* Hence always.
LEMMA Invariant == Spec => []Inv
<1> QED BY InitInv, NextInv, PTL DEF Spec

\* The channels stay within their capacities, and every slot holds a connection
\* in one of its states (transport.rs:236-359, transport/server.rs:25-240).
THEOREM TypeCorrect == Spec => []TypeOK
<1>1. Inv => TypeOK
  BY DEF Inv
<1> QED BY <1>1, Invariant, PTL

\* While listen_at runs, whatever takes datagrams of an address is what the map has
\* for it, whatever arrives, however late, and whatever fails
\* (transport.rs:255-265, 275, 306-316).
THEOREM OneReceiverHolds == Spec => []OneReceiver
<1>1. Inv => OneReceiver
  BY DEF Inv
<1> QED BY <1>1, Invariant, PTL
=============================================================================
