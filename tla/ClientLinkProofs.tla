-------------------------- MODULE ClientLinkProofs --------------------------
(***************************************************************************)
(* Proofs about the life of a link client, for every retry limit, channel  *)
(* size and number of subscriptions and for any number of connections.     *)
(*                                                                         *)
(* RetryBudget is not inductive: that another connection may be made is    *)
(* decided when the one before is lost, from retry_times.  Counted ties    *)
(* retry_times to the connections made and to the limit at each place of   *)
(* the main loop.                                                          *)
(***************************************************************************)
EXTENDS ClientLink, Integers, SequenceTheorems, TLAPS

\* Inside a turn of 'conn, and between two.
Turn    == {"select", "send", "queue"}
Between == {"start", "backoff"}

\* retry_times counts the connections lost; while the client goes on it is
\* below the limit.
Counted ==
    /\ main \in Turn => retry_times + 1 = conns
    /\ main \in Between => retry_times = conns
    /\ MaxRetry > 0 /\ main # "done" => retry_times < MaxRetry

\* While the client goes on only losses have been reported.
OnlyErrors == main # "done" => \A i \in 1 .. Len(events) : events[i] = "error"

Inv == TypeOK /\ OnlyErrors /\ EventsTell /\ Counted /\ RetryBudget

LEMMA Replies ==
  /\ DOMAIN Reply = {"auth", "ping"}
  /\ Request = {"auth", "ping", "user", "sub"}
  /\ Packet = {"authok", "authfail", "pong", "badpong", "data"}
  /\ \A q \in DOMAIN Reply : Reply[q] \subseteq Packet
<1>1. DOMAIN Reply = {"auth", "ping"}
  BY DEF Reply
<1>2. /\ Reply["auth"] = {"authok", "authfail"}
      /\ Reply["ping"] = {"pong", "badpong"}
  BY DEF Reply
<1>3. Request = {"auth", "ping", "user", "sub"}
  BY <1>1 DEF Request
<1>4. Packet = {"authok", "authfail", "pong", "badpong", "data"}
  BY <1>2 DEF Packet
<1> QED BY <1>1, <1>2, <1>3, <1>4

LEMMA SeqGrows ==
  ASSUME NEW S, NEW s \in Seq(S), NEW e \in S
  PROVE  /\ Append(s, e) \in Seq(S) /\ Len(s) \in Nat /\ Len(Append(s, e)) = Len(s) + 1
         /\ \A i \in 1 .. Len(s) : Append(s, e)[i] = s[i]
         /\ Append(s, e)[Len(s) + 1] = e
BY AppendProperties

-----------------------------------------------------------------------------
(* Steps that report nothing *)

\* What the properties look at.
told == <<conns, retry_times, events>>

LEMMA NothingTold ==
  ASSUME Inv, TypeOK', UNCHANGED told,
         \/ main' = main
         \/ main \in Turn /\ main' \in Turn
         \/ main \in Between /\ main' \in Between
  PROVE  Inv'
<1> USE DEF Inv, told, Turn, Between
<1>1. OnlyErrors'
  BY DEF OnlyErrors
<1>2. EventsTell'
  <2>1. ASSUME NEW i \in 1 .. Len(events), events[i] = "forever"
        PROVE  i = Len(events) /\ main' = "done"
    BY <2>1 DEF EventsTell, OnlyErrors
  <2> QED BY <2>1 DEF EventsTell
<1>3. Counted'
  BY DEF Counted
<1>4. RetryBudget'
  BY DEF RetryBudget
<1> QED BY <1>1, <1>2, <1>3, <1>4

\* The client exits without an event: Ctrl-C, or the connect task has ended.
LEMMA Exits ==
  ASSUME Inv, TypeOK', UNCHANGED told, main \in Turn, main' = "done"
  PROVE  Inv'
<1> USE DEF Inv, told, Turn, Between
<1>1. OnlyErrors'
  BY DEF OnlyErrors
<1>2. EventsTell'
  BY DEF EventsTell, OnlyErrors
<1>3. Counted' /\ RetryBudget'
  BY DEF Counted, RetryBudget
<1> QED BY <1>1, <1>2, <1>3

-----------------------------------------------------------------------------
(* Steps that report an event *)

\* An event is reported after the errors.
LEMMA Reported ==
  ASSUME Inv, TypeOK', NEW e \in {"error", "forever"}, main # "done",
         events' = Append(events, e)
  PROVE  /\ Len(events') = Len(events) + 1 /\ Len(events) \in Nat
         /\ \A i \in 1 .. Len(events') : events'[i] = "forever" => e = "forever" /\ i = Len(events')
         /\ \A i \in 1 .. Len(events') : e = "error" => events'[i] = "error"
<1>1. events \in Seq({"error", "forever"})
  BY DEF Inv, TypeOK
<1>2. /\ Len(events) \in Nat /\ Len(events') = Len(events) + 1
      /\ \A i \in 1 .. Len(events) : events'[i] = events[i]
      /\ events'[Len(events) + 1] = e
  BY <1>1, SeqGrows
<1>3. \A i \in 1 .. Len(events) : events'[i] = "error"
  BY <1>2 DEF Inv, OnlyErrors
<1>4. \A i \in 1 .. Len(events') : i \in 1 .. Len(events) \/ i = Len(events) + 1
  BY <1>2
<1> QED BY <1>2, <1>3, <1>4

\* A connection is lost: the client backs off or gives up.
LEMMA LostStep ==
  ASSUME Inv, TypeOK', main \in Turn, Lost
  PROVE  Inv'
<1> USE DEF Inv, Turn, Between
<1>1. /\ retry_times' = retry_times + 1 /\ conns' = conns
      /\ retry_times \in Nat /\ conns \in Nat /\ MaxRetry \in Nat /\ main # "done"
  BY LinkAssumption DEF Lost, TypeOK
<1>2. retry_times + 1 = conns /\ Len(events) + 1 = conns
  BY DEF Counted, EventsTell
<1>3. RetryBudget'
  BY <1>1 DEF RetryBudget
<1>4. CASE Exhausted(retry_times + 1)
  <2>1. main' = "done" /\ events' = Append(events, "forever")
    BY <1>4 DEF Lost, GiveUp
  <2>2. EventsTell'
    BY <1>1, <2>1, Reported DEF EventsTell
  <2> QED BY <1>3, <2>1, <2>2 DEF OnlyErrors, Counted
<1>5. CASE ~Exhausted(retry_times + 1)
  <2>1. main' = "backoff" /\ events' = Append(events, "error")
    BY <1>5 DEF Lost
  <2>2. /\ Len(events') = Len(events) + 1 /\ Len(events) \in Nat
        /\ \A i \in 1 .. Len(events') : events'[i] = "error"
    BY <1>1, <2>1, Reported
  <2>3. EventsTell' /\ OnlyErrors'
    BY <1>1, <1>2, <2>1, <2>2 DEF EventsTell, OnlyErrors
  <2>4. Counted'
    BY <1>1, <1>2, <1>5, <2>1 DEF Counted, Exhausted
  <2> QED BY <1>3, <2>3, <2>4
<1> QED BY <1>4, <1>5

\* random_cid fails.
LEMMA NoCidStep ==
  ASSUME Inv, TypeOK', NoCid
  PROVE  Inv'
<1> USE DEF Inv, Turn, Between
<1>1. main # "done" /\ main' = "done" /\ events' = Append(events, "forever") /\ conns' = conns
  BY DEF NoCid, GiveUp, connVars
<1>2. EventsTell'
  BY <1>1, Reported DEF EventsTell
<1> QED BY <1>1, <1>2 DEF OnlyErrors, Counted, RetryBudget

\* Another connection is made, which the limit allows.
LEMMA StartStep ==
  ASSUME Inv, TypeOK', Start
  PROVE  Inv'
<1> USE DEF Inv, Turn, Between
<1>1. /\ main = "start" /\ main' = "select" /\ conns' = conns + 1
      /\ UNCHANGED <<retry_times, events>>
      /\ retry_times \in Nat /\ conns \in Nat /\ MaxRetry \in Nat
  BY LinkAssumption DEF Start, TypeOK
<1>2. retry_times = conns /\ Len(events) = conns
  BY <1>1 DEF Counted, EventsTell
<1>3. EventsTell' /\ OnlyErrors'
  BY <1>1, <1>2 DEF EventsTell, OnlyErrors
<1>4. Counted' /\ RetryBudget'
  BY <1>1, <1>2 DEF Counted, RetryBudget
<1> QED BY <1>3, <1>4

-----------------------------------------------------------------------------
(* Types *)

LEMMA TodoTaken ==
  ASSUME NEW S, NEW s \in Seq(S), s # << >>
  PROVE  /\ Head(s) \in S /\ Tail(s) \in Seq(S)
         /\ Len(Tail(s)) = Len(s) - 1 /\ Len(s) \in Nat /\ Len(s) # 0
BY HeadTailProperties

\* What Lost leaves behind.
LEMMA LostTypes ==
  ASSUME TypeOK, Lost,
         inner_response' \in Seq(Packet), Len(inner_response') <= RecvChan,
         UNCHANGED <<is_authed, late, quit, inner_request, peerVars>>
  PROVE  TypeOK'
<1> USE DEF TypeOK, Lost, peerVars
<1>1. retry_times' \in Nat /\ << >> \in Seq(Request)
  OBVIOUS
<1>2. /\ events' \in Seq({"error", "forever"})
      /\ main' \in {"backoff", "done"}
  <2>1. /\ Append(events, "forever") \in Seq({"error", "forever"})
        /\ Append(events, "error") \in Seq({"error", "forever"})
    BY SeqGrows
  <2>2. CASE Exhausted(retry_times + 1)
    BY <2>1, <2>2 DEF GiveUp
  <2>3. CASE ~Exhausted(retry_times + 1)
    BY <2>1, <2>3
  <2> QED BY <2>2, <2>3
<1> QED BY <1>1, <1>2

LEMMA MainTypes ==
  ASSUME TypeOK
  PROVE  Start \/ NoCid \/ BackedOff \/ CtrlC \/ ConnTaskOk \/ ConnTaskErr \/ UserPacket
           \/ AuthQueued \/ TimePasses \/ RecvNone => TypeOK'
<1> USE DEF connVars, chanVars, peerVars
<1>1. ASSUME Start PROVE TypeOK'
  <2>1. /\ << >> \in Seq(Request) /\ << >> \in Seq(Packet) /\ Len(<< >>) = 0
        /\ conns + 1 \in 0 .. MaxConns
    BY <1>1, LinkAssumption DEF Start, TypeOK
  <2>2. /\ inner_request' \in Seq(Request) /\ Len(inner_request') <= SendChan
        /\ inner_response' \in Seq(Packet) /\ Len(inner_response') <= RecvChan
    BY <1>1, <2>1, LinkAssumption DEF Start
  <2>3. {} \subseteq DOMAIN Reply
    OBVIOUS
  <2> QED BY <1>1, <2>1, <2>2, <2>3 DEF Start, TypeOK
<1>2. ASSUME NoCid PROVE TypeOK'
  <2>1. events' \in Seq({"error", "forever"})
    BY <1>2, SeqGrows DEF NoCid, GiveUp, TypeOK
  <2> QED BY <1>2, <2>1 DEF NoCid, GiveUp, TypeOK
<1>3. ASSUME BackedOff \/ CtrlC \/ ConnTaskOk \/ TimePasses PROVE TypeOK'
  BY <1>3 DEF BackedOff, CtrlC, ConnTaskOk, TimePasses, TypeOK
<1>4. ASSUME ConnTaskErr \/ RecvNone PROVE TypeOK'
  BY <1>4, LostTypes DEF ConnTaskErr, RecvNone, TypeOK
<1>5. ASSUME UserPacket PROVE TypeOK'
  <2>1. <<"user">> \in Seq(Request) /\ <<"user">> # << >>
    BY Replies
  <2> QED BY <1>5, <2>1 DEF UserPacket, TypeOK
<1>6. ASSUME AuthQueued PROVE TypeOK'
  <2>1. /\ todo' \in Seq(Request)
        /\ main' = "send" <=> todo' # << >>
    <3> DEFINE t == [i \in 1 .. Subscribes |-> "sub"]
    <3>1. Subscribes \in Nat /\ "sub" \in Request
      BY LinkAssumption, Replies
    <3>2. t \in Seq(Request) /\ Len(t) = Subscribes
      BY <3>1
    <3> HIDE DEF t
    <3>3. t = << >> <=> Subscribes = 0
      BY <3>1, <3>2
    <3>4. todo' = t /\ main' = IF Subscribes = 0 THEN "select" ELSE "send"
      BY <1>6 DEF AuthQueued, t
    <3> QED BY <3>2, <3>3, <3>4
  <2> QED BY <1>6, <2>1 DEF AuthQueued, TypeOK
<1> QED BY <1>1, <1>2, <1>3, <1>4, <1>5, <1>6

LEMMA SendTypes ==
  ASSUME TypeOK
  PROVE  PingTick \/ SendOk \/ SendErr \/ RecvPacket => TypeOK'
<1> USE DEF connVars, chanVars, peerVars
<1>1. ASSUME PingTick PROVE TypeOK'
  <2>1. CASE TimedOut
    BY <1>1, <2>1, LostTypes DEF PingTick, TypeOK
  <2>2. CASE ~TimedOut
    <3>1. <<"ping">> \in Seq(Request) /\ <<"ping">> # << >>
      BY Replies
    <3> QED BY <1>1, <2>2, <3>1 DEF PingTick, TypeOK
  <2> QED BY <2>1, <2>2
<1>2. ASSUME SendOk PROVE TypeOK'
  <2>1. /\ todo \in Seq(Request) /\ todo # << >>
        /\ inner_request \in Seq(Request) /\ Len(inner_request) < SendChan
    BY <1>2 DEF SendOk, HasRoom, TypeOK
  <2>2. Head(todo) \in Request /\ Tail(todo) \in Seq(Request)
    BY <2>1, TodoTaken
  <2>3. /\ Append(inner_request, Head(todo)) \in Seq(Request)
        /\ Len(Append(inner_request, Head(todo))) = Len(inner_request) + 1
        /\ Len(inner_request) \in Nat
    BY <2>1, <2>2, SeqGrows
  <2>4. Len(Append(inner_request, Head(todo))) <= SendChan
    BY <2>1, <2>3, LinkAssumption
  <2> QED BY <1>2, <2>2, <2>3, <2>4 DEF SendOk, TypeOK
<1>3. ASSUME SendErr PROVE TypeOK'
  <2>1. CASE Head(todo) = "user"
    <3>1. << >> \in Seq(Request)
      OBVIOUS
    <3> QED BY <1>3, <2>1, <3>1 DEF SendErr, TypeOK
  <2>2. CASE Head(todo) # "user"
    BY <1>3, <2>2, LostTypes DEF SendErr, TypeOK
  <2> QED BY <2>1, <2>2
<1>4. ASSUME RecvPacket PROVE TypeOK'
  <2> DEFINE p == Head(inner_response)
  <2>1. inner_response' \in Seq(Packet) /\ Len(inner_response') <= RecvChan
    <3>1. /\ inner_response \in Seq(Packet) /\ inner_response # << >>
          /\ Len(inner_response) <= RecvChan /\ inner_response' = Tail(inner_response)
      BY <1>4 DEF RecvPacket, TypeOK
    <3>2. /\ Tail(inner_response) \in Seq(Packet) /\ Len(inner_response) \in Nat
          /\ Len(Tail(inner_response)) = Len(inner_response) - 1
      BY <3>1, TodoTaken
    <3> QED BY <3>1, <3>2, LinkAssumption
  <2>2. CASE p \in {"authfail", "badpong"}
    <3>1. Lost /\ UNCHANGED <<is_authed, late, quit, inner_request, peerVars>>
      BY <1>4, <2>2 DEF RecvPacket
    <3> QED BY <2>1, <3>1, LostTypes
  <2>3. CASE p = "authok"
    <3>1. /\ is_authed' = TRUE /\ late' = FALSE /\ main = "select" /\ main' = "queue"
          /\ UNCHANGED <<todo, retry_times, quit, events, connVars, inner_request, peerVars>>
      BY <1>4, <2>3 DEF RecvPacket
    <3> QED BY <2>1, <3>1 DEF TypeOK
  <2>4. CASE p \notin {"authfail", "badpong", "authok"}
    <3>1. /\ late' = (late /\ ~is_authed)
          /\ UNCHANGED <<main, todo, is_authed, retry_times, quit, events, connVars,
                         inner_request, peerVars>>
      BY <1>4, <2>4 DEF RecvPacket
    <3> QED BY <2>1, <3>1 DEF TypeOK
  <2> QED BY <2>2, <2>3, <2>4
<1> QED BY <1>1, <1>2, <1>3, <1>4

LEMMA ConnTypes ==
  ASSUME TypeOK
  PROVE  /\ connect \/ LinkWrite \/ Deliver \/ ServerData \/ PeerSilent => TypeOK'
         /\ \A k \in 1 .. MaxConns, l \in Loop : LoopEnds(k, l) => TypeOK'
<1> USE DEF mainVars, connVars, chanVars, peerVars
<1>1. ASSUME HandshakeOk \/ HandshakeErr \/ JoinOk \/ PeerSilent PROVE TypeOK'
  <2>1. CASE HandshakeOk
    BY <2>1 DEF HandshakeOk, TypeOK
  <2>2. CASE HandshakeErr
    BY <2>2 DEF HandshakeErr, TypeOK
  <2>3. CASE JoinOk
    BY <2>3 DEF JoinOk, TypeOK
  <2>4. CASE PeerSilent
    BY <2>4 DEF PeerSilent, TypeOK
  <2> QED BY <1>1, <2>1, <2>2, <2>3, <2>4
<1>2. ASSUME SendAuth PROVE TypeOK'
  <2>1. inner_request \in Seq(Request) /\ Len(inner_request) < SendChan /\ "auth" \in Request
    BY <1>2, Replies DEF SendAuth, HasRoom, TypeOK
  <2>2. /\ Append(inner_request, "auth") \in Seq(Request)
        /\ Len(Append(inner_request, "auth")) = Len(inner_request) + 1
        /\ Len(inner_request) \in Nat
    BY <2>1, SeqGrows
  <2>3. Len(Append(inner_request, "auth")) <= SendChan
    BY <2>1, <2>2, LinkAssumption
  <2> QED BY <1>2, <2>2, <2>3 DEF SendAuth, TypeOK
<1>3. ASSUME LinkWrite PROVE TypeOK'
  <2>1. inner_request' \in Seq(Request) /\ Len(inner_request') <= SendChan
    <3>1. /\ inner_request \in Seq(Request) /\ inner_request # << >>
          /\ Len(inner_request) <= SendChan /\ inner_request' = Tail(inner_request)
      BY <1>3 DEF LinkWrite, TypeOK
    <3>2. /\ Tail(inner_request) \in Seq(Request) /\ Len(inner_request) \in Nat
          /\ Len(Tail(inner_request)) = Len(inner_request) - 1
      BY <3>1, TodoTaken
    <3> QED BY <3>1, <3>2, LinkAssumption
  <2>2. loops' \in [1 .. MaxConns -> SUBSET Loop] /\ unanswered' \subseteq DOMAIN Reply
    BY <1>3 DEF LinkWrite, TypeOK
  <2> QED BY <1>3, <2>1, <2>2 DEF LinkWrite, TypeOK
<1>4. ASSUME NEW p \in Packet, Arrives(p), unanswered' \subseteq unanswered PROVE TypeOK'
  <2>1. inner_response \in Seq(Packet) /\ Len(inner_response) < RecvChan
    BY <1>4 DEF Arrives, TypeOK
  <2>2. /\ Append(inner_response, p) \in Seq(Packet)
        /\ Len(Append(inner_response, p)) = Len(inner_response) + 1
        /\ Len(inner_response) \in Nat
    BY <2>1, SeqGrows
  <2>3. Len(Append(inner_response, p)) <= RecvChan
    BY <2>1, <2>2, LinkAssumption
  <2> QED BY <1>4, <2>2, <2>3 DEF Arrives, TypeOK
<1>5. ASSUME Deliver PROVE TypeOK'
  <2>1. PICK q \in unanswered : /\ \E p \in Reply[q] : Arrives(p)
                                /\ unanswered' = unanswered \ {q}
    BY <1>5 DEF Deliver
  <2>2. PICK p \in Reply[q] : Arrives(p)
    BY <2>1
  <2>3. p \in Packet
    BY <2>1, <2>2, Replies DEF TypeOK
  <2> QED BY <1>4, <2>1, <2>2, <2>3
<1>6. ASSUME ServerData PROVE TypeOK'
  BY <1>4, <1>6, Replies DEF ServerData
<1>7. ASSUME NEW k \in 1 .. MaxConns, NEW l \in Loop, LoopEnds(k, l) PROVE TypeOK'
  BY <1>7 DEF LoopEnds, TypeOK
<1> QED BY <1>1, <1>2, <1>3, <1>5, <1>6, <1>7 DEF connect

LEMMA NextTypes ==
  ASSUME TypeOK, [Next]_vars
  PROVE  TypeOK'
<1>1. CASE UNCHANGED vars
  BY <1>1 DEF vars, mainVars, connVars, chanVars, peerVars, TypeOK
<1>2. CASE LoopClosed \/ LoopError
  BY <1>2, ConnTypes DEF LoopClosed, LoopError, Cascade, LoopFails
<1> QED BY <1>1, <1>2, MainTypes, SendTypes, ConnTypes DEF Next, MainStep

-----------------------------------------------------------------------------
LEMMA InitInv == Init => Inv
<1> SUFFICES ASSUME Init PROVE Inv
  OBVIOUS
<1>1. /\ << >> \in Seq(Request) /\ << >> \in Seq(Packet) /\ << >> \in Seq({"error", "forever"})
      /\ Len(<< >>) = 0
  OBVIOUS
<1>2. TypeOK
  <2>1. /\ inner_request \in Seq(Request) /\ Len(inner_request) <= SendChan
        /\ inner_response \in Seq(Packet) /\ Len(inner_response) <= RecvChan
        /\ todo \in Seq(Request) /\ events \in Seq({"error", "forever"})
    BY <1>1, LinkAssumption DEF Init
  <2>2. conns \in 0 .. MaxConns /\ retry_times \in Nat
    BY LinkAssumption DEF Init
  <2>3. loops \in [1 .. MaxConns -> SUBSET Loop] /\ unanswered \subseteq DOMAIN Reply
    BY DEF Init
  <2> QED BY <2>1, <2>2, <2>3 DEF Init, TypeOK
<1>3. OnlyErrors /\ EventsTell /\ Counted /\ RetryBudget
  BY <1>1, LinkAssumption DEF Init, OnlyErrors, EventsTell, Counted, RetryBudget, Turn, Between
<1> QED BY <1>2, <1>3 DEF Inv

LEMMA NextInv == Inv /\ [Next]_vars => Inv'
<1> SUFFICES ASSUME Inv, [Next]_vars PROVE Inv'
  OBVIOUS
<1> USE DEF mainVars, connVars, told, Turn, Between
<1>0. TypeOK'
  BY NextTypes DEF Inv
<1>1. CASE Start
  BY <1>0, <1>1, StartStep
<1>2. CASE NoCid
  BY <1>0, <1>2, NoCidStep
<1>3. CASE BackedOff
  BY <1>0, <1>3, NothingTold DEF BackedOff
<1>4. CASE CtrlC \/ ConnTaskOk
  BY <1>0, <1>4, Exits DEF CtrlC, ConnTaskOk
<1>5. CASE ConnTaskErr \/ RecvNone
  BY <1>0, <1>5, LostStep DEF ConnTaskErr, RecvNone
<1>6. CASE SendOk
  BY <1>0, <1>6, NothingTold DEF SendOk
<1>7. CASE SendErr
  <2>1. CASE Head(todo) = "user"
    BY <1>0, <1>7, <2>1, NothingTold DEF SendErr
  <2>2. CASE Head(todo) # "user"
    BY <1>0, <1>7, <2>2, LostStep DEF SendErr
  <2> QED BY <2>1, <2>2
<1>8. CASE RecvPacket
  <2> DEFINE p == Head(inner_response)
  <2>1. CASE p \in {"authfail", "badpong"}
    <3>1. main = "select" /\ Lost
      BY <1>8, <2>1 DEF RecvPacket
    <3> QED BY <1>0, <3>1, LostStep
  <2>2. CASE p = "authok"
    <3>1. main = "select" /\ main' = "queue" /\ UNCHANGED told
      BY <1>8, <2>2 DEF RecvPacket
    <3> QED BY <1>0, <3>1, NothingTold
  <2>3. CASE p \notin {"authfail", "badpong", "authok"}
    <3>1. main' = main /\ UNCHANGED told
      BY <1>8, <2>3 DEF RecvPacket
    <3> QED BY <1>0, <3>1, NothingTold
  <2> QED BY <2>1, <2>2, <2>3
<1>9. CASE AuthQueued \/ UserPacket
  BY <1>0, <1>9, NothingTold DEF AuthQueued, UserPacket
<1>10. CASE PingTick
  <2>1. CASE TimedOut
    BY <1>0, <1>10, <2>1, LostStep DEF PingTick
  <2>2. CASE ~TimedOut
    BY <1>0, <1>10, <2>2, NothingTold DEF PingTick
  <2> QED BY <2>1, <2>2
<1>11. CASE TimePasses \/ connect \/ LinkWrite \/ Deliver \/ ServerData \/ LoopClosed
            \/ LoopError \/ PeerSilent
  <2>1. main' = main /\ UNCHANGED told
    BY <1>11 DEF TimePasses, connect, HandshakeOk, HandshakeErr, SendAuth, JoinOk, LinkWrite,
                 Deliver, ServerData, Arrives, LoopClosed, LoopError, Cascade, LoopFails,
                 LoopEnds, PeerSilent
  <2> QED BY <1>0, <2>1, NothingTold
<1>12. CASE UNCHANGED vars
  BY <1>0, <1>12, NothingTold DEF vars
<1> QED
  BY <1>1, <1>2, <1>3, <1>4, <1>5, <1>6, <1>7, <1>8, <1>9, <1>10, <1>11, <1>12
  DEF Next, MainStep

\* Every variable keeps its type: the main loop is at a send exactly while it has
\* something to send, so that SendErr's look at the packet in hand is of one, and
\* the channels of a connection keep to their sizes.
THEOREM TypeCorrect == Spec => []TypeOK
<1>1. Inv => TypeOK
  BY DEF Inv
<1> QED BY InitInv, NextInv, <1>1, PTL DEF Spec

\* With a limit on retries the client makes at most that many connections, however
\* each of them is lost (client.rs:411-414).
THEOREM RetryBudgetHolds == Spec => []RetryBudget
<1>1. Inv => RetryBudget
  BY DEF Inv
<1> QED BY InitInv, NextInv, <1>1, PTL DEF Spec

\* Every lost connection is reported once, by the time of the next one, and
\* DisconnectedForever is the last event and the end (client.rs:420-441), over any
\* number of connections.
THEOREM EventsTellHolds == Spec => []EventsTell
<1>1. Inv => EventsTell
  BY DEF Inv
<1> QED BY InitInv, NextInv, <1>1, PTL DEF Spec
=============================================================================
