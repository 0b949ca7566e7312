----------------------- MODULE ClientRequestsProofs -----------------------
(***************************************************************************)
(* Proofs about how responses find their callers, for any number of calls, *)
(* every id space and every capacity, up to the first reconnect: request   *)
(* ids start over when a connection is given up, and from then on neither  *)
(* property holds (MCClientRequests_reconnect).                            *)
(*                                                                         *)
(* Neither property is inductive.  What Answer needs (Core) is that the    *)
(* responses in the callback task's queue have ids of their own, each with *)
(* its caller's entry or with none that anyone waits for.  That a response *)
(* has this when it is queued takes Full: requests still in use have drawn *)
(* less than IdSpace apart, so that equal ids are the same request; each   *)
(* is in one place at a time; and the entry of a request in flight is its  *)
(* own, but while it is being registered.  Full is lost when the ids start *)
(* over; Core is not.                                                      *)
(***************************************************************************)
EXTENDS ClientRequests, Integers, TLAPS

Started(c) == call[c] # "idle"

\* The call has handed its packet to the main loop.
Sent(c) == call[c] \notin {"idle", "sending"}

-----------------------------------------------------------------------------
(* Core: the callback task's queue and the map *)

QueueIds == \A i, j \in 1 .. Len(packet_process) :
              Id(packet_process[i]) = Id(packet_process[j]) => i = j

QueueOwned == \A i \in 1 .. Len(packet_process) :
                packet_process[i].owner \in Calls
                  => requests[Id(packet_process[i])] = packet_process[i].owner

\* A response of the client's own finds no one who waits.
QueueOther == \A i \in 1 .. Len(packet_process) :
                packet_process[i].owner \notin Calls
                  => \/ requests[Id(packet_process[i])] = NoCall
                     \/ call[requests[Id(packet_process[i])]] # "waiting"

EntrySent == \A n \in Ids : requests[n] # NoCall => Sent(requests[n])

Core == AnswerMatches /\ QueueIds /\ QueueOwned /\ QueueOther /\ EntrySent

-----------------------------------------------------------------------------
(* Full: where every request is *)

Below == /\ \A c \in Calls : Started(c) => drawn[c] < request_id_gen
         /\ \A r \in inflight : r.drawn < request_id_gen
         /\ \A i \in 1 .. Len(packet_process) : packet_process[i].drawn < request_id_gen

Near == \A n, m \in InUse : n < m + IdSpace

Distinct == \A c, d \in Calls : Started(c) /\ Started(d) /\ drawn[c] = drawn[d] => c = d

\* A request is its owner's, and no other call has drawn the same.
Owned(r) == IF r.owner \in Calls
              THEN Sent(r.owner) /\ drawn[r.owner] = r.drawn
              ELSE \A c \in Calls : Started(c) => drawn[c] # r.drawn

AllOwned == /\ \A r \in inflight : Owned(r)
            /\ \A i \in 1 .. Len(packet_process) : Owned(packet_process[i])

Once == /\ \A r, s \in inflight : r.drawn = s.drawn => r = s
        /\ \A r \in inflight, i \in 1 .. Len(packet_process) : r.drawn # packet_process[i].drawn
        /\ \A i, j \in 1 .. Len(packet_process) :
             packet_process[i].drawn = packet_process[j].drawn => i = j

\* A call whose packet waits for the main loop is nowhere else.
Waits(c) == /\ Sent(c)
            /\ \A r \in inflight : r.owner # c
            /\ \A i \in 1 .. Len(packet_process) : packet_process[i].owner # c

Queued == /\ \A i \in 1 .. Len(request_rx) : Waits(request_rx[i])
          /\ \A i, j \in 1 .. Len(request_rx) : request_rx[i] = request_rx[j] => i = j

Registering == main = "register" => \E r \in inflight : r.owner = reg

Found == /\ \A n \in Ids : requests[n] # NoCall => request_id_trim(drawn[requests[n]]) = n
         /\ \A r \in inflight : r.owner \in Calls => r.owner = reg \/ requests[Id(r)] = r.owner

Full == Below /\ Near /\ Distinct /\ AllOwned /\ Once /\ Queued /\ Registering /\ Found

-----------------------------------------------------------------------------
\* The ids have not started over.
Fresh == conns = 0 \/ main # "down"

\* Types the runs do not check, and the start.
Numbered ==
    /\ conns = 0 => main = "down"
    /\ \A r \in inflight : r.conn \in 1 .. MaxConns
    /\ \A i \in 1 .. Len(packet_process) : packet_process[i].conn \in 1 .. MaxConns

Inv == /\ TypeOK /\ Numbered
       /\ conns <= 1 /\ ~lapped => Core /\ (Fresh => Full)

-----------------------------------------------------------------------------
(* Arithmetic and sequences *)

\* A trimmed id is an id.
LEMMA TrimIsId == \A n \in Nat : request_id_trim(n) \in Ids
BY RequestsAssumption DEF request_id_trim, Ids

\* Equal remainders are less than a divisor apart only if the numbers are equal.
LEMMA SameQuotient ==
  ASSUME NEW k \in Nat \ {0}, NEW p \in Int, NEW q \in Int, NEW a \in Nat,
         k * p + a < k * q + a + k, k * q + a < k * p + a + k
  PROVE  p = q
<1>1. CASE p < q
  <2>1. k * (p + 1) <= k * q
    BY <1>1
  <2>2. k * (p + 1) = k * p + k
    OBVIOUS
  <2> QED BY <2>1, <2>2
<1>2. CASE q < p
  <2>1. k * (q + 1) <= k * p
    BY <1>2
  <2>2. k * (q + 1) = k * q + k
    OBVIOUS
  <2> QED BY <2>1, <2>2
<1> QED BY <1>1, <1>2

LEMMA TrimApart ==
  ASSUME NEW n \in Nat, NEW m \in Nat, n < m + IdSpace, m < n + IdSpace,
         request_id_trim(n) = request_id_trim(m)
  PROVE  n = m
<1>1. n = IdSpace * (n \div IdSpace) + (n % IdSpace) /\ m = IdSpace * (m \div IdSpace) + (m % IdSpace)
  BY RequestsAssumption
<1>2. n % IdSpace \in Nat /\ n % IdSpace = m % IdSpace
  BY RequestsAssumption DEF request_id_trim
<1>3. n \div IdSpace \in Int /\ m \div IdSpace \in Int
  BY RequestsAssumption
<1>4. n \div IdSpace = m \div IdSpace
  BY <1>1, <1>2, <1>3, SameQuotient, RequestsAssumption
<1> QED BY <1>1, <1>2, <1>4

LEMMA AppendAt ==
  ASSUME NEW S, NEW s \in Seq(S), NEW e \in S
  PROVE  /\ Append(s, e) \in Seq(S)
         /\ Len(Append(s, e)) = Len(s) + 1
         /\ \A i \in 1 .. Len(s) : Append(s, e)[i] = s[i]
         /\ Append(s, e)[Len(s) + 1] = e
OBVIOUS

LEMMA TailAt ==
  ASSUME NEW S, NEW s \in Seq(S), s # << >>
  PROVE  /\ Tail(s) \in Seq(S)
         /\ Len(s) \in Nat /\ Len(s) >= 1
         /\ Len(Tail(s)) = Len(s) - 1
         /\ \A i \in 1 .. Len(s) - 1 : Tail(s)[i] = s[i + 1] /\ i + 1 \in 1 .. Len(s)
         /\ Head(s) = s[1] /\ s[1] \in S
OBVIOUS

-----------------------------------------------------------------------------
(* Types *)

Typed == TypeOK /\ Numbered

\* What the next-state relation is made of, as one disjunction.
LEMMA NextCases ==
  ASSUME Next
  PROVE  \/ \E c \in Calls : StartCall(c)
         \/ \E c \in Calls : EnqueueCall(c)
         \/ \E c \in Calls : CallTimeout(c)
         \/ Connect
         \/ Heartbeat
         \/ Forward
         \/ Register
         \/ ForwardFails
         \/ \E r \in inflight : RecvAuth(r)
         \/ \E r \in inflight : RecvResponse(r)
         \/ Subscribe
         \/ Subscribed
         \/ Disconnect
         \/ Answer
         \/ NoWaiter
         \/ TransportDies
BY DEF Next, send_request, link_task, callback_task

LEMMA NewRequest ==
  ASSUME NEW n \in 0 .. MaxIds, NEW o \in Owner, NEW k \in 0 .. MaxConns,
         NEW r, r = [drawn |-> n, owner |-> o, conn |-> k]
  PROVE  r \in Response /\ r.drawn = n /\ r.owner = o /\ r.conn = k
BY DEF Response

LEMMA ResponseType ==
  ASSUME NEW r \in Response
  PROVE  r.drawn \in 0 .. MaxIds /\ r.drawn \in Nat /\ r.owner \in Owner /\ Id(r) \in Ids
<1>1. r.drawn \in 0 .. MaxIds /\ r.drawn \in Nat /\ r.owner \in Owner
  BY RequestsAssumption DEF Response
<1> QED BY <1>1, TrimIsId DEF Id

LEMMA NewIdType ==
  ASSUME TypeOK, NewId
  PROVE  /\ request_id_gen \in Nat /\ request_id_gen \in 0 .. MaxIds
         /\ request_id_gen' = request_id_gen + 1
         /\ request_id_gen' \in 0 .. MaxIds
         /\ lapped' \in BOOLEAN
<1>1. /\ request_id_gen \in Nat /\ request_id_gen \in 0 .. MaxIds
      /\ request_id_gen' = request_id_gen + 1
      /\ request_id_gen' \in 0 .. MaxIds
  BY RequestsAssumption DEF TypeOK, NewId
<1>2. lapped' \in BOOLEAN
  BY DEF NewId
<1> QED BY <1>1, <1>2

LEMMA DroppedType ==
  ASSUME TypeOK, NEW c \in Calls \cup {NoCall}
  PROVE  Dropped(c) \in [Calls -> {"idle", "sending", "waiting", "answered", "failed"}]
BY DEF TypeOK, Dropped

LEMMA InitTyped == Init => Typed
<1> SUFFICES ASSUME Init PROVE Typed
  OBVIOUS
<1>1. request_id_gen \in 0 .. MaxIds /\ subs \in 0 .. Subscribes /\ conns \in 0 .. MaxConns
  BY RequestsAssumption DEF Init
<1>2. /\ call \in [Calls -> {"idle", "sending", "waiting", "answered", "failed"}]
      /\ answer \in [Calls -> Owner \cup {NoCall}]
      /\ requests \in [Ids -> Calls \cup {NoCall}]
  BY DEF Init
<1>3. drawn \in [Calls -> 0 .. MaxIds]
  BY RequestsAssumption DEF Init
<1>4. /\ request_rx \in Seq(Calls) /\ packet_process \in Seq(Response)
      /\ Len(packet_process) = 0 /\ Len(packet_process) <= ProcChan
  BY RequestsAssumption DEF Init
<1>5. TypeOK
  BY <1>1, <1>2, <1>3, <1>4 DEF Init, TypeOK
<1>6. Numbered
  BY <1>4 DEF Init, Numbered
<1> QED BY <1>5, <1>6 DEF Typed

LEMMA TypedStep ==
  ASSUME Typed, Next
  PROVE  Typed'
<1> USE DEF Typed
<1>1. ASSUME NEW c \in Calls, StartCall(c)
      PROVE  Typed'
  BY <1>1, NewIdType DEF StartCall, TypeOK, Numbered, connVars, taskVars
<1>2. ASSUME NEW c \in Calls, EnqueueCall(c)
      PROVE  Typed'
  <2>1. request_rx' \in Seq(Calls)
    BY <1>2 DEF EnqueueCall, TypeOK
  <2> QED BY <1>2, <2>1 DEF EnqueueCall, TypeOK, Numbered, connVars, taskVars, genVars
<1>3. ASSUME NEW c \in Calls, CallTimeout(c)
      PROVE  Typed'
  BY <1>3 DEF CallTimeout, TypeOK, Numbered, connVars, taskVars, genVars
<1>4. CASE Connect
  <2>1. conns' \in 1 .. MaxConns /\ conns' = conns + 1 /\ conns' # 0 /\ conns' \in 0 .. MaxConns
    BY <1>4, RequestsAssumption DEF Connect, TypeOK
  <2>2. PICK r : r = [drawn |-> request_id_gen, owner |-> "auth", conn |-> conns + 1]
    OBVIOUS
  <2>3. inflight' = {r}
    BY <1>4, <2>2 DEF Connect
  <2>4. "auth" \in Owner
    BY DEF Owner
  <2>5. NewId
    BY <1>4 DEF Connect
  <2>6. r \in Response /\ r.conn = conns + 1
    BY <2>1, <2>2, <2>4, <2>5, NewIdType, NewRequest
  <2>7. inflight' \subseteq Response /\ \A s \in inflight' : s.conn \in 1 .. MaxConns
    BY <2>1, <2>3, <2>6
  <2> HIDE <2>2
  <2> QED BY <1>4, <2>1, <2>5, <2>7, NewIdType
        DEF Connect, TypeOK, Numbered, callVars, taskVars
<1>5. CASE Heartbeat
  BY <1>5, NewIdType DEF Heartbeat, TypeOK, Numbered, callVars, connVars, taskVars
<1>6. CASE Forward
  <2>1. /\ reg' \in Calls /\ reg' # NoCall
        /\ request_rx' \in Seq(Calls)
    <3>1. request_rx \in Seq(Calls) /\ request_rx # << >> /\ reg' = Head(request_rx)
          /\ request_rx' = Tail(request_rx)
      BY <1>6 DEF Forward, TypeOK
    <3> QED BY <3>1, TailAt, RequestsAssumption
  <2>2. PICK r : r = [drawn |-> drawn[reg'], owner |-> reg', conn |-> conns]
    OBVIOUS
  <2>3. inflight' = inflight \cup {r}
    BY <1>6, <2>2 DEF Forward
  <2>4. drawn[reg'] \in 0 .. MaxIds /\ reg' \in Owner /\ conns \in 0 .. MaxConns
    BY <2>1 DEF TypeOK, Owner
  <2>5. r \in Response /\ r.conn = conns
    BY <2>2, <2>4, NewRequest
  <2>6. conns \in 1 .. MaxConns
    BY <1>6, RequestsAssumption DEF Forward, AtSelect, TypeOK, Numbered
  <2>7. inflight' \subseteq Response /\ \A s \in inflight' : s.conn \in 1 .. MaxConns
    BY <2>3, <2>5, <2>6 DEF TypeOK, Numbered
  <2> HIDE <2>2
  <2> QED BY <1>6, <2>1, <2>6, <2>7
        DEF Forward, TypeOK, Numbered, genVars, callVars, taskVars
<1>7. CASE Register
  <2>1. reg \in Calls /\ drawn[reg] \in Nat
    BY <1>7, RequestsAssumption DEF Register, TypeOK
  <2>2. request_id_trim(drawn[reg]) \in Ids
    BY <2>1, TrimIsId
  <2>3. requests[request_id_trim(drawn[reg])] \in Calls \cup {NoCall}
    BY <2>2 DEF TypeOK
  <2>4. call' \in [Calls -> {"idle", "sending", "waiting", "answered", "failed"}]
    BY <1>7, <2>3, DroppedType DEF Register
  <2>5. requests' \in [Ids -> Calls \cup {NoCall}]
    BY <1>7, <2>1 DEF Register, TypeOK
  <2> QED BY <1>7, <2>4, <2>5 DEF Register, TypeOK, Numbered, genVars, taskVars
<1>8. CASE ForwardFails
  <2>1. Head(request_rx) \in Calls /\ request_rx' \in Seq(Calls)
    <3>1. request_rx \in Seq(Calls) /\ request_rx # << >> /\ request_rx' = Tail(request_rx)
      BY <1>8 DEF ForwardFails, TypeOK
    <3> QED BY <3>1, TailAt
  <2>2. call' \in [Calls -> {"idle", "sending", "waiting", "answered", "failed"}]
    BY <1>8, <2>1, DroppedType DEF ForwardFails
  <2> QED BY <1>8, <2>1, <2>2 DEF ForwardFails, TypeOK, Numbered, genVars, connVars, taskVars
<1>9. ASSUME NEW r \in Response, r.conn \in 1 .. MaxConns,
             \/ packet_process' = packet_process
             \/ Len(packet_process) < ProcChan /\ packet_process' = Append(packet_process, r)
      PROVE  /\ packet_process' \in Seq(Response) /\ Len(packet_process') <= ProcChan
             /\ \A i \in 1 .. Len(packet_process') : packet_process'[i].conn \in 1 .. MaxConns
  <2>1. CASE packet_process' = packet_process
    BY <2>1 DEF TypeOK, Numbered
  <2>2. CASE Len(packet_process) < ProcChan /\ packet_process' = Append(packet_process, r)
    <3>1. packet_process \in Seq(Response) /\ Len(packet_process) \in Nat
      BY DEF TypeOK
    <3>2. /\ packet_process' \in Seq(Response) /\ Len(packet_process') = Len(packet_process) + 1
          /\ \A i \in 1 .. Len(packet_process) : packet_process'[i] = packet_process[i]
          /\ packet_process'[Len(packet_process) + 1] = r
      BY <2>2, <3>1, AppendAt
    <3>3. ASSUME NEW i \in 1 .. Len(packet_process')
          PROVE  packet_process'[i].conn \in 1 .. MaxConns
      <4>1. i \in 1 .. Len(packet_process) \/ i = Len(packet_process) + 1
        BY <3>1, <3>2
      <4> QED BY <4>1, <3>2, <1>9 DEF Numbered
    <3>4. Len(packet_process') <= ProcChan
      BY <2>2, <3>1, <3>2, RequestsAssumption
    <3> QED BY <3>2, <3>3, <3>4
  <2> QED BY <1>9, <2>1, <2>2
<1>10. ASSUME NEW r \in inflight, RecvAuth(r)
       PROVE  Typed'
  <2>1. /\ packet_process' \in Seq(Response) /\ Len(packet_process') <= ProcChan
        /\ \A i \in 1 .. Len(packet_process') : packet_process'[i].conn \in 1 .. MaxConns
    <3>1. Len(packet_process) < ProcChan /\ packet_process' = Append(packet_process, r)
      BY <1>10 DEF RecvAuth, AuthQueued
    <3>2. r \in Response /\ r.conn \in 1 .. MaxConns
      BY DEF TypeOK, Numbered
    <3> QED BY <1>9, <3>1, <3>2
  <2>2. subs' \in 0 .. Subscribes
    BY <1>10, RequestsAssumption DEF RecvAuth
  <2> QED BY <1>10, <2>1, <2>2 DEF RecvAuth, AtSelect, TypeOK, Numbered, genVars, callVars
<1>11. ASSUME NEW r \in inflight, RecvResponse(r)
       PROVE  Typed'
  <2>1. /\ packet_process' \in Seq(Response) /\ Len(packet_process') <= ProcChan
        /\ \A i \in 1 .. Len(packet_process') : packet_process'[i].conn \in 1 .. MaxConns
    <3>1. \/ packet_process' = packet_process
          \/ Len(packet_process) < ProcChan /\ packet_process' = Append(packet_process, r)
      BY <1>11 DEF RecvResponse, TryQueued
    <3>2. r \in Response /\ r.conn \in 1 .. MaxConns
      BY DEF TypeOK, Numbered
    <3> QED BY <1>9, <3>1, <3>2
  <2> QED BY <1>11, <2>1 DEF RecvResponse, TypeOK, Numbered, genVars, callVars
<1>12. CASE Subscribe
  <2>1. NewId
    BY <1>12 DEF Subscribe
  <2>2. PICK r : r = [drawn |-> request_id_gen, owner |-> "sub", conn |-> conns]
    OBVIOUS
  <2>3. inflight' = inflight \cup {r}
    BY <1>12, <2>2 DEF Subscribe
  <2>4. "sub" \in Owner
    BY DEF Owner
  <2>5. conns \in 0 .. MaxConns /\ conns \in 1 .. MaxConns
    BY <1>12, RequestsAssumption DEF Subscribe, TypeOK, Numbered
  <2>6. r \in Response /\ r.conn = conns
    BY <2>1, <2>2, <2>4, <2>5, NewIdType, NewRequest
  <2>7. inflight' \subseteq Response /\ \A s \in inflight' : s.conn \in 1 .. MaxConns
    BY <2>3, <2>5, <2>6 DEF TypeOK, Numbered
  <2>8. subs' \in 0 .. Subscribes
    BY <1>12, RequestsAssumption DEF Subscribe, TypeOK
  <2> HIDE <2>2
  <2> QED BY <1>12, <2>1, <2>7, <2>8, NewIdType
        DEF Subscribe, TypeOK, Numbered, callVars, taskVars
<1>13. CASE Subscribed
  BY <1>13 DEF Subscribed, TypeOK, Numbered, genVars, callVars, taskVars
<1>14. CASE Disconnect
  <2>1. request_id_gen' \in 0 .. MaxIds /\ subs' \in 0 .. Subscribes
    BY <1>14, RequestsAssumption DEF Disconnect
  <2> QED BY <1>14, <2>1 DEF Disconnect, AtSelect, TypeOK, Numbered, callVars, taskVars
<1>15. ASSUME packet_process # << >>, packet_process' = Tail(packet_process)
       PROVE  /\ packet_process' \in Seq(Response) /\ Len(packet_process') <= ProcChan
              /\ \A i \in 1 .. Len(packet_process') : packet_process'[i].conn \in 1 .. MaxConns
              /\ Head(packet_process) \in Response
              /\ Head(packet_process).conn \in 1 .. MaxConns
  <2>1. packet_process \in Seq(Response) /\ Len(packet_process) <= ProcChan
        /\ \A i \in 1 .. Len(packet_process) : packet_process[i].conn \in 1 .. MaxConns
    BY DEF TypeOK, Numbered
  <2>2. /\ packet_process' \in Seq(Response)
        /\ Len(packet_process) \in Nat /\ Len(packet_process) >= 1
        /\ Len(packet_process') = Len(packet_process) - 1
        /\ \A i \in 1 .. Len(packet_process) - 1 :
             packet_process'[i] = packet_process[i + 1] /\ i + 1 \in 1 .. Len(packet_process)
        /\ Head(packet_process) = packet_process[1] /\ packet_process[1] \in Response
    BY <1>15, <2>1, TailAt
  <2>3. Len(packet_process') <= ProcChan /\ 1 \in 1 .. Len(packet_process)
    BY <2>1, <2>2, RequestsAssumption
  <2> QED BY <2>1, <2>2, <2>3
<1>16. CASE Answer
  <2>1. Head(packet_process) \in Response /\ Id(Head(packet_process)) \in Ids
    BY <1>15, <1>16, ResponseType DEF Answer
  <2>2. Head(packet_process).owner \in Owner
    BY <2>1, ResponseType
  <2>3. PICK c : c = requests[Id(Head(packet_process))] /\ c \in Calls
    BY <1>16, <2>1 DEF Answer, TypeOK
  <2>4. requests' \in [Ids -> Calls \cup {NoCall}]
    BY <1>16 DEF Answer, TypeOK
  <2>5. /\ call' \in [Calls -> {"idle", "sending", "waiting", "answered", "failed"}]
        /\ answer' \in [Calls -> Owner \cup {NoCall}]
    BY <1>16, <2>2, <2>3 DEF Answer, TypeOK
  <2> HIDE <2>3
  <2> QED BY <1>15, <1>16, <2>4, <2>5 DEF Answer, TypeOK, Numbered, genVars, connVars
<1>17. CASE NoWaiter
  <2>1. connected' \subseteq 1 .. MaxConns
    BY <1>15, <1>17 DEF NoWaiter, TypeOK
  <2> QED BY <1>15, <1>17, <2>1
        DEF NoWaiter, TypeOK, Numbered, genVars, callVars, connVars
<1>18. CASE TransportDies
  BY <1>18 DEF TransportDies, TypeOK, Numbered, genVars, callVars, taskVars
<1> QED BY NextCases, <1>1, <1>2, <1>3, <1>4, <1>5, <1>6, <1>7, <1>8, <1>10, <1>11, <1>12,
           <1>13, <1>14, <1>16, <1>17, <1>18

-----------------------------------------------------------------------------
(* The requests in use *)

LEMMA Grown ==
  ASSUME NEW S, NEW s \in Seq(S), NEW e \in S, NEW t, t = Append(s, e)
  PROVE  /\ Len(s) \in Nat /\ Len(t) = Len(s) + 1
         /\ \A i \in 1 .. Len(t) : \/ i \in 1 .. Len(s) /\ t[i] = s[i]
                                   \/ i = Len(s) + 1 /\ t[i] = e
<1>1. /\ Len(s) \in Nat /\ Len(t) = Len(s) + 1
      /\ \A i \in 1 .. Len(s) : t[i] = s[i]
      /\ t[Len(s) + 1] = e
  BY AppendAt
<1>2. ASSUME NEW i \in 1 .. Len(t)
      PROVE  i \in 1 .. Len(s) \/ i = Len(s) + 1
  BY <1>1
<1> QED BY <1>1, <1>2

LEMMA Shrunk ==
  ASSUME NEW S, NEW s \in Seq(S), s # << >>, NEW t, t = Tail(s)
  PROVE  /\ \A i \in 1 .. Len(t) : i + 1 \in 1 .. Len(s) /\ i + 1 # 1 /\ t[i] = s[i + 1]
         /\ 1 \in 1 .. Len(s) /\ Head(s) = s[1]
         /\ \A i, j \in 1 .. Len(t) : i + 1 = j + 1 => i = j
<1>1. /\ Len(s) \in Nat /\ Len(s) >= 1
      /\ Len(t) = Len(s) - 1
      /\ \A i \in 1 .. Len(s) - 1 : t[i] = s[i + 1] /\ i + 1 \in 1 .. Len(s)
      /\ Head(s) = s[1]
  BY TailAt
<1> QED BY <1>1

\* Types of what the three places hold.
LEMMA Elements ==
  ASSUME Typed
  PROVE  /\ \A c \in Calls : drawn[c] \in Nat /\ request_id_trim(drawn[c]) \in Ids /\ c # NoCall
         /\ \A i \in 1 .. Len(request_rx) : request_rx[i] \in Calls
         /\ \A r \in inflight : r \in Response /\ r.drawn \in Nat /\ Id(r) \in Ids
         /\ \A i \in 1 .. Len(packet_process) :
              /\ packet_process[i] \in Response /\ packet_process[i].drawn \in Nat
              /\ Id(packet_process[i]) \in Ids
         /\ \A n \in Ids : requests[n] # NoCall => requests[n] \in Calls
         /\ request_id_gen \in Nat
<1>1. \A c \in Calls : drawn[c] \in Nat /\ c # NoCall
  BY RequestsAssumption DEF Typed, TypeOK
<1>2. /\ \A i \in 1 .. Len(request_rx) : request_rx[i] \in Calls
      /\ \A r \in inflight : r \in Response
      /\ \A i \in 1 .. Len(packet_process) : packet_process[i] \in Response
  BY DEF Typed, TypeOK
<1>3. \A n \in Ids : requests[n] # NoCall => requests[n] \in Calls
  BY DEF Typed, TypeOK
<1>4. request_id_gen \in Nat
  BY RequestsAssumption DEF Typed, TypeOK
<1> QED BY <1>1, <1>2, <1>3, <1>4, ResponseType, TrimIsId

LEMMA InUseHas ==
  /\ \A c \in Calls : call[c] \in {"sending", "waiting"} => drawn[c] \in InUse
  /\ \A i \in 1 .. Len(request_rx) : drawn[request_rx[i]] \in InUse
  /\ \A r \in inflight : r.drawn \in InUse
  /\ \A i \in 1 .. Len(packet_process) : packet_process[i].drawn \in InUse
BY DEF InUse

LEMMA InUseOnly ==
  ASSUME NEW S,
         \A c \in Calls : call[c] \in {"sending", "waiting"} => drawn[c] \in S,
         \A i \in 1 .. Len(request_rx) : drawn[request_rx[i]] \in S,
         \A r \in inflight : r.drawn \in S,
         \A i \in 1 .. Len(packet_process) : packet_process[i].drawn \in S
  PROVE  InUse \subseteq S
BY DEF InUse

\* The same of the next state.
LEMMA InUseOnlyNext ==
  ASSUME NEW S,
         \A c \in Calls : call'[c] \in {"sending", "waiting"} => drawn'[c] \in S,
         \A i \in 1 .. Len(request_rx') : drawn'[request_rx'[i]] \in S,
         \A r \in inflight' : r.drawn \in S,
         \A i \in 1 .. Len(packet_process') : packet_process'[i].drawn \in S
  PROVE  InUse' \subseteq S
BY DEF InUse

LEMMA InUseNat ==
  ASSUME Typed
  PROVE  InUse \subseteq Nat
BY Elements, InUseOnly

LEMMA SameId ==
  ASSUME Typed, Near, NEW n \in InUse, NEW m \in InUse,
         request_id_trim(n) = request_id_trim(m)
  PROVE  n = m
<1>1. n \in Nat /\ m \in Nat
  BY InUseNat
<1>2. n < m + IdSpace /\ m < n + IdSpace
  BY DEF Near
<1> QED BY <1>1, <1>2, TrimApart

LEMMA InUseBelow ==
  ASSUME Typed, Below, Queued
  PROVE  \A n \in InUse : n \in Nat /\ n < request_id_gen
<1> DEFINE S == {n \in Nat : n < request_id_gen}
<1>1. \A c \in Calls : Started(c) => drawn[c] \in S
  BY Elements DEF Below
<1>2. \A c \in Calls : call[c] \in {"sending", "waiting"} => drawn[c] \in S
  BY <1>1 DEF Started
<1>3. \A i \in 1 .. Len(request_rx) : drawn[request_rx[i]] \in S
  BY <1>1, Elements DEF Queued, Waits, Sent, Started
<1>4. /\ \A r \in inflight : r.drawn \in S
      /\ \A i \in 1 .. Len(packet_process) : packet_process[i].drawn \in S
  BY Elements DEF Below
<1> HIDE DEF S
<1>5. InUse \subseteq S
  BY <1>2, <1>3, <1>4, InUseOnly
<1> QED BY <1>5 DEF S

\* A step that draws no id brings nothing into use.
LEMMA NearKept ==
  ASSUME Near, InUse' \subseteq InUse
  PROVE  Near'
BY DEF Near

\* A drawn id is near the others, unless the ids have come round.
LEMMA NearDrawn ==
  ASSUME Typed, Near, Below, Queued, NewId, ~lapped', InUse' \subseteq InUse \cup {request_id_gen}
  PROVE  Near'
<1>1. \A n \in InUse : n \in Nat /\ n < request_id_gen
  BY InUseBelow
<1>2. request_id_gen \in Nat /\ IdSpace \in Nat /\ IdSpace > 0
  BY Elements, RequestsAssumption
<1>3. \A n \in InUse : ~(n + IdSpace <= request_id_gen)
  BY DEF NewId
<1>4. ASSUME NEW n \in InUse \cup {request_id_gen}, NEW m \in InUse \cup {request_id_gen}
      PROVE  n < m + IdSpace
  <2>1. n \in Nat /\ m \in Nat /\ n <= request_id_gen
    BY <1>1, <1>2
  <2>2. request_id_gen < m + IdSpace
    BY <1>1, <1>2, <1>3
  <2> QED BY <1>2, <2>1, <2>2
<1> QED BY <1>4 DEF Near

-----------------------------------------------------------------------------
(* Core, action by action *)

\* Every step but registering, queueing a response and handling one.
LEMMA CoreFrame ==
  ASSUME Typed, Core,
         requests' = requests, answer' = answer, packet_process' = packet_process,
         \A c \in Calls : /\ call'[c] = "answered" => call[c] = "answered"
                          /\ Sent(c) => Sent(c)'
                          /\ call'[c] = "waiting" /\ Sent(c) => call[c] = "waiting"
  PROVE  Core'
<1>1. AnswerMatches'
  BY DEF Core, AnswerMatches
<1>2. QueueIds' /\ QueueOwned'
  BY DEF Core, QueueIds, QueueOwned, Id
<1>3. EntrySent'
  BY Elements DEF Core, EntrySent
<1>4. QueueOther'
  <2> SUFFICES ASSUME NEW i \in 1 .. Len(packet_process),
                      packet_process[i].owner \notin Calls,
                      requests[Id(packet_process[i])] # NoCall
               PROVE  call'[requests[Id(packet_process[i])]] # "waiting"
    BY DEF QueueOther, Id
  <2> DEFINE c == requests[Id(packet_process[i])]
  <2>1. c \in Calls /\ Sent(c)
    BY Elements DEF Core, EntrySent
  <2>2. call[c] # "waiting"
    BY DEF Core, QueueOther
  <2> HIDE DEF c
  <2>3. call'[c] # "waiting"
    BY <2>1, <2>2
  <2> QED BY <2>3 DEF c
<1> QED BY <1>1, <1>2, <1>3, <1>4 DEF Core

\* What becomes of the calls when an oneshot is dropped.
LEMMA DroppedCalls ==
  ASSUME TypeOK, NEW c
  PROVE  \A d \in Calls : \/ Dropped(c)[d] = call[d]
                          \/ call[d] = "waiting" /\ Dropped(c)[d] = "failed"
BY DEF TypeOK, Dropped

\* Registering: no queued response has the id of the call, whose own request
\* is still in flight.
LEMMA RegisterFree ==
  ASSUME Typed, Full, main = "register"
  PROVE  \E r \in inflight :
           /\ r.owner = reg /\ reg \in Calls /\ Sent(reg)
           /\ r.drawn = drawn[reg] /\ Id(r) = request_id_trim(drawn[reg])
           /\ \A i \in 1 .. Len(packet_process) :
                Id(packet_process[i]) # request_id_trim(drawn[reg])
           /\ \A s \in inflight : Id(s) = request_id_trim(drawn[reg]) => s = r
<1>1. reg \in Calls
  BY DEF Typed, TypeOK
<1>2. PICK r \in inflight : r.owner = reg
  BY DEF Full, Registering
<1>3. Sent(reg) /\ r.drawn = drawn[reg]
  BY <1>1, <1>2 DEF Full, AllOwned, Owned
<1>4. Id(r) = request_id_trim(drawn[reg])
  BY <1>3 DEF Id
<1>5. Near /\ Once
  BY DEF Full
<1>6. ASSUME NEW i \in 1 .. Len(packet_process),
             Id(packet_process[i]) = request_id_trim(drawn[reg])
      PROVE  FALSE
  <2>1. packet_process[i].drawn \in InUse /\ r.drawn \in InUse
    BY InUseHas
  <2>2. request_id_trim(packet_process[i].drawn) = request_id_trim(r.drawn)
    BY <1>3, <1>6 DEF Id
  <2>3. packet_process[i].drawn = r.drawn
    BY <1>5, <2>1, <2>2, SameId
  <2> QED BY <1>5, <2>3 DEF Once
<1>7. ASSUME NEW s \in inflight, Id(s) = request_id_trim(drawn[reg])
      PROVE  s = r
  <2>1. s.drawn \in InUse /\ r.drawn \in InUse
    BY InUseHas
  <2>2. request_id_trim(s.drawn) = request_id_trim(r.drawn)
    BY <1>3, <1>7 DEF Id
  <2>3. s.drawn = r.drawn
    BY <1>5, <2>1, <2>2, SameId
  <2> QED BY <1>5, <2>3 DEF Once
<1> QED BY <1>1, <1>2, <1>3, <1>4, <1>6, <1>7

LEMMA CoreRegister ==
  ASSUME Typed, Core, Full, Register
  PROVE  Core'
<1> DEFINE n == request_id_trim(drawn[reg])
<1>1. /\ reg \in Calls /\ Sent(reg)
      /\ \A i \in 1 .. Len(packet_process) : Id(packet_process[i]) # n
  BY RegisterFree DEF Register
<1>2. n \in Ids
  BY <1>1, Elements
<1>3. /\ \A k \in Ids : k # n => requests'[k] = requests[k]
      /\ requests'[n] = reg
  BY <1>2 DEF Register, Typed, TypeOK
<1>4. \A d \in Calls : \/ call'[d] = call[d]
                       \/ call[d] = "waiting" /\ call'[d] = "failed"
  BY DroppedCalls DEF Register, Typed
<1>5. packet_process' = packet_process /\ answer' = answer
  BY DEF Register, taskVars
<1> HIDE DEF n
<1>6. AnswerMatches'
  BY <1>4, <1>5 DEF Core, AnswerMatches
<1>7. QueueIds'
  BY <1>5 DEF Core, QueueIds, Id
<1>8. \A i \in 1 .. Len(packet_process) :
        requests'[Id(packet_process[i])] = requests[Id(packet_process[i])]
  BY <1>1, <1>3, Elements
<1>9. QueueOwned'
  BY <1>5, <1>8 DEF Core, QueueOwned, Id
<1>10. QueueOther'
  BY <1>4, <1>5, <1>8, Elements DEF Core, QueueOther, Id
<1>11. EntrySent'
  <2> SUFFICES ASSUME NEW k \in Ids, requests'[k] # NoCall
               PROVE  call'[requests'[k]] \notin {"idle", "sending"}
    BY DEF EntrySent, Sent
  <2>1. requests'[k] \in Calls /\ Sent(requests'[k])
    BY <1>1, <1>3, Elements DEF Core, EntrySent
  <2> QED BY <1>4, <2>1 DEF Sent
<1> QED BY <1>6, <1>7, <1>9, <1>10, <1>11 DEF Core

\* What a response needs to be queued safely.
LEMMA QueueSafe ==
  ASSUME Typed, Full, main # "register", NEW r \in inflight
  PROVE  /\ r.owner \in Calls => requests[Id(r)] = r.owner
         /\ r.owner \notin Calls => \/ requests[Id(r)] = NoCall
                                    \/ call[requests[Id(r)]] # "waiting"
         /\ \A i \in 1 .. Len(packet_process) : Id(packet_process[i]) # Id(r)
<1>1. Near /\ Once /\ Found /\ AllOwned
  BY DEF Full
<1>2. Id(r) \in Ids /\ r.drawn \in InUse
  BY Elements, InUseHas
<1>3. ASSUME r.owner \in Calls
      PROVE  requests[Id(r)] = r.owner
  <2>1. reg = NoCall
    BY DEF Typed, TypeOK
  <2>2. r.owner # reg
    BY <1>3, <2>1, RequestsAssumption
  <2> QED BY <1>1, <1>3, <2>2 DEF Found
<1>4. ASSUME r.owner \notin Calls, requests[Id(r)] # NoCall,
             call[requests[Id(r)]] = "waiting"
      PROVE  FALSE
  <2> DEFINE c == requests[Id(r)]
  <2>1. c \in Calls
    BY <1>2, <1>4, Elements
  <2>2. request_id_trim(drawn[c]) = request_id_trim(r.drawn)
    BY <1>1, <1>2, <1>4 DEF Found, Id
  <2>3. drawn[c] \in InUse
    BY <1>4, <2>1, InUseHas
  <2>4. drawn[c] = r.drawn
    BY <1>1, <1>2, <2>2, <2>3, SameId
  <2>5. Started(c)
    BY <1>4 DEF Started
  <2> QED BY <1>1, <1>4, <2>1, <2>4, <2>5 DEF AllOwned, Owned
<1>5. ASSUME NEW i \in 1 .. Len(packet_process), Id(packet_process[i]) = Id(r)
      PROVE  FALSE
  <2>1. packet_process[i].drawn \in InUse
    BY InUseHas
  <2>2. packet_process[i].drawn = r.drawn
    BY <1>1, <1>2, <1>5, <2>1, SameId DEF Id
  <2> QED BY <1>1, <2>2 DEF Once
<1> QED BY <1>3, <1>4, <1>5

LEMMA CoreQueue ==
  ASSUME Typed, Core, Full, main # "register", NEW r \in inflight,
         UNCHANGED <<callVars, requests>>,
         packet_process' = Append(packet_process, r)
  PROVE  Core'
<1>1. \A i \in 1 .. Len(packet_process') :
         \/ i \in 1 .. Len(packet_process) /\ packet_process'[i] = packet_process[i]
         \/ i = Len(packet_process) + 1 /\ packet_process'[i] = r
  <2>1. packet_process \in Seq(Response) /\ r \in Response
    BY DEF Typed, TypeOK
  <2> QED BY <2>1, Grown
<1>2. call' = call /\ answer' = answer /\ requests' = requests
  BY DEF callVars
<1>3. AnswerMatches' /\ EntrySent'
  BY <1>2 DEF Core, AnswerMatches, EntrySent, Sent
<1>4. QueueIds'
  <2> SUFFICES ASSUME NEW i \in 1 .. Len(packet_process'), NEW j \in 1 .. Len(packet_process'),
                      Id(packet_process'[i]) = Id(packet_process'[j])
               PROVE  i = j
    BY DEF QueueIds, Id
  <2>1. \A k \in 1 .. Len(packet_process) : Id(packet_process[k]) # Id(r)
    BY QueueSafe
  <2> QED BY <1>1, <2>1 DEF Core, QueueIds
<1>5. QueueOwned'
  <2> SUFFICES ASSUME NEW i \in 1 .. Len(packet_process'), packet_process'[i].owner \in Calls
               PROVE  requests[Id(packet_process'[i])] = packet_process'[i].owner
    BY <1>2 DEF QueueOwned, Id
  <2> QED BY <1>1, QueueSafe DEF Core, QueueOwned
<1>6. QueueOther'
  <2> SUFFICES ASSUME NEW i \in 1 .. Len(packet_process'), packet_process'[i].owner \notin Calls
               PROVE  \/ requests[Id(packet_process'[i])] = NoCall
                      \/ call[requests[Id(packet_process'[i])]] # "waiting"
    BY <1>2 DEF QueueOther, Id
  <2> QED BY <1>1, QueueSafe DEF Core, QueueOther
<1> QED BY <1>3, <1>4, <1>5, <1>6 DEF Core

LEMMA QueueShrunk ==
  ASSUME Typed, packet_process # << >>, packet_process' = Tail(packet_process)
  PROVE  /\ \A i \in 1 .. Len(packet_process') :
              /\ i + 1 \in 1 .. Len(packet_process) /\ i + 1 # 1
              /\ packet_process'[i] = packet_process[i + 1]
         /\ \A i, j \in 1 .. Len(packet_process') : i + 1 = j + 1 => i = j
         /\ 1 \in 1 .. Len(packet_process) /\ Head(packet_process) = packet_process[1]
<1>1. packet_process \in Seq(Response)
  BY DEF Typed, TypeOK
<1> QED BY <1>1, Shrunk

LEMMA CoreNoWaiter ==
  ASSUME Typed, Core, NoWaiter
  PROVE  Core'
<1>1. call' = call /\ answer' = answer /\ requests' = requests
  BY DEF NoWaiter, callVars
<1>2. AnswerMatches' /\ EntrySent'
  BY <1>1 DEF Core, AnswerMatches, EntrySent, Sent
<1>3. packet_process # << >> /\ packet_process' = Tail(packet_process)
  BY DEF NoWaiter
<1>4. QueueIds'
  BY <1>3, QueueShrunk DEF Core, QueueIds, Id
<1>5. QueueOwned'
  BY <1>1, <1>3, QueueShrunk DEF Core, QueueOwned, Id
<1>6. QueueOther'
  BY <1>1, <1>3, QueueShrunk DEF Core, QueueOther, Id
<1> QED BY <1>2, <1>4, <1>5, <1>6 DEF Core

\* What handling a response with an entry does to the map and the calls.
LEMMA AnswerEffect ==
  ASSUME Typed, Answer
  PROVE  LET r == packet_process[1]
             c == requests[Id(r)]
         IN  /\ Id(r) \in Ids /\ c \in Calls
             /\ requests'[Id(r)] = NoCall
             /\ \A n \in Ids : n # Id(r) => requests'[n] = requests[n]
             /\ \A d \in Calls : \/ call'[d] = call[d] /\ answer'[d] = answer[d]
                                 \/ d = c /\ call[d] = "waiting" /\ call'[d] = "answered"
                                          /\ answer'[d] = r.owner
<1> DEFINE r == packet_process[1]
           c == requests[Id(r)]
<1>1. Head(packet_process) = r /\ 1 \in 1 .. Len(packet_process)
  BY QueueShrunk DEF Answer
<1>2. Id(r) \in Ids
  BY <1>1, Elements
<1>3. c \in Calls
  BY <1>1, <1>2, Elements DEF Answer
<1>4. requests' = [requests EXCEPT ![Id(r)] = NoCall]
  BY <1>1 DEF Answer
<1>5. requests'[Id(r)] = NoCall /\ \A n \in Ids : n # Id(r) => requests'[n] = requests[n]
  BY <1>2, <1>4 DEF Typed, TypeOK
<1>6. \/ call' = [call EXCEPT ![c] = "answered"] /\ answer' = [answer EXCEPT ![c] = r.owner]
         /\ call[c] = "waiting"
      \/ call' = call /\ answer' = answer
  BY <1>1 DEF Answer
<1> HIDE DEF r, c
<1>7. \A d \in Calls : \/ call'[d] = call[d] /\ answer'[d] = answer[d]
                       \/ d = c /\ call[d] = "waiting" /\ call'[d] = "answered"
                                /\ answer'[d] = r.owner
  BY <1>3, <1>6 DEF Typed, TypeOK
<1> QED BY <1>2, <1>3, <1>5, <1>7 DEF r, c

LEMMA CoreAnswer ==
  ASSUME Typed, Core, Answer
  PROVE  Core'
<1> DEFINE r == packet_process[1]
           c == requests[Id(r)]
<1>1. /\ Id(r) \in Ids /\ c \in Calls
      /\ requests'[Id(r)] = NoCall
      /\ \A n \in Ids : n # Id(r) => requests'[n] = requests[n]
      /\ \A d \in Calls : \/ call'[d] = call[d] /\ answer'[d] = answer[d]
                          \/ d = c /\ call[d] = "waiting" /\ call'[d] = "answered"
                                   /\ answer'[d] = r.owner
  BY AnswerEffect
<1>2. packet_process # << >> /\ packet_process' = Tail(packet_process)
  BY DEF Answer
<1>3. /\ \A i \in 1 .. Len(packet_process') :
           /\ i + 1 \in 1 .. Len(packet_process) /\ i + 1 # 1
           /\ packet_process'[i] = packet_process[i + 1]
      /\ \A i, j \in 1 .. Len(packet_process') : i + 1 = j + 1 => i = j
      /\ 1 \in 1 .. Len(packet_process)
  BY <1>2, QueueShrunk
<1>4. AnswerMatches'
  <2>1. call[c] = "waiting" => r.owner = c
    <3>1. CASE r.owner \in Calls
      BY <1>3, <3>1 DEF Core, QueueOwned
    <3>2. CASE r.owner \notin Calls
      BY <1>1, <1>3, <3>2, Elements DEF Core, QueueOther
    <3> QED BY <3>1, <3>2
  <2> HIDE DEF r, c
  <2> QED BY <1>1, <2>1 DEF Core, AnswerMatches
<1>5. QueueIds'
  BY <1>3 DEF Core, QueueIds, Id
<1>6. \A i \in 1 .. Len(packet_process') :
        /\ Id(packet_process'[i]) \in Ids
        /\ requests'[Id(packet_process'[i])] = requests[Id(packet_process'[i])]
  <2> SUFFICES ASSUME NEW i \in 1 .. Len(packet_process')
               PROVE  /\ Id(packet_process'[i]) \in Ids
                      /\ requests'[Id(packet_process'[i])] = requests[Id(packet_process'[i])]
    OBVIOUS
  <2>1. i + 1 \in 1 .. Len(packet_process) /\ i + 1 # 1
        /\ packet_process'[i] = packet_process[i + 1]
    BY <1>3
  <2>2. Id(packet_process[i + 1]) \in Ids
    BY <2>1, Elements
  <2>3. Id(packet_process[i + 1]) # Id(r)
    BY <1>3, <2>1 DEF Core, QueueIds
  <2> QED BY <1>1, <2>1, <2>2, <2>3
<1> HIDE DEF r, c
<1>7. QueueOwned'
  <2> SUFFICES ASSUME NEW i \in 1 .. Len(packet_process'), packet_process'[i].owner \in Calls
               PROVE  requests'[Id(packet_process'[i])] = packet_process'[i].owner
    BY DEF QueueOwned, Id
  <2> QED BY <1>3, <1>6 DEF Core, QueueOwned
<1>8. QueueOther'
  <2> SUFFICES ASSUME NEW i \in 1 .. Len(packet_process'), packet_process'[i].owner \notin Calls,
                      requests[Id(packet_process'[i])] # NoCall
               PROVE  call'[requests[Id(packet_process'[i])]] # "waiting"
    BY <1>6 DEF QueueOther, Id
  <2>1. call[requests[Id(packet_process'[i])]] # "waiting"
    BY <1>3 DEF Core, QueueOther
  <2>2. requests[Id(packet_process'[i])] \in Calls
    BY <1>6, Elements
  <2> QED BY <1>1, <2>1, <2>2
<1>9. EntrySent'
  <2> SUFFICES ASSUME NEW n \in Ids, requests'[n] # NoCall
               PROVE  call'[requests'[n]] \notin {"idle", "sending"}
    BY DEF EntrySent, Sent
  <2>1. requests'[n] \in Calls /\ Sent(requests'[n])
    BY <1>1, Elements DEF Core, EntrySent
  <2> QED BY <1>1, <2>1 DEF Sent
<1> QED BY <1>4, <1>5, <1>7, <1>8, <1>9 DEF Core

-----------------------------------------------------------------------------
(* Full, action by action *)

\* A step of the calls that draws no id: all but Near and Queued is kept.
LEMMA FullCalls ==
  ASSUME Typed, Full,
         UNCHANGED <<request_id_gen, drawn, inflight, packet_process, requests, main, reg>>,
         \A c \in Calls : (Started(c)' <=> Started(c)) /\ (Sent(c) => Sent(c)')
  PROVE  Below' /\ Distinct' /\ AllOwned' /\ Once' /\ Registering' /\ Found'
<1>1. Below'
  BY DEF Full, Below
<1>2. Distinct'
  BY DEF Full, Distinct
<1>3. \A r : Owned(r) => Owned(r)'
  BY DEF Owned
<1>4. AllOwned'
  BY <1>3 DEF Full, AllOwned, Owned
<1>5. Once' /\ Registering'
  BY DEF Full, Once, Registering
<1>6. Found'
  BY DEF Full, Found, Id
<1> QED BY <1>1, <1>2, <1>4, <1>5, <1>6

LEMMA FullStart ==
  ASSUME Typed, Core, Full, NEW c \in Calls, StartCall(c), ~lapped'
  PROVE  Full'
<1>1. /\ request_id_gen' = request_id_gen + 1 /\ request_id_gen \in Nat
      /\ drawn'[c] = request_id_gen /\ call'[c] = "sending" /\ call[c] = "idle"
      /\ \A d \in Calls : d # c => drawn'[d] = drawn[d] /\ call'[d] = call[d]
  BY Elements DEF StartCall, NewId, Typed, TypeOK
<1>2. /\ request_rx' = request_rx /\ requests' = requests /\ main' = main /\ reg' = reg
      /\ inflight' = inflight /\ packet_process' = packet_process
  BY DEF StartCall, connVars, taskVars
<1>3. NewId
  BY DEF StartCall
<1>4. Below /\ Near /\ Distinct /\ AllOwned /\ Once /\ Queued /\ Registering /\ Found
  BY DEF Full
<1>5. \A d \in Calls : Started(d) => drawn[d] \in Nat /\ drawn[d] < request_id_gen
  BY <1>4, Elements DEF Below
<1>6. Below'
  <2>1. \A d \in Calls : Started(d)' => drawn'[d] < request_id_gen'
    BY <1>1, <1>5 DEF Started
  <2>2. \A r \in inflight : r.drawn < request_id_gen'
    BY <1>1, <1>4, Elements DEF Below
  <2>3. \A i \in 1 .. Len(packet_process) : packet_process[i].drawn < request_id_gen'
    BY <1>1, <1>4, Elements DEF Below
  <2> QED BY <1>2, <2>1, <2>2, <2>3 DEF Below
<1>7. Near'
  <2>1. \A d \in Calls : call'[d] \in {"sending", "waiting"} => drawn'[d] \in InUse \cup {request_id_gen}
    BY <1>1, InUseHas
  <2>2. \A i \in 1 .. Len(request_rx') : drawn'[request_rx'[i]] \in InUse \cup {request_id_gen}
    BY <1>1, <1>2, InUseHas, Elements
  <2>3. /\ \A r \in inflight' : r.drawn \in InUse \cup {request_id_gen}
        /\ \A i \in 1 .. Len(packet_process') : packet_process'[i].drawn \in InUse \cup {request_id_gen}
    BY <1>2, InUseHas
  <2>4. InUse' \subseteq InUse \cup {request_id_gen}
    BY <2>1, <2>2, <2>3, InUseOnlyNext
  <2> QED BY <1>3, <1>4, <2>4, NearDrawn
<1>8. Distinct'
  <2> SUFFICES ASSUME NEW a \in Calls, NEW b \in Calls, Started(a)', Started(b)',
                      drawn'[a] = drawn'[b]
               PROVE  a = b
    BY DEF Distinct
  <2> QED BY <1>1, <1>4, <1>5 DEF Distinct, Started
<1>9. ASSUME NEW r, Owned(r), r.drawn \in Nat, r.drawn < request_id_gen
      PROVE  Owned(r)'
  <2>1. CASE r.owner \in Calls
    BY <1>1, <1>9, <2>1 DEF Owned, Sent
  <2>2. CASE r.owner \notin Calls
    <3>1. request_id_gen # r.drawn
      BY <1>1, <1>9
    <3> QED BY <1>1, <1>9, <2>2, <3>1 DEF Owned, Started
  <2> QED BY <2>1, <2>2
<1>10. AllOwned'
  <2>1. \A r \in inflight : Owned(r)'
    BY <1>4, <1>9, Elements DEF AllOwned, Below
  <2>2. \A i \in 1 .. Len(packet_process) : Owned(packet_process[i])'
    <3> SUFFICES ASSUME NEW i \in 1 .. Len(packet_process)
                 PROVE  Owned(packet_process[i])'
      OBVIOUS
    <3>1. PICK s : s = packet_process[i]
      OBVIOUS
    <3>2. Owned(s) /\ s.drawn \in Nat /\ s.drawn < request_id_gen
      BY <1>4, <3>1, Elements DEF AllOwned, Below
    <3>3. Owned(s)'
      BY <1>9, <3>2
    <3> QED BY <1>2, <3>1, <3>3 DEF Owned
  <2> QED BY <1>2, <2>1, <2>2 DEF AllOwned
<1>11. Once' /\ Registering'
  BY <1>2, <1>4 DEF Once, Registering
<1>12. Queued'
  BY <1>1, <1>2, <1>4, Elements DEF Queued, Waits, Sent
<1>13. Found'
  <2>1. \A n \in Ids : requests[n] # NoCall => requests[n] \in Calls /\ requests[n] # c
    BY <1>1, Elements DEF Core, EntrySent, Sent
  <2> QED BY <1>1, <1>2, <1>4, <2>1 DEF Found, Id
<1> QED BY <1>6, <1>7, <1>8, <1>10, <1>11, <1>12, <1>13 DEF Full

LEMMA FullEnqueue ==
  ASSUME Typed, Full, NEW c \in Calls, EnqueueCall(c)
  PROVE  Full'
<1>1. /\ call'[c] = "waiting" /\ call[c] = "sending"
      /\ \A d \in Calls : d # c => call'[d] = call[d]
  BY DEF EnqueueCall, Typed, TypeOK
<1>2. /\ drawn' = drawn /\ requests' = requests /\ main' = main /\ reg' = reg
      /\ inflight' = inflight /\ packet_process' = packet_process
      /\ request_id_gen' = request_id_gen
  BY DEF EnqueueCall, connVars, taskVars, genVars
<1>3. Below' /\ Distinct' /\ AllOwned' /\ Once' /\ Registering' /\ Found'
  BY <1>1, <1>2, FullCalls DEF Started, Sent
<1>4. Near /\ Queued /\ AllOwned
  BY DEF Full
<1>5. /\ Len(request_rx) \in Nat
      /\ \A i \in 1 .. Len(request_rx') : \/ i \in 1 .. Len(request_rx) /\ request_rx'[i] = request_rx[i]
                                          \/ i = Len(request_rx) + 1 /\ request_rx'[i] = c
  <2>1. request_rx \in Seq(Calls) /\ request_rx' = Append(request_rx, c)
    BY DEF EnqueueCall, Typed, TypeOK
  <2> QED BY <2>1, Grown
<1>6. Near'
  <2>1. \A d \in Calls : call'[d] \in {"sending", "waiting"} => drawn'[d] \in InUse
    BY <1>1, <1>2, InUseHas
  <2>2. \A i \in 1 .. Len(request_rx') : drawn'[request_rx'[i]] \in InUse
    BY <1>1, <1>2, <1>5, InUseHas
  <2>3. /\ \A r \in inflight' : r.drawn \in InUse
        /\ \A i \in 1 .. Len(packet_process') : packet_process'[i].drawn \in InUse
    BY <1>2, InUseHas
  <2>4. InUse' \subseteq InUse
    BY <2>1, <2>2, <2>3, InUseOnlyNext
  <2> QED BY <1>4, <2>4, NearKept
<1>7. Waits(c)'
  <2>1. \A r \in inflight : r.owner # c
    BY <1>1, <1>4 DEF AllOwned, Owned, Sent
  <2>2. \A i \in 1 .. Len(packet_process) : packet_process[i].owner # c
    BY <1>1, <1>4 DEF AllOwned, Owned, Sent
  <2> QED BY <1>1, <1>2, <2>1, <2>2 DEF Waits, Sent
<1>8. \A i \in 1 .. Len(request_rx) : request_rx[i] \in Calls /\ request_rx[i] # c
  BY <1>1, <1>4, Elements DEF Queued, Waits, Sent
<1>9. \A d \in Calls : d # c /\ Waits(d) => Waits(d)'
  BY <1>1, <1>2 DEF Waits, Sent
<1>10. ASSUME NEW i \in 1 .. Len(request_rx')
       PROVE  /\ call'[request_rx'[i]] \notin {"idle", "sending"}
              /\ \A r \in inflight' : r.owner # request_rx'[i]
              /\ \A j \in 1 .. Len(packet_process') : packet_process'[j].owner # request_rx'[i]
  <2>1. PICK d \in Calls : d = request_rx'[i] /\ Waits(d)'
    BY <1>4, <1>5, <1>7, <1>8, <1>9 DEF Queued
  <2> QED BY <2>1 DEF Waits, Sent
<1>11. \A i, j \in 1 .. Len(request_rx') : request_rx'[i] = request_rx'[j] => i = j
  BY <1>4, <1>5, <1>8 DEF Queued
<1>12. Queued'
  BY <1>10, <1>11 DEF Queued, Waits, Sent
<1> QED BY <1>3, <1>6, <1>12 DEF Full

\* A caller that gives up, and one whose oneshot is dropped.
LEMMA FullFails ==
  ASSUME Typed, Full,
         UNCHANGED <<request_id_gen, drawn, inflight, packet_process, requests, main, reg>>,
         \A d \in Calls : \/ call'[d] = call[d]
                          \/ call[d] \in {"sending", "waiting"} /\ call'[d] = "failed",
         request_rx' = request_rx \/ (request_rx # << >> /\ request_rx' = Tail(request_rx))
  PROVE  Full'
<1>1. Below' /\ Distinct' /\ AllOwned' /\ Once' /\ Registering' /\ Found'
  BY FullCalls DEF Started, Sent
<1>2. Near /\ Queued
  BY DEF Full
<1>3. \A i \in 1 .. Len(request_rx') : \E j \in 1 .. Len(request_rx) : request_rx'[i] = request_rx[j]
  <2>1. CASE request_rx' = request_rx
    BY <2>1
  <2>2. CASE request_rx # << >> /\ request_rx' = Tail(request_rx)
    <3>1. request_rx \in Seq(Calls)
      BY DEF Typed, TypeOK
    <3>2. \A i \in 1 .. Len(request_rx') : i + 1 \in 1 .. Len(request_rx) /\ request_rx'[i] = request_rx[i + 1]
      BY <2>2, <3>1, Shrunk
    <3> QED BY <3>2
  <2> QED BY <2>1, <2>2
<1>4. \A i, j \in 1 .. Len(request_rx') : request_rx'[i] = request_rx'[j] => i = j
  <2>1. CASE request_rx' = request_rx
    BY <1>2, <2>1 DEF Queued
  <2>2. CASE request_rx # << >> /\ request_rx' = Tail(request_rx)
    <3>1. request_rx \in Seq(Calls)
      BY DEF Typed, TypeOK
    <3>2. /\ \A i \in 1 .. Len(request_rx') : i + 1 \in 1 .. Len(request_rx) /\ request_rx'[i] = request_rx[i + 1]
          /\ \A i, j \in 1 .. Len(request_rx') : i + 1 = j + 1 => i = j
      BY <2>2, <3>1, Shrunk
    <3> QED BY <1>2, <3>2 DEF Queued
  <2> QED BY <2>1, <2>2
<1>5. Near'
  <2>1. \A d \in Calls : call'[d] \in {"sending", "waiting"} => drawn'[d] \in InUse
    BY InUseHas
  <2>2. \A i \in 1 .. Len(request_rx') : drawn'[request_rx'[i]] \in InUse
    BY <1>3, InUseHas
  <2>3. /\ \A r \in inflight' : r.drawn \in InUse
        /\ \A i \in 1 .. Len(packet_process') : packet_process'[i].drawn \in InUse
    BY InUseHas
  <2>4. InUse' \subseteq InUse
    BY <2>1, <2>2, <2>3, InUseOnlyNext
  <2> QED BY <1>2, <2>4, NearKept
<1>6. \A d \in Calls : Waits(d) => Waits(d)'
  BY DEF Waits, Sent
<1>7. ASSUME NEW i \in 1 .. Len(request_rx')
      PROVE  /\ call'[request_rx'[i]] \notin {"idle", "sending"}
             /\ \A r \in inflight' : r.owner # request_rx'[i]
             /\ \A j \in 1 .. Len(packet_process') : packet_process'[j].owner # request_rx'[i]
  <2>1. PICK d \in Calls : d = request_rx'[i] /\ Waits(d)'
    BY <1>2, <1>3, <1>6, Elements DEF Queued
  <2> QED BY <2>1 DEF Waits, Sent
<1>8. Queued'
  BY <1>4, <1>7 DEF Queued, Waits, Sent
<1> QED BY <1>1, <1>5, <1>8 DEF Full

\* The client's own requests: auth, subscribe, and the heartbeat, which leaves
\* nothing in flight.
LEMMA FullOwn ==
  ASSUME Typed, Full, NewId, ~lapped', main' # "register",
         UNCHANGED <<callVars, request_rx, requests, packet_process, reg>>,
         NEW r \in Response, r.drawn = request_id_gen, r.owner \notin Calls,
         inflight' \subseteq inflight \cup {r}
  PROVE  Full'
<1>1. /\ request_id_gen' = request_id_gen + 1 /\ request_id_gen \in Nat
      /\ call' = call /\ drawn' = drawn
  BY Elements DEF NewId, callVars
<1>2. Below /\ Near /\ Distinct /\ AllOwned /\ Once /\ Queued /\ Found
  BY DEF Full
<1>3. /\ \A c \in Calls : Started(c) => drawn[c] \in Nat /\ drawn[c] < request_id_gen
      /\ \A s \in inflight : s.drawn \in Nat /\ s.drawn < request_id_gen
      /\ \A i \in 1 .. Len(packet_process) :
           packet_process[i].drawn \in Nat /\ packet_process[i].drawn < request_id_gen
  BY <1>2, Elements DEF Below
<1>4. Below'
  <2>1. \A c \in Calls : Started(c) => drawn[c] < request_id_gen'
    BY <1>1, <1>3
  <2>2. \A s \in inflight' : s.drawn < request_id_gen'
    BY <1>1, <1>3
  <2>3. \A i \in 1 .. Len(packet_process) : packet_process[i].drawn < request_id_gen'
    BY <1>1, <1>3
  <2> QED BY <1>1, <2>1, <2>2, <2>3 DEF Below, Started
<1>5. Near'
  <2>1. \A c \in Calls : call'[c] \in {"sending", "waiting"} => drawn'[c] \in InUse \cup {request_id_gen}
    BY <1>1, InUseHas
  <2>2. \A i \in 1 .. Len(request_rx') : drawn'[request_rx'[i]] \in InUse \cup {request_id_gen}
    BY <1>1, InUseHas
  <2>3. /\ \A s \in inflight' : s.drawn \in InUse \cup {request_id_gen}
        /\ \A i \in 1 .. Len(packet_process') : packet_process'[i].drawn \in InUse \cup {request_id_gen}
    BY InUseHas
  <2>4. InUse' \subseteq InUse \cup {request_id_gen}
    BY <2>1, <2>2, <2>3, InUseOnlyNext
  <2> QED BY <1>2, <2>4, NearDrawn
<1>6. Distinct'
  BY <1>1, <1>2 DEF Distinct, Started
<1>7. AllOwned'
  <2>1. \A c \in Calls : Started(c) => drawn[c] # r.drawn
    BY <1>1, <1>3
  <2>2. Owned(r)
    BY <2>1 DEF Owned
  <2>3. \A s : Owned(s) => Owned(s)'
    BY <1>1 DEF Owned, Sent, Started
  <2>4. \A s \in inflight' : Owned(s)'
    BY <1>2, <2>2, <2>3 DEF AllOwned
  <2>5. \A i \in 1 .. Len(packet_process) : Owned(packet_process[i])'
    BY <1>1, <1>2 DEF AllOwned, Owned, Sent, Started
  <2> QED BY <2>4, <2>5 DEF AllOwned
<1>8. Once'
  <2>1. \A s \in inflight : s.drawn # r.drawn
    BY <1>1, <1>3
  <2>2. \A i \in 1 .. Len(packet_process) : packet_process[i].drawn # r.drawn
    BY <1>1, <1>3
  <2>3. \A s, t \in inflight' : s.drawn = t.drawn => s = t
    BY <1>2, <2>1 DEF Once
  <2>4. \A s \in inflight', i \in 1 .. Len(packet_process) : s.drawn # packet_process[i].drawn
    BY <1>2, <2>2 DEF Once
  <2> QED BY <1>2, <2>3, <2>4 DEF Once
<1>9. Queued'
  <2>1. \A i \in 1 .. Len(request_rx) : request_rx[i] \in Calls
    BY Elements
  <2>2. \A i \in 1 .. Len(request_rx) : \A s \in inflight' : s.owner # request_rx[i]
    BY <1>2, <2>1 DEF Queued, Waits
  <2> QED BY <1>1, <1>2, <2>2 DEF Queued, Waits, Sent
<1>10. Registering'
  BY DEF Registering
<1>11. Found'
  BY <1>1, <1>2 DEF Found, Id
<1> QED BY <1>4, <1>5, <1>6, <1>7, <1>8, <1>9, <1>10, <1>11 DEF Full

LEMMA FullForward ==
  ASSUME Typed, Full, Forward
  PROVE  Full'
<1>1. /\ request_rx \in Seq(Calls) /\ request_rx # << >> /\ request_rx' = Tail(request_rx)
      /\ reg' = Head(request_rx) /\ main' = "register" /\ reg = NoCall
      /\ call' = call /\ drawn' = drawn /\ requests' = requests
      /\ packet_process' = packet_process /\ request_id_gen' = request_id_gen
  BY DEF Forward, AtSelect, Typed, TypeOK, genVars, callVars, taskVars
<1>2. /\ \A i \in 1 .. Len(request_rx') :
           /\ i + 1 \in 1 .. Len(request_rx) /\ i + 1 # 1 /\ request_rx'[i] = request_rx[i + 1]
      /\ 1 \in 1 .. Len(request_rx) /\ reg' = request_rx[1]
      /\ \A i, j \in 1 .. Len(request_rx') : i + 1 = j + 1 => i = j
  BY <1>1, Shrunk
<1>3. Below /\ Near /\ Distinct /\ AllOwned /\ Once /\ Queued /\ Found
  BY DEF Full
<1>4. PICK c \in Calls : c = reg'
  BY <1>2, Elements
<1>5. Waits(c) /\ Sent(c) /\ Started(c)
  BY <1>2, <1>3, <1>4 DEF Queued, Waits, Sent, Started
<1>6. PICK r : r = [drawn |-> drawn[c], owner |-> c, conn |-> conns]
  OBVIOUS
<1>7. inflight' = inflight \cup {r} /\ r.drawn = drawn[c] /\ r.owner = c
  BY <1>4, <1>6 DEF Forward
<1> HIDE <1>6
<1>8. Below'
  BY <1>1, <1>3, <1>5, <1>7 DEF Below, Started
<1>9. Near'
  <2>1. \A d \in Calls : call'[d] \in {"sending", "waiting"} => drawn'[d] \in InUse
    BY <1>1, InUseHas
  <2>2. \A i \in 1 .. Len(request_rx') : drawn'[request_rx'[i]] \in InUse
    BY <1>1, <1>2, InUseHas
  <2>3. r.drawn \in InUse
    BY <1>2, <1>4, <1>7, InUseHas
  <2>4. /\ \A s \in inflight' : s.drawn \in InUse
        /\ \A i \in 1 .. Len(packet_process') : packet_process'[i].drawn \in InUse
    BY <1>1, <1>7, <2>3, InUseHas
  <2>5. InUse' \subseteq InUse
    BY <2>1, <2>2, <2>4, InUseOnlyNext
  <2> QED BY <1>3, <2>5, NearKept
<1>10. Distinct'
  BY <1>1, <1>3 DEF Distinct, Started
<1>11. AllOwned'
  <2>1. Owned(r)
    BY <1>5, <1>7 DEF Owned
  <2>2. \A s : Owned(s) => Owned(s)'
    BY <1>1 DEF Owned, Sent, Started
  <2>3. \A s \in inflight' : Owned(s)'
    BY <1>3, <1>7, <2>1, <2>2 DEF AllOwned
  <2>4. \A i \in 1 .. Len(packet_process) : Owned(packet_process[i])'
    BY <1>1, <1>3 DEF AllOwned, Owned, Sent, Started
  <2> QED BY <1>1, <2>3, <2>4 DEF AllOwned
<1>12. Once'
  <2>1. ASSUME NEW s, Owned(s), s.drawn = drawn[c], s.owner # c
        PROVE  FALSE
    <3>1. CASE s.owner \in Calls
      <4>1. Started(s.owner) /\ drawn[s.owner] = drawn[c]
        BY <2>1, <3>1 DEF Owned, Sent, Started
      <4> QED BY <1>3, <1>5, <2>1, <3>1, <4>1 DEF Distinct
    <3>2. CASE s.owner \notin Calls
      BY <1>5, <2>1, <3>2 DEF Owned
    <3> QED BY <3>1, <3>2
  <2>2. \A s \in inflight : s.drawn # r.drawn
    BY <1>3, <1>5, <1>7, <2>1 DEF AllOwned, Waits
  <2>3. \A i \in 1 .. Len(packet_process) : packet_process[i].drawn # r.drawn
    BY <1>3, <1>5, <1>7, <2>1 DEF AllOwned, Waits
  <2>4. \A s, t \in inflight' : s.drawn = t.drawn => s = t
    BY <1>3, <1>7, <2>2 DEF Once
  <2>5. \A s \in inflight', i \in 1 .. Len(packet_process) : s.drawn # packet_process[i].drawn
    BY <1>3, <1>7, <2>3 DEF Once
  <2> QED BY <1>1, <1>3, <2>4, <2>5 DEF Once
<1>13. Queued'
  <2>1. \A i \in 1 .. Len(request_rx') : request_rx'[i] # c
    BY <1>2, <1>3, <1>4 DEF Queued
  <2>2. ASSUME NEW i \in 1 .. Len(request_rx')
        PROVE  /\ call'[request_rx'[i]] \notin {"idle", "sending"}
               /\ \A s \in inflight' : s.owner # request_rx'[i]
               /\ \A j \in 1 .. Len(packet_process') : packet_process'[j].owner # request_rx'[i]
    BY <1>1, <1>2, <1>3, <1>7, <2>1 DEF Queued, Waits, Sent
  <2>3. \A i, j \in 1 .. Len(request_rx') : request_rx'[i] = request_rx'[j] => i = j
    BY <1>2, <1>3 DEF Queued
  <2> QED BY <2>2, <2>3 DEF Queued, Waits, Sent
<1>14. Registering'
  BY <1>4, <1>7 DEF Registering
<1>15. Found'
  <2>1. \A s \in inflight : s.owner \in Calls => requests[Id(s)] = s.owner
    BY <1>1, <1>3, RequestsAssumption DEF Found
  <2> QED BY <1>1, <1>3, <1>4, <1>7, <2>1 DEF Found, Id
<1> QED BY <1>8, <1>9, <1>10, <1>11, <1>12, <1>13, <1>14, <1>15 DEF Full

LEMMA FullRegister ==
  ASSUME Typed, Full, Register
  PROVE  Full'
<1> DEFINE n == request_id_trim(drawn[reg])
<1>1. PICK r \in inflight :
         /\ r.owner = reg /\ reg \in Calls
         /\ Id(r) = n
         /\ \A s \in inflight : Id(s) = n => s = r
  BY RegisterFree DEF Register
<1>2. n \in Ids
  BY <1>1, Elements
<1>3. /\ \A k \in Ids : k # n => requests'[k] = requests[k]
      /\ requests'[n] = reg
  BY <1>2 DEF Register, Typed, TypeOK
<1>4. \A d \in Calls : \/ call'[d] = call[d]
                       \/ call[d] = "waiting" /\ call'[d] = "failed"
  BY DroppedCalls DEF Register, Typed
<1>5. /\ drawn' = drawn /\ packet_process' = packet_process /\ inflight' = inflight
      /\ request_rx' = request_rx /\ request_id_gen' = request_id_gen /\ main' = "select"
  BY DEF Register, genVars, taskVars
<1>6. Below /\ Near /\ Distinct /\ AllOwned /\ Once /\ Queued /\ Found
  BY DEF Full
<1>7. \A c \in Calls : (Started(c)' <=> Started(c)) /\ (Sent(c) => Sent(c)')
  BY <1>4 DEF Started, Sent
<1>8. drawn[reg] \in Nat /\ request_id_trim(drawn[reg]) = n
  BY <1>1, Elements
<1> HIDE DEF n
<1>9. Below' /\ Distinct' /\ Once'
  BY <1>5, <1>6, <1>7 DEF Below, Distinct, Once
<1>10. Near'
  <2>1. \A d \in Calls : call'[d] \in {"sending", "waiting"} => drawn'[d] \in InUse
    BY <1>4, <1>5, InUseHas
  <2>2. /\ \A i \in 1 .. Len(request_rx') : drawn'[request_rx'[i]] \in InUse
        /\ \A s \in inflight' : s.drawn \in InUse
        /\ \A i \in 1 .. Len(packet_process') : packet_process'[i].drawn \in InUse
    BY <1>5, InUseHas
  <2>3. InUse' \subseteq InUse
    BY <2>1, <2>2, InUseOnlyNext
  <2> QED BY <1>6, <2>3, NearKept
<1>11. AllOwned'
  BY <1>5, <1>6, <1>7 DEF AllOwned, Owned
<1>12. Queued'
  BY <1>5, <1>6, <1>7, Elements DEF Queued, Waits
<1>13. Registering'
  BY <1>5 DEF Registering
<1>14. Found'
  <2>1. \A k \in Ids : requests'[k] # NoCall => request_id_trim(drawn[requests'[k]]) = k
    BY <1>3, <1>6, <1>8 DEF Found
  <2>2. ASSUME NEW s \in inflight, s.owner \in Calls
        PROVE  requests'[Id(s)] = s.owner
    <3>1. Id(s) \in Ids
      BY Elements
    <3>2. CASE Id(s) = n
      BY <1>1, <1>3, <3>2
    <3>3. CASE Id(s) # n
      <4>1. s.owner # reg
        <5> SUFFICES ASSUME s.owner = reg PROVE FALSE
          OBVIOUS
        <5>1. drawn[reg] = s.drawn
          BY <1>1, <1>6 DEF AllOwned, Owned
        <5> QED BY <1>8, <3>3, <5>1 DEF Id
      <4>2. requests[Id(s)] = s.owner
        BY <1>6, <2>2, <4>1 DEF Found
      <4> QED BY <1>3, <3>1, <3>3, <4>2
    <3> QED BY <3>2, <3>3
  <2> QED BY <1>5, <2>1, <2>2 DEF Found, Id
<1> QED BY <1>9, <1>10, <1>11, <1>12, <1>13, <1>14 DEF Full

\* A response leaves the connection, for the callback task's queue or lost.
LEMMA FullQueue ==
  ASSUME Typed, Full, main # "register", main' # "register", NEW r \in inflight,
         UNCHANGED <<request_id_gen, callVars, request_rx, requests, reg>>,
         inflight' = inflight \ {r},
         packet_process' = packet_process \/ packet_process' = Append(packet_process, r)
  PROVE  Full'
<1>1. call' = call /\ drawn' = drawn
  BY DEF callVars
<1>2. Below /\ Near /\ Distinct /\ AllOwned /\ Once /\ Queued /\ Found
  BY DEF Full
<1>3. \A i \in 1 .. Len(packet_process') :
         \/ i \in 1 .. Len(packet_process) /\ packet_process'[i] = packet_process[i]
         \/ i = Len(packet_process) + 1 /\ packet_process'[i] = r
  <2>1. packet_process \in Seq(Response) /\ r \in Response
    BY DEF Typed, TypeOK
  <2>2. CASE packet_process' = packet_process
    BY <2>2
  <2>3. CASE packet_process' = Append(packet_process, r)
    BY <2>1, <2>3, Grown
  <2> QED BY <2>2, <2>3
<1>4. Below'
  BY <1>1, <1>2, <1>3 DEF Below, Started
<1>5. Near'
  <2>1. \A d \in Calls : call'[d] \in {"sending", "waiting"} => drawn'[d] \in InUse
    BY <1>1, InUseHas
  <2>2. /\ \A i \in 1 .. Len(request_rx') : drawn'[request_rx'[i]] \in InUse
        /\ \A s \in inflight' : s.drawn \in InUse
    BY <1>1, InUseHas
  <2>3. \A i \in 1 .. Len(packet_process') : packet_process'[i].drawn \in InUse
    BY <1>3, InUseHas
  <2>4. InUse' \subseteq InUse
    BY <2>1, <2>2, <2>3, InUseOnlyNext
  <2> QED BY <1>2, <2>4, NearKept
<1>6. Distinct'
  BY <1>1, <1>2 DEF Distinct, Started
<1>7. AllOwned'
  <2>1. \A s \in inflight' : Owned(s)'
    BY <1>1, <1>2 DEF AllOwned, Owned, Sent, Started
  <2>2. ASSUME NEW i \in 1 .. Len(packet_process')
        PROVE  Owned(packet_process'[i])
    BY <1>2, <1>3 DEF AllOwned
  <2>3. \A i \in 1 .. Len(packet_process') :
          IF packet_process'[i].owner \in Calls
            THEN /\ call'[packet_process'[i].owner] \notin {"idle", "sending"}
                 /\ drawn'[packet_process'[i].owner] = packet_process'[i].drawn
            ELSE \A c \in Calls : call'[c] # "idle" => drawn'[c] # packet_process'[i].drawn
    BY <1>1, <2>2 DEF Owned, Sent, Started
  <2> QED BY <2>1, <2>3 DEF AllOwned, Owned, Sent, Started
<1>8. Once'
  <2>1. \A s, t \in inflight' : s.drawn = t.drawn => s = t
    BY <1>2 DEF Once
  <2>2. \A s \in inflight', i \in 1 .. Len(packet_process') : s.drawn # packet_process'[i].drawn
    BY <1>2, <1>3 DEF Once
  <2>3. \A i, j \in 1 .. Len(packet_process') : packet_process'[i].drawn = packet_process'[j].drawn => i = j
    BY <1>2, <1>3 DEF Once
  <2> QED BY <2>1, <2>2, <2>3 DEF Once
<1>9. Queued'
  <2>1. ASSUME NEW i \in 1 .. Len(request_rx)
        PROVE  /\ call[request_rx[i]] \notin {"idle", "sending"}
               /\ \A s \in inflight : s.owner # request_rx[i]
               /\ \A j \in 1 .. Len(packet_process) : packet_process[j].owner # request_rx[i]
    BY <1>2 DEF Queued, Waits, Sent
  <2>2. \A i \in 1 .. Len(request_rx) : \A j \in 1 .. Len(packet_process') :
          packet_process'[j].owner # request_rx[i]
    BY <1>3, <2>1
  <2> QED BY <1>1, <1>2, <2>1, <2>2 DEF Queued, Waits, Sent
<1>10. Registering'
  BY DEF Registering
<1>11. Found'
  BY <1>1, <1>2 DEF Found, Id
<1> QED BY <1>4, <1>5, <1>6, <1>7, <1>8, <1>9, <1>10, <1>11 DEF Full

\* The callback task has handled a response.
LEMMA FullHandled ==
  ASSUME Typed, Full, Found',
         packet_process # << >>, packet_process' = Tail(packet_process),
         UNCHANGED <<request_id_gen, drawn, request_rx, inflight, main, reg>>,
         \A d \in Calls : \/ call'[d] = call[d]
                          \/ call[d] = "waiting" /\ call'[d] = "answered"
  PROVE  Full'
<1>1. \A c \in Calls : (Started(c)' <=> Started(c)) /\ (Sent(c) => Sent(c)')
  BY DEF Started, Sent
<1>2. Below /\ Near /\ Distinct /\ AllOwned /\ Once /\ Queued /\ Registering
  BY DEF Full
<1>3. /\ \A i \in 1 .. Len(packet_process') :
           /\ i + 1 \in 1 .. Len(packet_process)
           /\ packet_process'[i] = packet_process[i + 1]
      /\ \A i, j \in 1 .. Len(packet_process') : i + 1 = j + 1 => i = j
  BY QueueShrunk
<1>4. Below'
  BY <1>1, <1>2, <1>3 DEF Below
<1>5. Near'
  <2>1. \A d \in Calls : call'[d] \in {"sending", "waiting"} => drawn'[d] \in InUse
    BY InUseHas
  <2>2. /\ \A i \in 1 .. Len(request_rx') : drawn'[request_rx'[i]] \in InUse
        /\ \A s \in inflight' : s.drawn \in InUse
    BY InUseHas
  <2>3. \A i \in 1 .. Len(packet_process') : packet_process'[i].drawn \in InUse
    BY <1>3, InUseHas
  <2>4. InUse' \subseteq InUse
    BY <2>1, <2>2, <2>3, InUseOnlyNext
  <2> QED BY <1>2, <2>4, NearKept
<1>6. Distinct'
  BY <1>1, <1>2 DEF Distinct
<1>7. AllOwned'
  <2>1. \A s : Owned(s) => Owned(s)'
    BY <1>1 DEF Owned
  <2>2. ASSUME NEW i \in 1 .. Len(packet_process')
        PROVE  \E s : s = packet_process'[i] /\ Owned(s)'
    BY <1>2, <1>3, <2>1 DEF AllOwned
  <2> QED BY <1>2, <2>1, <2>2 DEF AllOwned, Owned
<1>8. Once'
  <2>1. \A s \in inflight, i \in 1 .. Len(packet_process') : s.drawn # packet_process'[i].drawn
    BY <1>2, <1>3 DEF Once
  <2>2. \A i, j \in 1 .. Len(packet_process') : packet_process'[i].drawn = packet_process'[j].drawn => i = j
    BY <1>2, <1>3 DEF Once
  <2> QED BY <1>2, <2>1, <2>2 DEF Once
<1>9. Queued'
  <2>1. \A i \in 1 .. Len(request_rx) : \A j \in 1 .. Len(packet_process') :
          packet_process'[j].owner # request_rx[i]
    BY <1>2, <1>3 DEF Queued, Waits
  <2> QED BY <1>1, <1>2, <2>1, Elements DEF Queued, Waits
<1>10. Registering'
  BY <1>2 DEF Registering
<1> QED BY <1>4, <1>5, <1>6, <1>7, <1>8, <1>9, <1>10 DEF Full

LEMMA FullAnswer ==
  ASSUME Typed, Full, Answer
  PROVE  Full'
<1> DEFINE h == packet_process[1]
<1>1. /\ Id(h) \in Ids
      /\ requests'[Id(h)] = NoCall
      /\ \A n \in Ids : n # Id(h) => requests'[n] = requests[n]
      /\ \A d \in Calls : \/ call'[d] = call[d]
                          \/ call[d] = "waiting" /\ call'[d] = "answered"
  BY AnswerEffect
<1>2. /\ packet_process # << >> /\ packet_process' = Tail(packet_process)
      /\ UNCHANGED <<request_id_gen, drawn, request_rx, inflight, main, reg>>
  BY DEF Answer, genVars, connVars
<1>3. 1 \in 1 .. Len(packet_process)
  BY <1>2, QueueShrunk
<1>4. Near /\ Once /\ Found
  BY DEF Full
<1>5. ASSUME NEW s \in inflight
      PROVE  Id(s) \in Ids /\ Id(s) # Id(h)
  <2>1. s.drawn \in InUse /\ h.drawn \in InUse
    BY <1>3, InUseHas
  <2>2. s.drawn # h.drawn
    BY <1>3, <1>4 DEF Once
  <2>3. Id(s) # Id(h)
    BY <1>4, <2>1, <2>2, SameId DEF Id
  <2> QED BY <2>3, Elements
<1> HIDE DEF h
<1>6. Found'
  <2>1. \A n \in Ids : requests'[n] # NoCall => request_id_trim(drawn[requests'[n]]) = n
    BY <1>1, <1>4 DEF Found
  <2>2. \A s \in inflight : s.owner \in Calls => s.owner = reg \/ requests'[Id(s)] = s.owner
    BY <1>1, <1>4, <1>5 DEF Found
  <2> QED BY <1>2, <2>1, <2>2 DEF Found, Id
<1> QED BY <1>1, <1>2, <1>6, FullHandled

LEMMA FullNoWaiter ==
  ASSUME Typed, Full, NoWaiter
  PROVE  Full'
<1>1. /\ packet_process # << >> /\ packet_process' = Tail(packet_process)
      /\ UNCHANGED <<request_id_gen, drawn, request_rx, inflight, main, reg>>
      /\ requests' = requests /\ call' = call
  BY DEF NoWaiter, genVars, callVars, connVars
<1>2. Found'
  BY <1>1 DEF Full, Found, Id
<1> QED BY <1>1, <1>2, FullHandled

-----------------------------------------------------------------------------
(* The invariant *)

LEMMA InitInv == Init => Inv
<1> SUFFICES ASSUME Init PROVE Inv
  OBVIOUS
<1>1. Typed
  BY InitTyped
<1>2. /\ Len(request_rx) = 0 /\ Len(packet_process) = 0 /\ inflight = {}
      /\ \A n \in Ids : requests[n] = NoCall
      /\ \A c \in Calls : call[c] = "idle"
      /\ main = "down"
  BY DEF Init
<1>3. Core
  BY <1>2 DEF Core, AnswerMatches, QueueIds, QueueOwned, QueueOther, EntrySent
<1>4. InUse \subseteq {}
  BY <1>2, InUseOnly
<1>5. Full
  BY <1>2, <1>4 DEF Full, Below, Near, Distinct, AllOwned, Once, Queued, Registering, Found, Started
<1> QED BY <1>1, <1>3, <1>5 DEF Inv, Typed


LEMMA StepInv ==
  ASSUME Inv, [Next]_vars
  PROVE  Inv'
<1>1. Typed
  BY DEF Inv, Typed
<1>2. CASE UNCHANGED vars
  <2> USE <1>2 DEF vars, genVars, callVars, connVars, taskVars
  <2>1. TypeOK' /\ Numbered'
    BY DEF Inv, TypeOK, Numbered
  <2>2. Core => Core'
    BY DEF Core, AnswerMatches, QueueIds, QueueOwned, QueueOther, EntrySent, Sent, Id
  <2>3. InUse' = InUse
    BY DEF InUse
  <2>4. Full => Full'
    BY <2>3 DEF Full, Below, Near, Distinct, AllOwned, Owned, Once, Queued, Waits, Registering,
                Found, Started, Sent, Id
  <2>5. Fresh' => Fresh
    BY DEF Fresh
  <2> QED BY <2>1, <2>2, <2>4, <2>5 DEF Inv
<1>3. CASE Next
  <2>1. Typed'
    BY <1>1, <1>3, TypedStep
  <2> SUFFICES ASSUME conns' <= 1, ~lapped'
               PROVE  Core' /\ (Fresh' => Full')
    BY <2>1 DEF Inv, Typed
  <2>2. ASSUME conns <= 1, ~lapped
        PROVE  Core /\ (Fresh => Full)
    BY <2>2 DEF Inv
  <2>3. ASSUME NEW c \in Calls, StartCall(c)
        PROVE  Core' /\ (Fresh' => Full')
    <3>1. conns' = conns /\ main' = main /\ (lapped => lapped')
      BY <2>3 DEF StartCall, NewId, connVars
    <3>2. Core /\ (Fresh => Full) /\ (Fresh' => Fresh)
      BY <2>2, <3>1 DEF Fresh
    <3>3. Core'
      <4>1. /\ requests' = requests /\ answer' = answer /\ packet_process' = packet_process
            /\ call[c] = "idle" /\ call'[c] = "sending"
            /\ \A d \in Calls : d # c => call'[d] = call[d]
        BY <1>1, <2>3 DEF StartCall, taskVars, Typed, TypeOK
      <4> QED BY <1>1, <3>2, <4>1, CoreFrame DEF Sent
    <3> QED BY <1>1, <2>3, <3>2, <3>3, FullStart
  <2>4. ASSUME NEW c \in Calls, EnqueueCall(c)
        PROVE  Core' /\ (Fresh' => Full')
    <3>1. conns' = conns /\ main' = main /\ lapped' = lapped
      BY <2>4 DEF EnqueueCall, connVars, genVars
    <3>2. Core /\ (Fresh => Full) /\ (Fresh' => Fresh)
      BY <2>2, <3>1 DEF Fresh
    <3>3. Core'
      <4>1. /\ requests' = requests /\ answer' = answer /\ packet_process' = packet_process
            /\ call[c] = "sending" /\ call'[c] = "waiting"
            /\ \A d \in Calls : d # c => call'[d] = call[d]
        BY <1>1, <2>4 DEF EnqueueCall, taskVars, Typed, TypeOK
      <4> QED BY <1>1, <3>2, <4>1, CoreFrame DEF Sent
    <3> QED BY <1>1, <2>4, <3>2, <3>3, FullEnqueue
  <2>5. ASSUME UNCHANGED <<request_id_gen, lapped, answer, drawn, requests, main, reg, conns,
                           inflight, packet_process>>,
               \A d \in Calls : \/ call'[d] = call[d]
                                \/ call[d] \in {"sending", "waiting"} /\ call'[d] = "failed",
               request_rx' = request_rx \/ (request_rx # << >> /\ request_rx' = Tail(request_rx))
        PROVE  Core' /\ (Fresh' => Full')
    <3>1. Core /\ (Fresh => Full) /\ (Fresh' => Fresh)
      BY <2>2, <2>5 DEF Fresh
    <3>2. Core'
      BY <1>1, <2>5, <3>1, CoreFrame DEF Sent
    <3>3. Full => Full'
      BY <1>1, <2>5, FullFails
    <3> QED BY <3>1, <3>2, <3>3
  <2>6. ASSUME NEW c \in Calls, CallTimeout(c)
        PROVE  Core' /\ (Fresh' => Full')
    <3>1. \A d \in Calls : \/ call'[d] = call[d]
                           \/ call[d] \in {"sending", "waiting"} /\ call'[d] = "failed"
      BY <1>1, <2>6 DEF CallTimeout, Typed, TypeOK
    <3>2. /\ UNCHANGED <<request_id_gen, lapped, answer, drawn, requests, main, reg, conns,
                         inflight, packet_process>>
          /\ request_rx' = request_rx
      BY <2>6 DEF CallTimeout, genVars, connVars, taskVars
    <3>3. request_rx' = request_rx \/ (request_rx # << >> /\ request_rx' = Tail(request_rx))
      BY <3>2
    <3> QED BY <2>5, <3>1, <3>2, <3>3, Zenon
  <2>7. CASE ForwardFails
    <3>1. \A d \in Calls : \/ call'[d] = call[d]
                           \/ call[d] \in {"sending", "waiting"} /\ call'[d] = "failed"
      BY <1>1, <2>7, DroppedCalls DEF ForwardFails, Typed
    <3>2. /\ UNCHANGED <<request_id_gen, lapped, answer, drawn, requests, main, reg, conns,
                         inflight, packet_process>>
          /\ request_rx # << >> /\ request_rx' = Tail(request_rx)
      BY <2>7 DEF ForwardFails, genVars, connVars, taskVars
    <3> QED BY <2>5, <3>1, <3>2
  <2>8. ASSUME conns <= 1, ~lapped, UNCHANGED <<callVars, requests, packet_process>>
        PROVE  Core'
    BY <1>1, <2>2, <2>8, CoreFrame DEF callVars, Sent
  <2>9. ASSUME conns <= 1, Fresh, NewId, main' # "register",
               UNCHANGED <<callVars, request_rx, requests, packet_process, reg>>,
               NEW o \in {"auth", "sub"}, NEW k \in 0 .. MaxConns,
               inflight' \subseteq inflight \cup {[drawn |-> request_id_gen, owner |-> o, conn |-> k]}
        PROVE  Core' /\ (Fresh' => Full')
    <3>1. ~lapped
      BY <2>9 DEF NewId
    <3>2. PICK r : r = [drawn |-> request_id_gen, owner |-> o, conn |-> k]
      OBVIOUS
    <3>3. o \in Owner /\ o \notin Calls /\ request_id_gen \in 0 .. MaxIds
      BY <1>1, RequestsAssumption DEF Owner, Typed, TypeOK
    <3>4. r \in Response /\ r.drawn = request_id_gen /\ r.owner \notin Calls
      BY <3>2, <3>3, NewRequest
    <3>5. inflight' \subseteq inflight \cup {r}
      BY <2>9, <3>2
    <3>6. Full
      BY <2>2, <2>9, <3>1
    <3> HIDE <3>2
    <3>7. Full'
      BY <1>1, <2>9, <3>4, <3>5, <3>6, FullOwn
    <3>8. Core'
      BY <2>8, <2>9, <3>1
    <3> QED BY <3>7, <3>8
  <2>10. CASE Connect
    <3>1. conns \in Nat /\ conns + 1 <= 1 /\ conns' = conns + 1
      BY <1>1, <2>10, RequestsAssumption DEF Connect, Typed, TypeOK
    <3>2. conns = 0 /\ conns <= 1
      BY <3>1
    <3>3. Fresh
      BY <3>2 DEF Fresh
    <3>4. conns + 1 \in 0 .. MaxConns
      BY <1>1, <2>10, RequestsAssumption DEF Connect, Typed, TypeOK
    <3>5. /\ NewId /\ main' # "register"
          /\ UNCHANGED <<callVars, request_rx, requests, packet_process, reg>>
          /\ inflight' \subseteq inflight \cup {[drawn |-> request_id_gen, owner |-> "auth",
                                                 conn |-> conns + 1]}
      BY <2>10 DEF Connect, taskVars
    <3> QED BY <2>9, <3>2, <3>3, <3>4, <3>5
  <2>11. CASE Heartbeat
    <3>1. /\ NewId /\ main' # "register"
          /\ UNCHANGED <<callVars, request_rx, requests, packet_process, reg>>
          /\ inflight' \subseteq inflight \cup {[drawn |-> request_id_gen, owner |-> "sub",
                                                 conn |-> conns]}
      BY <2>11 DEF Heartbeat, AtSelect, connVars, taskVars
    <3>2. conns' = conns /\ conns \in 0 .. MaxConns /\ Fresh
      BY <1>1, <2>11 DEF Heartbeat, AtSelect, connVars, Fresh, Typed, TypeOK
    <3> QED BY <2>9, <3>1, <3>2
  <2>12. CASE Subscribe
    <3>1. /\ NewId /\ main' # "register"
          /\ UNCHANGED <<callVars, request_rx, requests, packet_process, reg>>
          /\ inflight' \subseteq inflight \cup {[drawn |-> request_id_gen, owner |-> "sub",
                                                 conn |-> conns]}
      BY <2>12 DEF Subscribe, taskVars
    <3>2. conns' = conns /\ conns \in 0 .. MaxConns /\ Fresh
      BY <1>1, <2>12 DEF Subscribe, Fresh, Typed, TypeOK
    <3> QED BY <2>9, <3>1, <3>2
  <2>13. CASE Forward
    <3>1. /\ conns' = conns /\ lapped' = lapped /\ main = "select"
          /\ UNCHANGED <<callVars, requests, packet_process>>
      BY <2>13 DEF Forward, AtSelect, genVars, taskVars
    <3>2. Full
      BY <2>2, <3>1 DEF Fresh
    <3>3. Core'
      BY <2>8, <3>1
    <3> QED BY <1>1, <2>13, <3>2, <3>3, FullForward
  <2>14. CASE Register
    <3>1. conns' = conns /\ lapped' = lapped /\ main = "register"
      BY <2>14 DEF Register, genVars
    <3>2. Core /\ Full
      BY <2>2, <3>1 DEF Fresh
    <3> QED BY <1>1, <2>14, <3>2, CoreRegister, FullRegister
  <2>15. ASSUME NEW r \in inflight, main = "select", main' # "register",
                UNCHANGED <<request_id_gen, lapped, callVars, request_rx, requests, reg, conns>>,
                inflight' = inflight \ {r},
                packet_process' = packet_process \/ packet_process' = Append(packet_process, r)
         PROVE  Core' /\ (Fresh' => Full')
    <3>1. Core /\ Full
      BY <2>2, <2>15 DEF Fresh
    <3>2. Full'
      BY <1>1, <2>15, <3>1, FullQueue
    <3>3. CASE packet_process' = packet_process
      BY <2>2, <2>8, <2>15, <3>2, <3>3
    <3>4. CASE packet_process' = Append(packet_process, r)
      <4>1. Core'
        BY <1>1, <2>15, <3>1, <3>4, CoreQueue
      <4> QED BY <3>2, <4>1
    <3> QED BY <2>15, <3>3, <3>4
  <2>16. ASSUME NEW r \in inflight, RecvAuth(r)
         PROVE  Core' /\ (Fresh' => Full')
    BY <2>15, <2>16 DEF RecvAuth, AtSelect, AuthQueued, genVars
  <2>17. ASSUME NEW r \in inflight, RecvResponse(r)
         PROVE  Core' /\ (Fresh' => Full')
    BY <2>15, <2>17 DEF RecvResponse, AtSelect, TryQueued, genVars
  <2>18. ASSUME main' # "register", main # "register" \/ main' = main,
                main # "down",
                UNCHANGED <<request_id_gen, lapped, callVars, request_rx, requests, reg, conns,
                            inflight, packet_process>>
         PROVE  Core' /\ (Fresh' => Full')
    <3>1. Core /\ Full
      BY <2>2, <2>18 DEF Fresh
    <3>2. Core'
      BY <2>2, <2>8, <2>18
    <3>3. call' = call /\ drawn' = drawn
      BY <2>18 DEF callVars
    <3>4. InUse' = InUse
      BY <2>18, <3>3 DEF InUse
    <3>5. Full'
      BY <2>18, <3>1, <3>3, <3>4
        DEF Full, Below, Near, Distinct, AllOwned, Owned, Once, Queued, Waits, Registering,
            Found, Started, Sent, Id
    <3> QED BY <3>2, <3>5
  <2>19. CASE Subscribed
    BY <2>18, <2>19 DEF Subscribed, genVars, taskVars
  <2>20. CASE Disconnect
    <3>1. conns' = conns /\ lapped' = lapped /\ conns # 0 /\ main' = "down"
      BY <1>1, <2>20 DEF Disconnect, AtSelect, Typed, Numbered
    <3>2. Core'
      BY <2>8, <2>20, <3>1 DEF Disconnect, taskVars
    <3> QED BY <3>1, <3>2 DEF Fresh
  <2>21. CASE TransportDies
    <3>1. /\ main' = main
          /\ UNCHANGED <<request_id_gen, lapped, callVars, request_rx, requests, reg, conns,
                         inflight, packet_process>>
      BY <2>21 DEF TransportDies, genVars, taskVars
    <3>2. Core /\ (Fresh => Full) /\ (Fresh' => Fresh)
      BY <2>2, <3>1 DEF Fresh
    <3>3. Core'
      BY <2>8, <3>1
    <3>4. /\ \A d \in Calls : \/ call'[d] = call[d]
                              \/ call[d] \in {"sending", "waiting"} /\ call'[d] = "failed"
          /\ drawn' = drawn
      BY <3>1 DEF callVars
    <3>5. request_rx' = request_rx \/ (request_rx # << >> /\ request_rx' = Tail(request_rx))
      BY <3>1
    <3>6. UNCHANGED <<request_id_gen, drawn, inflight, packet_process, requests, main, reg>>
      BY <3>1, <3>4
    <3>7. Full => Full'
      BY <1>1, <3>4, <3>5, <3>6, FullFails, Zenon
    <3> QED BY <3>2, <3>3, <3>7
  <2>22. CASE Answer
    <3>1. conns' = conns /\ lapped' = lapped /\ main' = main
      BY <2>22 DEF Answer, genVars, connVars
    <3>2. Core /\ (Fresh => Full) /\ (Fresh' => Fresh)
      BY <2>2, <3>1 DEF Fresh
    <3> QED BY <1>1, <2>22, <3>2, CoreAnswer, FullAnswer
  <2>23. CASE NoWaiter
    <3>1. conns' = conns /\ lapped' = lapped /\ main' = main
      BY <2>23 DEF NoWaiter, genVars, connVars
    <3>2. Core /\ (Fresh => Full) /\ (Fresh' => Fresh)
      BY <2>2, <3>1 DEF Fresh
    <3> QED BY <1>1, <2>23, <3>2, CoreNoWaiter, FullNoWaiter
  <2> QED BY <1>3, NextCases, <2>3, <2>4, <2>6, <2>7, <2>10, <2>11, <2>12, <2>13, <2>14,
             <2>16, <2>17, <2>19, <2>20, <2>21, <2>22, <2>23
<1> QED BY <1>2, <1>3

-----------------------------------------------------------------------------
(* The theorems *)

\* Every variable keeps its type, whatever happens to the connections; the
\* callback task's queue keeps to process_chan_size.
THEOREM TypeCorrect == Spec => []TypeOK
<1>1. Typed /\ [Next]_vars => Typed'
  <2> SUFFICES ASSUME Typed, [Next]_vars PROVE Typed'
    OBVIOUS
  <2>1. CASE Next
    BY <2>1, TypedStep
  <2>2. CASE UNCHANGED vars
    BY <2>2 DEF vars, genVars, callVars, connVars, taskVars, Typed, TypeOK, Numbered
  <2> QED BY <2>1, <2>2
<1>2. Typed => TypeOK
  BY DEF Typed
<1> QED BY InitTyped, <1>1, <1>2, PTL DEF Spec

LEMMA Invariance == Spec => []Inv
BY InitInv, StepInv, PTL DEF Spec

\* While the client is on its first connection, and after it, a caller is only
\* ever given the response to its own request, as long as the ids have not come
\* round to one still in use (client.rs:167, 312-318).
THEOREM IdsSufficeHolds == Spec => [](conns <= 1 => IdsSuffice)
<1>1. Inv => (conns <= 1 => IdsSuffice)
  BY DEF Inv, Core, IdsSuffice
<1> QED BY Invariance, <1>1, PTL

\* On the first connection a response in the callback task's queue finds its
\* caller's entry, although the packet was sent before the entry was made
\* (client.rs:312-318).
THEOREM WaiterRegisteredHolds == Spec => [](conns <= 1 => WaiterRegistered)
<1>1. Inv => (conns <= 1 => WaiterRegistered)
  BY DEF Inv, Core, QueueOwned, WaiterRegistered
<1> QED BY Invariance, <1>1, PTL
=============================================================================
