-------------------------- MODULE ClientRequests --------------------------
(***************************************************************************)
(* How the link client matches responses to send_request calls             *)
(* (link/src/client.rs): the shared counter request_id_gen, the requests   *)
(* map from request ids to the callers' oneshot senders, the main loop     *)
(* that forwards requests and receives responses, and the callback task    *)
(* that hands a response to the caller whose id it carries.                *)
(*                                                                         *)
(* The transport is reduced to what matters here: the requests in flight   *)
(* on the current connection, of which the server answers any, in any      *)
(* order, each at most once; what was in flight dies with the connection,  *)
(* while request_id_gen, the requests map, the request channel and the     *)
(* callback task's queue live as long as the client.                       *)
(***************************************************************************)
EXTENDS Naturals, Sequences, FiniteSets

CONSTANTS Calls,      \* the send_request calls users make
          NoCall,     \* not a call
          IdSpace,    \* the number of request ids: 2^24 in the code
          SendChan,   \* send_chan_size: capacity of the request channel
          ProcChan,   \* process_chan_size: capacity of the callback task's queue
          Subscribes, \* number of conf.subscribes
          MaxIds,     \* bound: request_id_gen stays below it
          MaxConns    \* bound: connections made

ASSUME RequestsAssumption ==
    /\ NoCall \notin Calls
    /\ "auth" \notin Calls /\ "sub" \notin Calls
    /\ IdSpace \in Nat \ {0}
    /\ SendChan \in Nat \ {0}
    /\ ProcChan \in Nat \ {0}
    /\ Subscribes \in Nat
    /\ MaxIds \in Nat \ {0}
    /\ MaxConns \in Nat

VARIABLES
  request_id_gen,
  call,       \* each call's stage
  answer,     \* the request whose response each call was given
  drawn,      \* what each call drew from request_id_gen
  request_rx, \* the calls whose packets wait for the main loop
  requests,   \* the map: ids to calls, NoCall where there is no entry
  main,       \* the main loop: "select", "register", "subscribe", "down"
  reg,        \* the call being registered
  subs,       \* subscribe requests still to send after auth
  alive,      \* the transport still takes packets
  conns,      \* connections made so far
  inflight,   \* the requests of this connection that may still be answered
  packet_process, \* the callback task's queue of responses
  connected,  \* connections for which on_connected has been called
  lapped      \* history: the ids have come round to one that was still in use

callVars == <<call, answer, drawn>>
connVars == <<main, reg, subs, alive, conns, inflight>>
taskVars == <<packet_process, connected>>
genVars  == <<request_id_gen, lapped>>
vars == <<genVars, callVars, request_rx, requests, connVars, taskVars>>

Ids == 0 .. IdSpace - 1
Owner == Calls \cup {"auth", "sub"}

\* A response names the request it answers (the model's knowledge, not the
\* client's); on the wire it carries only the id.
Response == [drawn : 0 .. MaxIds, owner : Owner, conn : 0 .. MaxConns]

\* Mutant of request_id_trim: a bit too few is kept.
request_id_trim_Short(n) == n % (IdSpace \div 2)

request_id_trim(n) == n % IdSpace

Id(r) == request_id_trim(r.drawn)

\* What the requests that can still be answered have drawn.
InUse == {drawn[c] : c \in {d \in Calls : call[d] \in {"sending", "waiting"}}}
         \cup {drawn[request_rx[i]] : i \in 1 .. Len(request_rx)}
         \cup {r.drawn : r \in inflight}
         \cup {packet_process[i].drawn : i \in 1 .. Len(packet_process)}

\* fetch_add(1)
NewId == /\ request_id_gen < MaxIds
         /\ request_id_gen' = request_id_gen + 1
         /\ lapped' = (lapped \/ \E n \in InUse : n + IdSpace <= request_id_gen)

Init ==
    /\ request_id_gen = 1
    /\ call = [c \in Calls |-> "idle"]
    /\ answer = [c \in Calls |-> NoCall]
    /\ drawn = [c \in Calls |-> 0]
    /\ request_rx = << >>
    /\ requests = [n \in Ids |-> NoCall]
    /\ main = "down"
    /\ reg = NoCall
    /\ subs = 0
    /\ alive = FALSE
    /\ conns = 0
    /\ inflight = {}
    /\ packet_process = << >>
    /\ connected = {}
    /\ lapped = FALSE

-----------------------------------------------------------------------------
(* send_request, in the caller's task *)

\* The id is taken and the packet built ...
StartCall(c) ==
    /\ call[c] = "idle"
    /\ NewId
    /\ drawn' = [drawn EXCEPT ![c] = request_id_gen]
    /\ call' = [call EXCEPT ![c] = "sending"]
    /\ UNCHANGED <<answer, request_rx, requests, connVars, taskVars>>

\* ... and sent to the main loop once the channel has room.
EnqueueCall(c) ==
    /\ call[c] = "sending"
    /\ Len(request_rx) < SendChan
    /\ request_rx' = Append(request_rx, c)
    /\ call' = [call EXCEPT ![c] = "waiting"]
    /\ UNCHANGED <<genVars, answer, drawn, requests, connVars, taskVars>>

\* timeout_config.request or .response runs out: the caller gives up, but its
\* packet and its entry in requests stay where they are.
CallTimeout(c) ==
    /\ call[c] \in {"sending", "waiting"}
    /\ call' = [call EXCEPT ![c] = "failed"]
    /\ UNCHANGED <<genVars, answer, drawn, request_rx, requests, connVars,
                   taskVars>>

\* A oneshot sender is dropped: the caller, if still there, gets an error.
Dropped(c) == IF c # NoCall /\ call[c] = "waiting"
                THEN [call EXCEPT ![c] = "failed"]
                ELSE call

-----------------------------------------------------------------------------
(* The main loop *)

\* A connection is made; its auth packet takes an id and is sent first.
Connect ==
    /\ main = "down"
    /\ conns < MaxConns
    /\ NewId
    /\ main' = "select"
    /\ alive' = TRUE
    /\ conns' = conns + 1
    /\ inflight' = {[drawn |-> request_id_gen, owner |-> "auth",
                     conn |-> conns + 1]}
    /\ UNCHANGED <<callVars, request_rx, requests, reg, subs, taskVars>>

\* Mutant of AtSelect: registration runs in a task of its own.
AtSelect_Spawned == main \in {"select", "register"}

\* The main loop is in select!, not inside one of its arms.
AtSelect == main = "select"

\* A heartbeat takes an id too; its response is dealt with in the main loop.
Heartbeat ==
    /\ AtSelect
    /\ alive
    /\ NewId
    /\ UNCHANGED <<callVars, request_rx, requests, connVars, taskVars>>

\* A user's packet goes to the transport before its oneshot is registered.
Forward ==
    /\ AtSelect
    /\ alive
    /\ request_rx # << >>
    /\ reg' = Head(request_rx)
    /\ request_rx' = Tail(request_rx)
    /\ inflight' = inflight \cup {[drawn |-> drawn[reg'], owner |-> reg', conn |-> conns]}
    /\ main' = "register"
    /\ UNCHANGED <<genVars, callVars, requests, subs, alive, conns,
                   taskVars>>

\* requests.insert; an older entry of the same id is dropped.  The timeout around
\* it cannot fire: no holder of the mutex awaits anything (client.rs:167-170), so
\* that the lock is free within a poll.
Register ==
    /\ main = "register"
    /\ LET n == request_id_trim(drawn[reg])
       IN  /\ call' = Dropped(requests[n])
           /\ requests' = [requests EXCEPT ![n] = reg]
    /\ reg' = NoCall
    /\ main' = "select"
    /\ UNCHANGED <<genVars, answer, drawn, request_rx, subs, alive, conns,
                   inflight, taskVars>>

\* The transport no longer takes packets: the oneshot is dropped with the packet.
ForwardFails ==
    /\ AtSelect
    /\ ~alive
    /\ request_rx # << >>
    /\ call' = Dropped(Head(request_rx))
    /\ request_rx' = Tail(request_rx)
    /\ UNCHANGED <<genVars, answer, drawn, requests, connVars, taskVars>>

\* Mutant of TryQueued: the queue has no bound.
TryQueued_Unbounded(r) == packet_process' = Append(packet_process, r)

\* packet_process_tx.try_send(..): a response that finds the queue full is lost.
TryQueued(r) == packet_process' = IF Len(packet_process) < ProcChan
                                    THEN Append(packet_process, r)
                                    ELSE packet_process

\* Mutant of AuthQueued: the auth response is tried, not awaited.
AuthQueued_Tried(r) == TryQueued(r)

\* packet_process_tx.send(..).await
AuthQueued(r) == /\ Len(packet_process) < ProcChan
                 /\ packet_process' = Append(packet_process, r)

\* Auth succeeded: on to the callback task, then the subscribe requests.
RecvAuth(r) ==
    /\ AtSelect
    /\ r \in inflight /\ r.owner = "auth"
    /\ inflight' = inflight \ {r}
    /\ AuthQueued(r)
    /\ subs' = Subscribes
    /\ main' = "subscribe"
    /\ UNCHANGED <<genVars, callVars, request_rx, requests, reg, alive,
                   conns, connected>>

Subscribe ==
    /\ main = "subscribe"
    /\ alive
    /\ subs > 0
    /\ NewId
    /\ subs' = subs - 1
    /\ inflight' = inflight \cup {[drawn |-> request_id_gen,
                                   owner |-> "sub", conn |-> conns]}
    /\ UNCHANGED <<callVars, request_rx, requests, main, reg, alive, conns,
                   taskVars>>

Subscribed ==
    /\ main = "subscribe"
    /\ subs = 0
    /\ main' = "select"
    /\ UNCHANGED <<genVars, callVars, request_rx, requests, reg, subs,
                   alive, conns, inflight, taskVars>>

\* Any other response.
RecvResponse(r) ==
    /\ AtSelect
    /\ r \in inflight /\ r.owner # "auth"
    /\ inflight' = inflight \ {r}
    /\ TryQueued(r)
    /\ UNCHANGED <<genVars, callVars, request_rx, requests, main, reg,
                   subs, alive, conns, connected>>

\* The transport's loops end, before the main loop has noticed.
TransportDies ==
    /\ alive
    /\ alive' = FALSE
    /\ UNCHANGED <<genVars, callVars, request_rx, requests, main, reg,
                   subs, conns, inflight, taskVars>>

\* The main loop leaves its data loop: a timeout, an error or a closed channel.
\* request_id_gen starts over; requests and the callback queue stay.
Disconnect ==
    /\ AtSelect \/ (main = "subscribe" /\ ~alive)
    /\ main' = "down"
    /\ alive' = FALSE
    /\ subs' = 0
    /\ inflight' = {}
    /\ request_id_gen' = 1
    /\ UNCHANGED <<lapped, callVars, request_rx, requests, reg, conns, taskVars>>

-----------------------------------------------------------------------------
(* The callback task *)

\* A response whose id has an entry goes to that caller, if it still waits.
Answer ==
    /\ packet_process # << >>
    /\ LET r == Head(packet_process)
           c == requests[Id(r)]
       IN  /\ c # NoCall
           /\ requests' = [requests EXCEPT ![Id(r)] = NoCall]
           /\ IF call[c] = "waiting"
                THEN /\ call' = [call EXCEPT ![c] = "answered"]
                     /\ answer' = [answer EXCEPT ![c] = r.owner]
                ELSE UNCHANGED <<call, answer>>
    /\ packet_process' = Tail(packet_process)
    /\ UNCHANGED <<genVars, drawn, request_rx, connVars, connected>>

\* Otherwise an auth response means connected; anything else is on_response.
NoWaiter ==
    /\ packet_process # << >>
    /\ LET r == Head(packet_process)
       IN  /\ requests[Id(r)] = NoCall
           /\ connected' = IF r.owner = "auth" THEN connected \cup {r.conn} ELSE connected
    /\ packet_process' = Tail(packet_process)
    /\ UNCHANGED <<genVars, callVars, request_rx, requests, connVars>>

-----------------------------------------------------------------------------
send_request == \E c \in Calls : StartCall(c) \/ EnqueueCall(c) \/ CallTimeout(c)

\* What the main loop does once it has received or chosen something.
link_task == \/ Connect \/ Heartbeat \/ Forward \/ Register \/ ForwardFails
             \/ (\E r \in inflight : RecvAuth(r) \/ RecvResponse(r))
             \/ Subscribe \/ Subscribed \/ Disconnect

callback_task == Answer \/ NoWaiter

Next == send_request \/ link_task \/ callback_task \/ TransportDies

\* The callback task keeps running (on_connected, on_response and on_request
\* return); nothing else is assumed.
Spec == Init /\ [][Next]_vars /\ WF_vars(callback_task)

-----------------------------------------------------------------------------
(* Properties *)

TypeOK ==
    /\ request_id_gen \in 0 .. MaxIds
    /\ call \in [Calls -> {"idle", "sending", "waiting", "answered", "failed"}]
    /\ answer \in [Calls -> Owner \cup {NoCall}]
    /\ drawn \in [Calls -> 0 .. MaxIds]
    /\ request_rx \in Seq(Calls)
    /\ requests \in [Ids -> Calls \cup {NoCall}]
    /\ main \in {"down", "select", "register", "subscribe"}
    /\ reg \in Calls \cup {NoCall}
    /\ (main = "register") <=> (reg # NoCall)
    /\ subs \in 0 .. Subscribes
    /\ alive \in BOOLEAN
    /\ conns \in 0 .. MaxConns
    /\ inflight \subseteq Response
    /\ packet_process \in Seq(Response) /\ Len(packet_process) <= ProcChan
    /\ connected \subseteq 1 .. MaxConns
    /\ lapped \in BOOLEAN

\* client.rs:314 : a caller gets the response to its own request, never another's:
\* what the oneshot saved for the response is for.
AnswerMatches == \A c \in Calls : call[c] = "answered" => answer[c] = c

\* The 24-bit ids suffice: on one connection a caller gets the response to its
\* own request as long as the ids do not come round to one still in use.  The
\* entries that timed out calls leave behind in the map do no harm, even when
\* their ids are given out again (packets.rs:18, client.rs:167, 318).
IdsSuffice == ~lapped => AnswerMatches

\* A response never overtakes the registration of its call: the packet is
\* sent before requests.insert (client.rs:312-318), yet by the time a response
\* is in the callback task's queue its caller can be found.
WaiterRegistered ==
    ~lapped => \A i \in 1 .. Len(packet_process) :
      LET r == packet_process[i]
      IN  r.owner \in Calls => requests[Id(r)] = r.owner

\* A successful auth always leads to on_connected (client.rs:180), whatever
\* user responses and subscribe responses are handled around it.
ConnectedIsReported ==
    \A n \in 1 .. MaxConns :
      (main = "subscribe" /\ conns = n) ~> (n \in connected \/ lapped)

\* A response that was not lost to a full queue reaches a caller that waits.
AnswerIsDelivered ==
    \A c \in Calls :
      (\E i \in 1 .. Len(packet_process) : packet_process[i].owner = c)
        ~> (call[c] # "waiting" \/ lapped)
=============================================================================
