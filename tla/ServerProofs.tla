--------------------------- MODULE ServerProofs ---------------------------
(***************************************************************************)
(* Proofs about the connection management of the server, for any number of *)
(* connections, addresses and names and for every channel size.            *)
(*                                                                         *)
(* RegisteredIsAccepted is not inductive: a name reaches the clients map   *)
(* long after on_auth has judged it, by way of the main loop and of the    *)
(* channel to the manager.  Registry therefore accounts for a name at each *)
(* place it passes through.                                                *)
(*                                                                         *)
(* OrderedSends and NoSilentGap speak of what on_send was given and rest   *)
(* on what it will be given: SendInv follows a packet from the broadcast   *)
(* channel through the running on_send to the history (InLine, Gapless),   *)
(* says that a registered connection has every packet up to the newest     *)
(* (Current), and that one that authenticates once enters the map once,    *)
(* before its first packet (RegisteredOnce): an entry that came back later *)
(* would skip packets untold.                                              *)
(*                                                                         *)
(* CloseHasRoom counts: Accounted follows each successful auth to the exit *)
(* signal it may become (main loop, New, map, manager, exit channel).      *)
(***************************************************************************)
EXTENDS Server, Integers, FiniteSetTheorems, SequenceTheorems, TLAPS

MainPlace == {"none", "select", "pong", "auth", "new", "queue", "disconnect", "exit", "done"}

\* The part of TypeOK on which the registry rests.
RegistryType ==
    /\ clients \in [Key -> Conns \cup {NoConn}]
    /\ new_client \in Seq(Signal)
    /\ main \in [Conns -> MainPlace]
    /\ client_name \in [Conns -> Names \cup {WaitAuth}]
    /\ auths \in [Conns -> Seq([name : Names, ok : BOOLEAN])]

\* A main loop between RecvAuth and QueueAuth has a name of the peer's, ...
NameTaken == \A c \in Conns : main[c] \in {"auth", "new"} => client_name[c] \in Names

\* ... one about to send New has an accepted one, ...
NewIsAccepted == \A c \in Conns : main[c] = "new" => client_name[c] \in Accepted(c)

\* ... and so has every New on its way to the manager.
GoodNew(s) == s.type = "New" => s.key[1] \in Accepted(s.conn) /\ s.key[2] = Addr[s.conn]

SignalsAccepted == \A i \in 1 .. Len(new_client) : GoodNew(new_client[i])

Registry == RegistryType /\ NameTaken /\ NewIsAccepted /\ SignalsAccepted /\ RegisteredIsAccepted

regVars == <<clients, new_client, main, client_name, auths>>

-----------------------------------------------------------------------------
\* An accepted name stays accepted: auths only grows (server.rs:394).
LEMMA AcceptedGrows ==
  ASSUME RegistryType, NEW c \in Conns, NEW ok \in BOOLEAN, client_name[c] \in Names,
         auths' = [auths EXCEPT ![c] = Append(@, [name |-> client_name[c], ok |-> ok])]
  PROVE  /\ auths' \in [Conns -> Seq([name : Names, ok : BOOLEAN])]
         /\ \A d \in Conns : Accepted(d) \subseteq Accepted(d)'
         /\ ok => client_name[c] \in Accepted(c)'
<1> DEFINE e == [name |-> client_name[c], ok |-> ok]
<1>1. /\ auths[c] \in Seq([name : Names, ok : BOOLEAN])
      /\ e \in [name : Names, ok : BOOLEAN]
  BY DEF RegistryType
<1>2. /\ Append(auths[c], e) \in Seq([name : Names, ok : BOOLEAN])
      /\ Len(Append(auths[c], e)) = Len(auths[c]) + 1
      /\ \A i \in 1 .. Len(auths[c]) : Append(auths[c], e)[i] = auths[c][i]
      /\ Append(auths[c], e)[Len(auths[c]) + 1] = e
      /\ Len(auths[c]) \in Nat
  BY <1>1
<1>3. auths'[c] = Append(auths[c], e) /\ \A d \in Conns : d # c => auths'[d] = auths[d]
  BY DEF RegistryType
<1>4. auths' \in [Conns -> Seq([name : Names, ok : BOOLEAN])]
  BY <1>2, <1>3 DEF RegistryType
<1>5. ASSUME NEW d \in Conns, NEW n \in Accepted(d) PROVE n \in Accepted(d)'
  <2>1. PICK i \in 1 .. Len(auths[d]) : auths[d][i].ok /\ n = auths[d][i].name
    BY <1>5 DEF Accepted
  <2>2. i \in 1 .. Len(auths'[d]) /\ auths'[d][i] = auths[d][i]
    BY <1>2, <1>3, <2>1
  <2> QED BY <2>1, <2>2 DEF Accepted
<1>6. ASSUME ok PROVE client_name[c] \in Accepted(c)'
  <2>1. Len(auths[c]) + 1 \in 1 .. Len(auths'[c]) /\ auths'[c][Len(auths[c]) + 1] = e
    BY <1>2, <1>3
  <2> QED BY <2>1, <1>6 DEF Accepted
<1> QED BY <1>4, <1>5, <1>6

\* What is accepted depends on auths alone.
LEMMA AcceptedStays ==
  ASSUME auths' = auths
  PROVE  \A c \in Conns : Accepted(c)' = Accepted(c)
BY DEF Accepted

LEMMA SignalsStay ==
  ASSUME Registry, UNCHANGED <<clients, new_client, auths>>
  PROVE  SignalsAccepted' /\ RegisteredIsAccepted'
<1>1. SignalsAccepted'
  BY DEF Registry, SignalsAccepted, GoodNew, Accepted
<1>2. RegisteredIsAccepted'
  BY DEF Registry, RegisteredIsAccepted, Accepted
<1> QED BY <1>1, <1>2

\* A signal carries the name and the address of the connection that sends it.
LEMMA SignalSent ==
  ASSUME Registry, NEW c \in Conns, auths' = auths,
         NEW s \in Signal, GoodNew(s), s.conn \in Conns, Signalled(s)
  PROVE  new_client' \in Seq(Signal) /\ SignalsAccepted'
<1>1. CASE new_client' = new_client
  <2>1. SignalsAccepted'
    BY <1>1 DEF Registry, SignalsAccepted, GoodNew, Accepted
  <2> QED BY <1>1, <2>1 DEF Registry, RegistryType
<1>2. CASE new_client' = Append(new_client, s)
  <2>1. /\ Append(new_client, s) \in Seq(Signal)
        /\ Len(Append(new_client, s)) = Len(new_client) + 1
        /\ Len(new_client) \in Nat
        /\ \A i \in 1 .. Len(new_client) : Append(new_client, s)[i] = new_client[i]
        /\ Append(new_client, s)[Len(new_client) + 1] = s
    BY DEF Registry, RegistryType
  <2>2. ASSUME NEW t, GoodNew(t) PROVE GoodNew(t)'
    BY <2>2 DEF GoodNew, Accepted
  <2>3. ASSUME NEW i \in 1 .. Len(new_client') PROVE GoodNew(new_client[i])'
    <3>1. CASE i = Len(new_client) + 1
      <4>1. new_client'[i] = s
        BY <1>2, <2>1, <3>1
      <4> QED BY <4>1 DEF GoodNew, Accepted
    <3>2. CASE i # Len(new_client) + 1
      <4>1. i \in 1 .. Len(new_client)
        BY <1>2, <2>1, <2>3, <3>2
      <4>2. GoodNew(new_client[i]) /\ new_client'[i] = new_client[i]
        BY <1>2, <2>1, <4>1 DEF Registry, SignalsAccepted
      <4> QED BY <4>2 DEF GoodNew, Accepted
    <3> QED BY <3>1, <3>2
  <2> QED BY <1>2, <2>1, <2>3 DEF SignalsAccepted
<1> QED BY <1>1, <1>2 DEF Signalled

-----------------------------------------------------------------------------
\* A step that leaves the registry alone.
LEMMA RegistryStays ==
  ASSUME Registry, UNCHANGED regVars
  PROVE  Registry'
<1>1. RegistryType'
  BY DEF Registry, RegistryType, regVars
<1>2. NameTaken' /\ NewIsAccepted'
  BY DEF Registry, NameTaken, NewIsAccepted, Accepted, regVars
<1>3. SignalsAccepted' /\ RegisteredIsAccepted'
  BY DEF Registry, SignalsAccepted, GoodNew, RegisteredIsAccepted, Accepted, regVars
<1> QED BY <1>1, <1>2, <1>3 DEF Registry

\* A main loop moves on to a place where it has no name to announce.
LEMMA MainMoves ==
  ASSUME Registry, NEW c \in Conns, NEW p \in MainPlace \ {"auth", "new"},
         main' = [main EXCEPT ![c] = p], UNCHANGED <<clients, new_client, client_name, auths>>
  PROVE  Registry'
<1>1. RegistryType'
  BY DEF Registry, RegistryType, MainPlace
<1>2. SignalsAccepted' /\ RegisteredIsAccepted'
  BY DEF Registry, SignalsAccepted, GoodNew, RegisteredIsAccepted, Accepted
<1>3. \A d \in Conns : main'[d] \in {"auth", "new"} => main[d] = main'[d]
  BY DEF Registry, RegistryType
<1>4. NameTaken' /\ NewIsAccepted'
  BY <1>3 DEF Registry, NameTaken, NewIsAccepted, Accepted
<1> QED BY <1>1, <1>2, <1>4 DEF Registry

\* RecvAuth takes the peer's name over and asks on_auth.
LEMMA AuthAsked ==
  ASSUME Registry, NEW c \in Conns, NEW n \in Names, RecvAuth(c, n)
  PROVE  Registry'
<1> USE DEF RecvAuth, mgrVars
<1>1. RegistryType'
  BY DEF Registry, RegistryType, MainPlace
<1>2. SignalsAccepted' /\ RegisteredIsAccepted'
  <2>1. UNCHANGED <<clients, new_client, auths>>
    OBVIOUS
  <2> QED BY <2>1, SignalsStay
<1>3. /\ main'[c] = "auth" /\ client_name'[c] = n
      /\ \A d \in Conns : d # c => main'[d] = main[d] /\ client_name'[d] = client_name[d]
  BY DEF Registry, RegistryType
<1>4. NameTaken' /\ NewIsAccepted'
  BY <1>3 DEF Registry, NameTaken, NewIsAccepted, Accepted
<1> QED BY <1>1, <1>2, <1>4 DEF Registry

\* on_auth answers: the only step by which a name becomes accepted.
LEMMA AuthAnswered ==
  ASSUME Registry, NEW c \in Conns, NEW ok \in BOOLEAN, Authed(c, ok)
  PROVE  Registry'
<1> USE DEF Authed, mgrVars
<1>1. /\ auths' \in [Conns -> Seq([name : Names, ok : BOOLEAN])]
      /\ \A d \in Conns : Accepted(d) \subseteq Accepted(d)'
      /\ ok => client_name[c] \in Accepted(c)'
  <2>1. client_name[c] \in Names
    BY DEF Registry, NameTaken
  <2> QED BY <2>1, AcceptedGrows DEF Registry
<1>2. RegistryType'
  BY <1>1 DEF Registry, RegistryType, MainPlace, AfterAuth
<1>3. /\ main'[c] = AfterAuth(ok)
      /\ \A d \in Conns : d # c => main'[d] = main[d]
      /\ main[c] = "auth"
  BY DEF Registry, RegistryType
<1>4. NameTaken'
  BY <1>3 DEF Registry, NameTaken
<1>5. NewIsAccepted'
  <2> SUFFICES ASSUME NEW d \in Conns, main'[d] = "new" PROVE client_name'[d] \in Accepted(d)'
    BY DEF NewIsAccepted
  <2>1. CASE d = c
    BY <1>1, <1>3, <2>1 DEF AfterAuth
  <2>2. CASE d # c
    BY <1>1, <1>3, <2>2 DEF Registry, NewIsAccepted
  <2> QED BY <2>1, <2>2
<1>6. SignalsAccepted'
  <2> SUFFICES ASSUME NEW i \in 1 .. Len(new_client), new_client[i].type = "New"
               PROVE  /\ new_client[i].key[1] \in Accepted(new_client[i].conn)'
                      /\ new_client[i].key[2] = Addr[new_client[i].conn]
    BY DEF SignalsAccepted, GoodNew
  <2>1. new_client[i] \in Signal
    BY DEF Registry, RegistryType
  <2>2. new_client[i].conn \in Conns
    BY <2>1 DEF Signal
  <2> QED BY <1>1, <2>2 DEF Registry, SignalsAccepted, GoodNew
<1>7. RegisteredIsAccepted'
  <2> SUFFICES ASSUME NEW k \in Key, clients[k] # NoConn
               PROVE  k[1] \in Accepted(clients[k])' /\ k[2] = Addr[clients[k]]
    BY DEF RegisteredIsAccepted
  <2>1. clients[k] \in Conns
    BY DEF Registry, RegistryType
  <2> QED BY <1>1, <2>1 DEF Registry, RegisteredIsAccepted
<1> QED BY <1>2, <1>4, <1>5, <1>6, <1>7 DEF Registry

\* New is sent: it carries the accepted name.
LEMMA NewSent ==
  ASSUME Registry, NEW c \in Conns, SendNew(c)
  PROVE  Registry'
<1> USE DEF SendNew
<1> DEFINE s == [type |-> "New", key |-> MyKey(c), conn |-> c]
<1>1. client_name[c] \in Names /\ client_name[c] \in Accepted(c)
  BY DEF Registry, NameTaken, NewIsAccepted
<1>2. s \in Signal
  BY <1>1 DEF Signal, MyKey, Key
<1>3. GoodNew(s)
  BY <1>1 DEF GoodNew, MyKey
<1>4. new_client' \in Seq(Signal) /\ SignalsAccepted'
  <2> HIDE DEF s
  <2>1. Signalled(s) /\ auths' = auths /\ s.conn \in Conns
    BY DEF s
  <2> QED BY <1>2, <1>3, <2>1, SignalSent
<1>5. \A d \in Conns : main'[d] \in {"auth", "new"} => main[d] = main'[d]
  BY DEF Registry, RegistryType
<1>6. RegistryType'
  BY <1>4 DEF Registry, RegistryType, MainPlace
<1>7. NameTaken' /\ NewIsAccepted'
  BY <1>5 DEF Registry, NameTaken, NewIsAccepted, Accepted
<1>8. RegisteredIsAccepted'
  BY DEF Registry, RegisteredIsAccepted, Accepted
<1> QED BY <1>4, <1>6, <1>7, <1>8 DEF Registry

\* Exit is sent, whatever the name is by then.
LEMMA ExitSent ==
  ASSUME Registry, NEW c \in Conns, SendExit(c)
  PROVE  Registry'
<1> USE DEF SendExit
<1> DEFINE s == [type |-> "Exit", key |-> MyKey(c), conn |-> c]
<1>1. s \in Signal /\ GoodNew(s)
  <2>1. client_name[c] \in Names \cup {WaitAuth}
    BY DEF Registry, RegistryType
  <2> QED BY <2>1 DEF Signal, MyKey, Key, GoodNew
<1>2. new_client' \in Seq(Signal) /\ SignalsAccepted'
  <2> HIDE DEF s
  <2>1. Signalled(s) /\ auths' = auths /\ s.conn \in Conns
    BY DEF s
  <2> QED BY <1>1, <2>1, SignalSent
<1>3. \A d \in Conns : main'[d] \in {"auth", "new"} => main[d] = main'[d]
  BY DEF Registry, RegistryType
<1>4. RegistryType'
  BY <1>2 DEF Registry, RegistryType, MainPlace
<1>5. NameTaken' /\ NewIsAccepted'
  BY <1>3 DEF Registry, NameTaken, NewIsAccepted, Accepted
<1>6. RegisteredIsAccepted'
  BY DEF Registry, RegisteredIsAccepted, Accepted
<1> QED BY <1>2, <1>4, <1>5, <1>6 DEF Registry

\* The manager handles a signal: what New carries is accepted, Exit only removes.
LEMMA SignalHandled ==
  ASSUME Registry, ClientSignal
  PROVE  Registry'
<1> USE DEF ClientSignal, mainVars
<1> DEFINE s == Head(new_client)
<1>1. /\ s \in Signal /\ GoodNew(s)
      /\ Tail(new_client) \in Seq(Signal)
      /\ \A i \in 1 .. Len(Tail(new_client)) : /\ i + 1 \in 1 .. Len(new_client)
                                               /\ Tail(new_client)[i] = new_client[i + 1]
  <2>1. new_client \in Seq(Signal) /\ new_client # << >>
    BY DEF Registry, RegistryType
  <2>2. s = new_client[1] /\ 1 \in 1 .. Len(new_client)
    BY <2>1
  <2>3. s \in Signal
    BY <2>1
  <2>4. GoodNew(s)
    BY <2>2 DEF Registry, SignalsAccepted
  <2>5. /\ Tail(new_client) \in Seq(Signal)
        /\ \A i \in 1 .. Len(Tail(new_client)) : /\ i + 1 \in 1 .. Len(new_client)
                                                 /\ Tail(new_client)[i] = new_client[i + 1]
    BY <2>1
  <2> QED BY <2>3, <2>4, <2>5
<1>2. SignalsAccepted'
  <2> SUFFICES ASSUME NEW i \in 1 .. Len(Tail(new_client)) PROVE GoodNew(new_client[i])'
    BY DEF SignalsAccepted
  <2>1. GoodNew(new_client[i + 1]) /\ new_client'[i] = new_client[i + 1]
    BY <1>1 DEF Registry, SignalsAccepted
  <2> QED BY <2>1 DEF GoodNew, Accepted
<1>3. s.conn \in Conns /\ s.type \in {"New", "Exit"}
  BY <1>1 DEF Signal
<1>4. \A k \in Key : clients'[k] = clients[k] \/ clients'[k] = NoConn
                     \/ (s.type = "New" /\ k = s.key /\ clients'[k] = s.conn)
  BY DEF Managed, Registry, RegistryType
<1>5. clients' \in [Key -> Conns \cup {NoConn}]
  BY <1>3 DEF Managed, Registry, RegistryType
<1>6. RegistryType'
  BY <1>1, <1>5 DEF Registry, RegistryType
<1>7. NameTaken' /\ NewIsAccepted'
  BY DEF Registry, NameTaken, NewIsAccepted, Accepted
<1>8. RegisteredIsAccepted'
  <2> HIDE DEF s
  <2> SUFFICES ASSUME NEW k \in Key, clients'[k] # NoConn
               PROVE  k[1] \in Accepted(clients'[k]) /\ k[2] = Addr[clients'[k]]
    BY DEF RegisteredIsAccepted, Accepted
  <2>1. CASE clients'[k] = clients[k]
    BY <2>1 DEF Registry, RegisteredIsAccepted
  <2>2. CASE s.type = "New" /\ k = s.key /\ clients'[k] = s.conn
    BY <1>1, <2>2 DEF GoodNew
  <2> QED BY <1>4, <2>1, <2>2
<1> QED BY <1>2, <1>6, <1>7, <1>8 DEF Registry

\* CloseClient and Shutdown only remove.
LEMMA EntriesRemoved ==
  ASSUME Registry, clients' \in [Key -> Conns \cup {NoConn}],
         \A k \in Key : clients'[k] \in {clients[k], NoConn},
         UNCHANGED <<main, client_name, auths>>,
         new_client' = new_client \/ new_client' = << >>
  PROVE  Registry'
<1>1. RegistryType'
  <2>1. new_client \in Seq(Signal) /\ << >> \in Seq(Signal)
    BY DEF Registry, RegistryType
  <2> QED BY <2>1 DEF Registry, RegistryType
<1>2. NameTaken' /\ NewIsAccepted'
  BY DEF Registry, NameTaken, NewIsAccepted, Accepted
<1>3. SignalsAccepted'
  <2>1. CASE new_client' = new_client
    BY <2>1 DEF Registry, SignalsAccepted, GoodNew, Accepted
  <2>2. CASE new_client' = << >>
    BY <2>2 DEF SignalsAccepted
  <2> QED BY <2>1, <2>2
<1>4. RegisteredIsAccepted'
  BY DEF Registry, RegisteredIsAccepted, Accepted
<1> QED BY <1>1, <1>2, <1>3, <1>4 DEF Registry

-----------------------------------------------------------------------------
LEMMA InitRegistry == Init => Registry
<1> SUFFICES ASSUME Init PROVE Registry
  OBVIOUS
<1> USE DEF Init
<1>1. RegistryType
  <2>1. << >> \in Seq(Signal) /\ << >> \in Seq([name : Names, ok : BOOLEAN])
    OBVIOUS
  <2> QED BY <2>1 DEF RegistryType, MainPlace
<1>2. NameTaken /\ NewIsAccepted
  BY DEF NameTaken, NewIsAccepted
<1>3. SignalsAccepted
  BY DEF SignalsAccepted
<1>4. RegisteredIsAccepted
  BY DEF RegisteredIsAccepted
<1> QED BY <1>1, <1>2, <1>3, <1>4 DEF Registry

LEMMA NextRegistry == Registry /\ [Next]_vars => Registry'
<1> SUFFICES ASSUME Registry, [Next]_vars PROVE Registry'
  OBVIOUS
<1> USE DEF mgrVars, mainVars
<1>1. CASE CloseSent
  BY <1>1, RegistryStays DEF CloseSent, regVars
<1>2. CASE ClientSignal
  BY <1>2, SignalHandled
<1>3. CASE Broadcast
  BY <1>3, RegistryStays DEF Broadcast, regVars
<1>4. CASE Shutdown
  <2>1. clients' \in [Key -> Conns \cup {NoConn}] /\ \A k \in Key : clients'[k] = NoConn
    BY <1>4 DEF Shutdown
  <2> QED BY <1>4, <2>1, EntriesRemoved DEF Shutdown
<1>5. ASSUME NEW k \in Key, CloseClient(k) PROVE Registry'
  <2>1. /\ clients' \in [Key -> Conns \cup {NoConn}]
        /\ \A j \in Key : clients'[j] \in {clients[j], NoConn}
    BY <1>5 DEF CloseClient, Removed, Registry, RegistryType
  <2> QED BY <1>5, <2>1, EntriesRemoved DEF CloseClient
<1>6. ASSUME NEW c \in Conns, Accept(c) PROVE Registry'
  BY <1>6, MainMoves DEF Accept, MainPlace
<1>7. ASSUME NEW c \in Conns, MainStep(c) PROVE Registry'
  <2>1. CASE PongSent(c)
    BY <2>1, MainMoves DEF PongSent, MainPlace
  <2>2. CASE Authed(c, TRUE)
    BY <2>2, AuthAnswered
  <2>3. CASE Authed(c, FALSE)
    BY <2>3, AuthAnswered
  <2>4. CASE SendNew(c)
    BY <2>4, NewSent
  <2>5. CASE QueueAuth(c)
    BY <2>5, MainMoves DEF QueueAuth, MainPlace
  <2>6. CASE Disconnected(c)
    BY <2>6, MainMoves DEF Disconnected, MainPlace
  <2>7. CASE SendExit(c)
    BY <2>7, ExitSent
  <2> QED BY <1>7, <2>1, <2>2, <2>3, <2>4, <2>5, <2>6, <2>7 DEF MainStep
<1>8. ASSUME NEW c \in Conns, Break(c) PROVE Registry'
  <2>1. CASE main' = [main EXCEPT ![c] = "disconnect"]
    BY <1>8, <2>1, MainMoves DEF Break, MainPlace
  <2>2. CASE main' = [main EXCEPT ![c] = "exit"]
    BY <1>8, <2>2, MainMoves DEF Break, MainPlace
  <2> QED BY <1>8, <2>1, <2>2 DEF Break
<1>9. ASSUME NEW c \in Conns, Received(c) PROVE Registry'
  <2>1. CASE RecvHeartbeat(c)
    BY <2>1, MainMoves DEF RecvHeartbeat, MainPlace
  <2>2. CASE RecvPacket(c)
    BY <2>2, RegistryStays DEF RecvPacket, regVars
  <2>3. CASE RecvBadAuth(c)
    BY <2>3, <1>8 DEF RecvBadAuth
  <2>4. CASE \E n \in Names : RecvAuth(c, n)
    BY <2>4, AuthAsked
  <2> QED BY <1>9, <2>1, <2>2, <2>3, <2>4 DEF Received
<1>10. ASSUME NEW c \in Conns, Leaving(c) PROVE Registry'
  BY <1>8, <1>10 DEF Leaving, HeartbeatCheck, ExitSignal, RecvNone
<1>11. ASSUME NEW c \in Conns,
              CallbackStep(c) \/ SpawnedSends(c) \/ TransportEnds(c) \/ PeerQuiet(c) \/ TimePasses(c)
       PROVE  Registry'
  <2>1. UNCHANGED regVars
    BY <1>11 DEF CallbackStep, OnSend, OnSendReturns, OnLagged, OnPacket, CallbackEnds,
                 SpawnedSends, TransportEnds, PeerQuiet, TimePasses, regVars
  <2> QED BY <2>1, RegistryStays
<1>12. CASE UNCHANGED vars
  BY <1>12, RegistryStays DEF vars, regVars
<1> QED
  BY <1>1, <1>2, <1>3, <1>4, <1>5, <1>6, <1>7, <1>9, <1>10, <1>11, <1>12 DEF Next, Managing, Conn

\* However the auth requests, New and Exit signals and CloseClients of any number
\* of connections are interleaved, the clients map holds a connection only under a
\* name on_auth has accepted for it and under its own address (server.rs:197-206,
\* 394-403): no broadcast goes to a peer that was never accepted.
THEOREM OnlyAcceptedRegistered == Safety => []RegisteredIsAccepted
<1>1. Registry => RegisteredIsAccepted
  BY DEF Registry
<1> QED BY InitRegistry, NextRegistry, <1>1, PTL DEF Safety

-----------------------------------------------------------------------------
(* How often a connection is in the map *)

InMap(c) == \E k \in Key : clients[k] = c

\* No two names have been accepted for the connection.
Sole(c) == \A x, y \in Accepted(c) : x = y

LEMMA AcceptedFinite ==
  ASSUME RegistryType, NEW c \in Conns
  PROVE  IsFiniteSet(Accepted(c))
<1> DEFINE J == {j \in 1 .. Len(auths[c]) : auths[c][j].ok}
           f == [j \in J |-> auths[c][j].name]
<1>1. Len(auths[c]) \in Nat
  BY DEF RegistryType
<1>2. IsFiniteSet(1 .. Len(auths[c]))
  BY <1>1, FS_Interval
<1>3. IsFiniteSet(J)
  BY <1>2, FS_Subset
<1>4. f \in Surjection(J, Accepted(c))
  BY DEF Accepted, Surjection
<1> HIDE DEF J, f
<1> QED BY <1>3, <1>4, FS_Surjection

\* The entries of a connection differ in the name only.
LEMMA EntriesOf ==
  ASSUME Registry, NEW c \in Conns
  PROVE  {k \in Key : clients[k] = c} \subseteq Accepted(c) \X {Addr[c]}
<1> SUFFICES ASSUME NEW k \in Key, clients[k] = c
             PROVE  k \in Accepted(c) \X {Addr[c]}
  OBVIOUS
<1>1. c # NoConn
  BY ServerAssumption
<1>2. k[1] \in Accepted(c) /\ k[2] = Addr[c]
  BY <1>1 DEF Registry, RegisteredIsAccepted
<1>3. k = <<k[1], k[2]>>
  BY DEF Key
<1> QED BY <1>2, <1>3

LEMMA CopiesType ==
  ASSUME Registry, NEW c \in Conns
  PROVE  /\ Copies(c) \in Nat
         /\ ~InMap(c) => Copies(c) = 0
         /\ Sole(c) /\ InMap(c) => Copies(c) = 1
<1> DEFINE E == {k \in Key : clients[k] = c}
<1>1. IsFiniteSet(Accepted(c) \X {Addr[c]})
  <2>1. IsFiniteSet(Accepted(c)) /\ IsFiniteSet({Addr[c]})
    BY AcceptedFinite, FS_Singleton DEF Registry
  <2> QED BY <2>1, FS_Product
<1>2. E \subseteq Accepted(c) \X {Addr[c]}
  BY EntriesOf
<1>3. Copies(c) = Cardinality(E)
  BY DEF Copies
<1>4. InMap(c) <=> E # {}
  BY DEF InMap
<1> HIDE DEF E
<1>5. IsFiniteSet(E)
  BY <1>1, <1>2, FS_Subset
<1>6. Copies(c) \in Nat
  BY <1>3, <1>5, FS_CardinalityType
<1>7. ~InMap(c) => Copies(c) = 0
  BY <1>3, <1>4, FS_EmptySet
<1>8. ASSUME Sole(c), InMap(c)
      PROVE  Copies(c) = 1
  <2>1. PICK k : k \in E
    BY <1>4, <1>8
  <2>2. \A j \in E : j = k
    BY <1>2, <1>8, <2>1 DEF Sole
  <2>3. E = {k}
    BY <2>1, <2>2
  <2> QED BY <1>3, <2>3, FS_Singleton
<1> QED BY <1>6, <1>7, <1>8

-----------------------------------------------------------------------------
(* The broadcast channel *)

LEMMA AllOfType ==
  ASSUME NEW S, NEW q \in Seq(S), NEW p \in S, NEW n \in Nat
  PROVE  q \o [i \in 1 .. n |-> p] \in Seq(S)
<1>1. [i \in 1 .. n |-> p] \in Seq(S)
  OBVIOUS
<1> QED BY <1>1, ConcatProperties

LEMMA NewestType ==
  ASSUME NEW S, NEW s \in Seq(S)
  PROVE  Newest(s) \in Seq(S) /\ Len(Newest(s)) <= ProcChan
<1>1. Len(s) \in Nat /\ ProcChan \in Nat
  BY ServerAssumption
<1>2. CASE Len(s) <= ProcChan
  BY <1>1, <1>2 DEF Newest
<1>3. CASE ~(Len(s) <= ProcChan)
  <2> DEFINE m == Len(s) - ProcChan + 1
  <2>1. m \in Int /\ Len(s) \in Int /\ Newest(s) = SubSeq(s, m, Len(s))
    BY <1>1, <1>3 DEF Newest
  <2>2. \A i \in m .. Len(s) : s[i] \in S
    BY <1>1, <1>3
  <2>3. /\ SubSeq(s, m, Len(s)) \in Seq(S)
        /\ Len(SubSeq(s, m, Len(s))) = IF m <= Len(s) THEN Len(s) - m + 1 ELSE 0
    <3> HIDE DEF m
    <3> QED BY <2>1, <2>2, SubSeqProperties
  <2> QED BY <1>1, <1>3, <2>1, <2>3
<1> QED BY <1>2, <1>3

\* What the channel of a connection that is in the map at most once becomes:
\* nothing is added, or one packet, and then a full channel loses its oldest.
LEMMA NewestOne ==
  ASSUME NEW S, NEW q \in Seq(S), NEW p \in S, Len(q) <= ProcChan
  PROVE  /\ Newest(q) = q /\ ~Lags(q)
         /\ \/ Newest(Append(q, p)) = Append(q, p) /\ ~Lags(Append(q, p))
            \/ /\ Newest(Append(q, p)) = Tail(Append(q, p)) /\ Lags(Append(q, p))
               /\ Len(Append(q, p)) >= 2
<1> DEFINE s == Append(q, p)
<1>1. Len(q) \in Nat /\ ProcChan \in Nat \ {0}
  BY ServerAssumption
<1>2. Newest(q) = q /\ ~Lags(q)
  BY <1>1 DEF Newest, Lags
<1>3. s \in Seq(S) /\ s # << >> /\ Len(s) = Len(q) + 1
  BY AppendProperties
<1> HIDE DEF s
<1>4. CASE Len(s) <= ProcChan
  <2>1. Newest(s) = s /\ ~Lags(s)
    BY <1>1, <1>3, <1>4 DEF Newest, Lags
  <2> QED BY <1>2, <2>1 DEF s
<1>5. CASE ~(Len(s) <= ProcChan)
  <2>1. Len(s) - ProcChan + 1 = 2 /\ Lags(s) /\ Len(s) >= 2
    BY <1>1, <1>3, <1>5 DEF Lags
  <2>2. Newest(s) = SubSeq(s, 2, Len(s))
    BY <1>5, <2>1 DEF Newest
  <2>3. Tail(s) = SubSeq(s, 2, Len(s))
    BY <1>3, TailIsSubSeq
  <2> QED BY <1>2, <2>1, <2>2, <2>3 DEF s
<1> QED BY <1>4, <1>5

LEMMA AllOfOne ==
  ASSUME NEW S, NEW q \in Seq(S), NEW p \in S, NEW n
  PROVE  /\ n = 0 => q \o [i \in 1 .. n |-> p] = q
         /\ n = 1 => q \o [i \in 1 .. n |-> p] = Append(q, p)
<1>1. ASSUME n = 0 PROVE q \o [i \in 1 .. n |-> p] = q
  <2>1. [i \in 1 .. n |-> p] = << >>
    BY <1>1
  <2> QED BY <2>1, ConcatEmptySeq
<1>2. ASSUME n = 1 PROVE q \o [i \in 1 .. n |-> p] = Append(q, p)
  <2>1. [i \in 1 .. n |-> p] = <<p>>
    BY <1>2
  <2> QED BY <2>1, AppendIsConcat
<1> QED BY <1>1, <1>2

-----------------------------------------------------------------------------
(* Types *)

LEMMA InitTypes == Init => TypeOK
<1> SUFFICES ASSUME Init PROVE TypeOK
  OBVIOUS
<1>1. /\ nsent \in 0 .. MaxSends
      /\ exit_rx \in [Conns -> 0 .. SignalChan]
      /\ recved \in [Conns -> 0 .. ProcChan]
      /\ spawned \in [Conns -> 0 .. MaxSpawned]
  BY ServerAssumption DEF Init
<1>2. /\ << >> \in Seq(Signal) /\ << >> \in Seq([name : Names, ok : BOOLEAN])
      /\ << >> \in Seq(1 .. MaxSends) /\ << >> \in Seq(0 .. MaxSends) /\ Len(<< >>) = 0
  OBVIOUS
<1>3. /\ new_client \in Seq(Signal) /\ Len(new_client) <= SignalChan
      /\ auths \in [Conns -> Seq([name : Names, ok : BOOLEAN])]
      /\ on_send_rx \in [Conns -> Seq(1 .. MaxSends)]
      /\ delivered \in [Conns -> Seq(0 .. MaxSends)]
      /\ \A c \in Conns : Len(on_send_rx[c]) <= ProcChan
  BY <1>2, ServerAssumption DEF Init
<1>4. /\ sending \in [Conns -> SUBSET (1 .. MaxSends)]
      /\ peer \in [Conns -> {"active", "quiet", "gone"}]
      /\ callback \in [Conns -> {"none", "select", "done"}]
      /\ lagged \in [Conns -> BOOLEAN] /\ late \in [Conns -> BOOLEAN]
      /\ is_auth_ok \in [Conns -> BOOLEAN]
      /\ client_name \in [Conns -> Names \cup {WaitAuth}]
      /\ main \in [Conns -> {"none", "select", "pong", "auth", "new", "queue",
                             "disconnect", "exit", "done"}]
      /\ clients \in [Key -> Conns \cup {NoConn}]
  BY DEF Init
<1> QED BY <1>1, <1>3, <1>4 DEF Init, TypeOK

\* send(ClientSignal).await keeps to signal_chan_size.
LEMMA SignalledType ==
  ASSUME TypeOK, NEW s \in Signal, Signalled(s)
  PROVE  new_client' \in Seq(Signal) /\ Len(new_client') <= SignalChan
<1>1. new_client \in Seq(Signal) /\ Len(new_client) \in Nat /\ Len(new_client) <= SignalChan
  BY DEF TypeOK
<1>2. CASE new_client' = new_client
  BY <1>1, <1>2
<1>3. CASE Len(new_client) < SignalChan /\ new_client' = Append(new_client, s)
  <2>1. new_client' \in Seq(Signal) /\ Len(new_client') = Len(new_client) + 1
    BY <1>1, <1>3, AppendProperties
  <2> QED BY <1>1, <1>3, <2>1, ServerAssumption
<1> QED BY <1>2, <1>3 DEF Signalled

LEMMA ManagerTypes ==
  ASSUME TypeOK, Registry
  PROVE  /\ \A k \in Key : CloseClient(k) => TypeOK'
         /\ CloseSent => TypeOK'
         /\ ClientSignal => TypeOK'
         /\ Broadcast => TypeOK'
         /\ Shutdown => TypeOK'
<1> USE DEF mainVars, cbVars
<1>1. ASSUME NEW k \in Key, CloseClient(k) PROVE TypeOK'
  BY <1>1 DEF CloseClient, Removed, TypeOK
<1>2. ASSUME CloseSent PROVE TypeOK'
  <2>1. exit_rx' \in [Conns -> 0 .. SignalChan]
    <3>1. closing \in Conns
      BY <1>2 DEF CloseSent, TypeOK
    <3>2. CASE exit_rx' = exit_rx
      BY <3>2 DEF TypeOK
    <3>3. CASE exit_rx[closing] < SignalChan /\ exit_rx' = [exit_rx EXCEPT ![closing] = @ + 1]
      <4>1. exit_rx[closing] + 1 \in 0 .. SignalChan
        BY <3>1, <3>3, ServerAssumption DEF TypeOK
      <4> QED BY <3>1, <3>3, <4>1 DEF TypeOK
    <3> QED BY <1>2, <3>2, <3>3 DEF CloseSent
  <2> QED BY <1>2, <2>1 DEF CloseSent, TypeOK
<1>3. ASSUME ClientSignal PROVE TypeOK'
  <2>1. Registry'
    BY <1>3, SignalHandled
  <2>2. new_client \in Seq(Signal) /\ new_client # << >> /\ Len(new_client) <= SignalChan
        /\ new_client' = Tail(new_client)
    BY <1>3 DEF ClientSignal, TypeOK
  <2>3. Len(new_client') <= SignalChan
    BY <2>2, HeadTailProperties, ServerAssumption
  <2> QED BY <1>3, <2>1, <2>3 DEF ClientSignal, TypeOK, Registry, RegistryType
<1>4. ASSUME Broadcast PROVE TypeOK'
  <2> DEFINE sent(c) == IF callback[c] = "done" THEN on_send_rx[c] ELSE AllOf(c, nsent')
  <2>1. nsent' \in 1 .. MaxSends /\ nsent' \in 0 .. MaxSends
    BY <1>4, ServerAssumption DEF Broadcast, TypeOK
  <2>2. ASSUME NEW c \in Conns
        PROVE  Newest(sent(c)) \in Seq(1 .. MaxSends) /\ Len(Newest(sent(c))) <= ProcChan
    <3>1. on_send_rx[c] \in Seq(1 .. MaxSends) /\ Copies(c) \in Nat
      BY CopiesType DEF TypeOK
    <3>2. AllOf(c, nsent') \in Seq(1 .. MaxSends)
      BY <2>1, <3>1, AllOfType DEF AllOf
    <3>3. sent(c) \in Seq(1 .. MaxSends)
      BY <3>1, <3>2
    <3> HIDE DEF sent
    <3> QED BY <3>3, NewestType
  <2>3. /\ on_send_rx' = [c \in Conns |-> Newest(sent(c))]
        /\ lagged' = [c \in Conns |-> lagged[c] \/ Lags(sent(c))]
    BY <1>4 DEF Broadcast
  <2> HIDE DEF sent
  <2>4. /\ on_send_rx' \in [Conns -> Seq(1 .. MaxSends)]
        /\ \A c \in Conns : Len(on_send_rx'[c]) <= ProcChan
    BY <2>2, <2>3
  <2>5. lagged' \in [Conns -> BOOLEAN]
    BY <2>3
  <2> QED BY <1>4, <2>1, <2>4, <2>5 DEF Broadcast, TypeOK
<1>5. ASSUME Shutdown PROVE TypeOK'
  <2>1. << >> \in Seq(Signal) /\ Len(<< >>) <= SignalChan
    BY ServerAssumption
  <2> QED BY <1>5, <2>1 DEF Shutdown, TypeOK
<1> QED BY <1>1, <1>2, <1>3, <1>4, <1>5

LEMMA MainTypes ==
  ASSUME TypeOK, Registry, NEW c \in Conns
  PROVE  /\ Accept(c) => TypeOK'
         /\ MainStep(c) => TypeOK'
         /\ Received(c) => TypeOK'
         /\ Leaving(c) => TypeOK'
<1> USE DEF mgrVars, cbVars, TypeOK
<1>1. ASSUME Accept(c) PROVE TypeOK'
  BY <1>1 DEF Accept
<1>2. ASSUME Break(c), exit_rx' \in [Conns -> 0 .. SignalChan] PROVE TypeOK'
  BY <1>2 DEF Break
<1>3. ASSUME Leaving(c) PROVE TypeOK'
  <2>1. CASE HeartbeatCheck(c) \/ RecvNone(c)
    BY <1>2, <2>1 DEF HeartbeatCheck, RecvNone
  <2>2. CASE ExitSignal(c)
    <3>1. exit_rx' \in [Conns -> 0 .. SignalChan]
      <4>1. exit_rx[c] - 1 \in 0 .. SignalChan
        BY <2>2, ServerAssumption DEF ExitSignal, ExitPolled
      <4> QED BY <2>2, <4>1 DEF ExitSignal
    <3> QED BY <1>2, <2>2, <3>1 DEF ExitSignal
  <2> QED BY <1>3, <2>1, <2>2 DEF Leaving
<1>4. ASSUME Received(c) PROVE TypeOK'
  <2>1. CASE RecvHeartbeat(c)
    BY <2>1 DEF RecvHeartbeat, Recv
  <2>2. CASE RecvPacket(c)
    <3>1. /\ recved' \in [Conns -> 0 .. ProcChan]
          /\ spawned' \in [Conns -> 0 .. MaxSpawned]
      <4>1. CASE recved[c] < ProcChan
        <5>1. recved[c] \in 0 .. ProcChan
          OBVIOUS
        <5>2. ASSUME NEW n \in 0 .. ProcChan, n < ProcChan PROVE n + 1 \in 0 .. ProcChan
          BY <5>2, ServerAssumption
        <5>3. recved[c] + 1 \in 0 .. ProcChan
          BY <4>1, <5>1, <5>2
        <5> QED BY <2>2, <4>1, <5>3 DEF RecvPacket
      <4>2. CASE ~(recved[c] < ProcChan)
        <5>1. spawned[c] + 1 \in 0 .. MaxSpawned
          BY <2>2, <4>2, ServerAssumption DEF RecvPacket
        <5> QED BY <2>2, <4>2, <5>1 DEF RecvPacket
      <4> QED BY <4>1, <4>2
    <3> QED BY <2>2, <3>1 DEF RecvPacket, Recv
  <2>3. CASE RecvBadAuth(c)
    BY <1>2, <2>3 DEF RecvBadAuth
  <2>4. ASSUME NEW n \in Names, RecvAuth(c, n) PROVE TypeOK'
    BY <2>4 DEF RecvAuth, Recv
  <2> QED BY <1>4, <2>1, <2>2, <2>3, <2>4 DEF Received
<1>5. ASSUME MainStep(c) PROVE TypeOK'
  <2>1. CASE PongSent(c)
    BY <2>1 DEF PongSent
  <2>2. ASSUME NEW ok \in BOOLEAN, Authed(c, ok) PROVE TypeOK'
    <3>1. auths' \in [Conns -> Seq([name : Names, ok : BOOLEAN])]
      BY <2>2, AuthAnswered DEF Registry, RegistryType
    <3>2. is_auth_ok' \in [Conns -> BOOLEAN]
      BY <2>2 DEF Authed
    <3> QED BY <2>2, <3>1, <3>2 DEF Authed, AfterAuth
  <2>3. CASE SendNew(c)
    <3>1. [type |-> "New", key |-> MyKey(c), conn |-> c] \in Signal
      <4>1. client_name[c] \in Names
        BY <2>3 DEF Registry, NameTaken, SendNew
      <4> QED BY <4>1 DEF Signal, MyKey, Key
    <3>2. new_client' \in Seq(Signal) /\ Len(new_client') <= SignalChan
      BY <2>3, <3>1, SignalledType DEF SendNew
    <3> QED BY <2>3, <3>2 DEF SendNew
  <2>4. CASE QueueAuth(c)
    <3>1. recved[c] + 1 \in 0 .. ProcChan
      BY <2>4, ServerAssumption DEF QueueAuth
    <3> QED BY <2>4, <3>1 DEF QueueAuth
  <2>5. CASE Disconnected(c)
    BY <2>5 DEF Disconnected
  <2>6. CASE SendExit(c)
    <3>1. [type |-> "Exit", key |-> MyKey(c), conn |-> c] \in Signal
      <4>1. client_name[c] \in Names \cup {WaitAuth}
        OBVIOUS
      <4> QED BY <4>1 DEF Signal, MyKey, Key
    <3>2. new_client' \in Seq(Signal) /\ Len(new_client') <= SignalChan
      BY <2>6, <3>1, SignalledType DEF SendExit
    <3> QED BY <2>6, <3>2 DEF SendExit
  <2> QED BY <1>5, <2>1, <2>2, <2>3, <2>4, <2>5, <2>6 DEF MainStep
<1> QED BY <1>1, <1>3, <1>4, <1>5

LEMMA CallbackTypes ==
  ASSUME TypeOK, NEW c \in Conns,
         CallbackStep(c) \/ SpawnedSends(c) \/ TransportEnds(c) \/ PeerQuiet(c) \/ TimePasses(c)
  PROVE  TypeOK'
<1> USE DEF mgrVars, mainVars, cbVars, TypeOK
<1>1. CASE OnSend(c)
  <2>1. on_send_rx[c] \in Seq(1 .. MaxSends) /\ on_send_rx[c] # << >>
        /\ Len(on_send_rx[c]) <= ProcChan
    BY <1>1 DEF OnSend
  <2>2. Head(on_send_rx[c]) \in 1 .. MaxSends /\ Tail(on_send_rx[c]) \in Seq(1 .. MaxSends)
        /\ Len(Tail(on_send_rx[c])) <= ProcChan
    <3>1. Len(on_send_rx[c]) \in Nat
      BY <2>1
    <3>2. /\ Head(on_send_rx[c]) \in 1 .. MaxSends /\ Tail(on_send_rx[c]) \in Seq(1 .. MaxSends)
          /\ Len(Tail(on_send_rx[c])) = Len(on_send_rx[c]) - 1
      BY <2>1, HeadTailProperties
    <3>3. ASSUME NEW n \in Nat, n <= ProcChan PROVE n - 1 <= ProcChan
      BY <3>3, ServerAssumption
    <3> QED BY <2>1, <3>1, <3>2, <3>3
  <2>3. /\ sending' \in [Conns -> SUBSET (1 .. MaxSends)]
        /\ on_send_rx' \in [Conns -> Seq(1 .. MaxSends)]
        /\ \A d \in Conns : Len(on_send_rx'[d]) <= ProcChan
    BY <1>1, <2>2 DEF OnSend
  <2> QED BY <1>1, <2>3 DEF OnSend
<1>2. CASE OnSendReturns(c)
  <2>1. PICK p \in sending[c] : /\ delivered' = [delivered EXCEPT ![c] = Append(@, p)]
                                /\ sending' = [sending EXCEPT ![c] = @ \ {p}]
    BY <1>2 DEF OnSendReturns
  <2>2. delivered[c] \in Seq(0 .. MaxSends) /\ p \in 0 .. MaxSends
    BY ServerAssumption
  <2>3. Append(delivered[c], p) \in Seq(0 .. MaxSends)
    BY <2>2, AppendProperties
  <2>4. /\ delivered' \in [Conns -> Seq(0 .. MaxSends)]
        /\ sending' \in [Conns -> SUBSET (1 .. MaxSends)]
    BY <2>1, <2>3
  <2> QED BY <1>2, <2>4 DEF OnSendReturns
<1>3. CASE OnLagged(c)
  <2>1. delivered[c] \in Seq(0 .. MaxSends) /\ 0 \in 0 .. MaxSends
    BY ServerAssumption
  <2>2. Append(delivered[c], 0) \in Seq(0 .. MaxSends)
    BY <2>1, AppendProperties
  <2> QED BY <1>3, <2>2 DEF OnLagged
<1>4. CASE OnPacket(c)
  <2>1. recved[c] - 1 \in 0 .. ProcChan
    BY <1>4, ServerAssumption DEF OnPacket
  <2> QED BY <1>4, <2>1 DEF OnPacket
<1>5. CASE CallbackEnds(c)
  BY <1>5 DEF CallbackEnds
<1>6. CASE SpawnedSends(c)
  <2>1. recved[c] + 1 \in 0 .. ProcChan /\ spawned[c] - 1 \in 0 .. MaxSpawned
    BY <1>6, ServerAssumption DEF SpawnedSends
  <2> QED BY <1>6, <2>1 DEF SpawnedSends
<1>7. CASE TransportEnds(c)
  BY <1>7 DEF TransportEnds
<1>8. CASE PeerQuiet(c)
  BY <1>8 DEF PeerQuiet
<1>9. CASE TimePasses(c)
  BY <1>9 DEF TimePasses
<1> QED BY <1>1, <1>2, <1>3, <1>4, <1>5, <1>6, <1>7, <1>8, <1>9 DEF CallbackStep

LEMMA NextTypes ==
  ASSUME TypeOK, Registry, [Next]_vars
  PROVE  TypeOK'
<1>1. CASE UNCHANGED vars
  BY <1>1 DEF vars, mgrVars, mainVars, cbVars, TypeOK
<1> QED BY <1>1, ManagerTypes, MainTypes, CallbackTypes DEF Next, Managing, Conn

\* Every variable keeps its type: the map holds only connections, and the
\* channels between the tasks, the broadcast channel included, keep to their sizes.
THEOREM TypeCorrect == Safety => []TypeOK
<1>1. TypeOK /\ Registry /\ [Next]_vars => (TypeOK /\ Registry)'
  BY NextTypes, NextRegistry
<1> QED BY InitTypes, InitRegistry, <1>1, PTL DEF Safety

-----------------------------------------------------------------------------
(* The way of the broadcast packets to one connection: those delivered (D, *)
(* 0 for Lagged), those for which on_send runs (P), whether some were lost *)
(* after these (L), and those in the channel (Q).                          *)

\* They are in order from one place to the next.
InLine(D, P, Q) ==
    /\ \A i, j \in 1 .. Len(D) : i < j /\ D[i] # 0 /\ D[j] # 0 => D[i] < D[j]
    /\ \A i \in 1 .. Len(D) : \A p \in P : D[i] # 0 => D[i] < p
    /\ \A i \in 1 .. Len(D), j \in 1 .. Len(Q) : D[i] # 0 => D[i] < Q[j]
    /\ \A p \in P : \A j \in 1 .. Len(Q) : p < Q[j]
    /\ \A i, j \in 1 .. Len(Q) : i < j => Q[i] < Q[j]

\* None is newer than the packet n.
UpTo(D, P, Q, n) ==
    /\ \A i \in 1 .. Len(D) : D[i] <= n
    /\ \A p \in P : p <= n
    /\ \A i \in 1 .. Len(Q) : Q[i] <= n

\* Packet n is the one after those that have left the channel, unless some were lost.
Follows(D, P, L, n) ==
    L \/ /\ \A p \in P : n = p + 1
         /\ P = {} /\ D # << >> /\ D[Len(D)] # 0 => n = D[Len(D)] + 1

\* None is missing from one place to the next, except where Lagged says so.
Gapless(D, P, L, Q) ==
    /\ \A i \in 1 .. Len(D) - 1 : D[i] # 0 /\ D[i + 1] # 0 => D[i + 1] = D[i] + 1
    /\ \A p \in P : D # << >> /\ D[Len(D)] # 0 => p = D[Len(D)] + 1
    /\ Q # << >> => Follows(D, P, L, Q[1])
    /\ \A i \in 1 .. Len(Q) - 1 : Q[i + 1] = Q[i] + 1
    /\ L => Q # << >>

\* The newest packet, n, has come in, so that n + 1 is the next.
Current(D, P, L, Q, n) == IF Q = << >> THEN Follows(D, P, L, n + 1) ELSE Q[Len(Q)] = n

LEMMA SeqGrows ==
  ASSUME NEW S, NEW s \in Seq(S), NEW e \in S, NEW t, t = Append(s, e)
  PROVE  /\ t \in Seq(S) /\ t # << >> /\ Len(s) \in Nat /\ Len(t) = Len(s) + 1
         /\ \A i \in 1 .. Len(s) : t[i] = s[i]
         /\ t[Len(s) + 1] = e
         /\ \A i \in 1 .. Len(t) : i \in 1 .. Len(s) \/ i = Len(s) + 1
         /\ s = << >> <=> Len(s) = 0
<1>1. /\ t \in Seq(S) /\ t # << >> /\ Len(s) \in Nat /\ Len(t) = Len(s) + 1
      /\ \A i \in 1 .. Len(s) : t[i] = s[i]
      /\ t[Len(s) + 1] = e
  BY AppendProperties
<1>2. \A i \in 1 .. Len(t) : i \in 1 .. Len(s) \/ i = Len(s) + 1
  BY <1>1
<1> QED BY <1>1, <1>2

LEMMA SeqShrinks ==
  ASSUME NEW S, NEW s \in Seq(S), s # << >>, NEW t, t = Tail(s)
  PROVE  /\ t \in Seq(S) /\ Len(s) \in Nat /\ Len(s) >= 1 /\ Len(t) = Len(s) - 1
         /\ Head(s) = s[1] /\ s[1] \in S /\ 1 \in 1 .. Len(s) /\ Len(s) \in 1 .. Len(s)
         /\ \A i \in 1 .. Len(t) : i + 1 \in 1 .. Len(s) /\ t[i] = s[i + 1]
<1>1. Len(s) \in Nat /\ Len(s) >= 1 /\ Head(s) = s[1] /\ s[1] \in S
  OBVIOUS
<1>2. /\ t \in Seq(S) /\ Len(t) = Len(s) - 1
      /\ \A i \in 1 .. Len(t) : t[i] = s[i + 1]
  BY HeadTailProperties
<1>3. 1 \in 1 .. Len(s) /\ Len(s) \in 1 .. Len(s) /\ \A i \in 1 .. Len(t) : i + 1 \in 1 .. Len(s)
  BY <1>1, <1>2
<1> QED BY <1>1, <1>2, <1>3

\* A newer packet comes into the channel.
LEMMA LineGrows ==
  ASSUME NEW D \in Seq(Nat), NEW P \in SUBSET Nat, NEW Q \in Seq(Nat), NEW n \in Nat,
         UpTo(D, P, Q, n)
  PROVE  /\ UpTo(D, P, Append(Q, n + 1), n + 1)
         /\ InLine(D, P, Q) => InLine(D, P, Append(Q, n + 1))
<1> DEFINE T == Append(Q, n + 1)
<1>1. /\ Len(Q) \in Nat /\ Len(T) = Len(Q) + 1
      /\ \A i \in 1 .. Len(Q) : T[i] = Q[i] /\ Q[i] \in Nat
      /\ T[Len(Q) + 1] = n + 1
      /\ \A i \in 1 .. Len(T) : i \in 1 .. Len(Q) \/ i = Len(Q) + 1
  BY SeqGrows
<1>2. \A i \in 1 .. Len(D) : D[i] \in Nat
  OBVIOUS
<1> HIDE DEF T
<1>3. UpTo(D, P, T, n + 1)
  <2>1. ASSUME NEW m \in Nat, m <= n PROVE m <= n + 1
    BY <2>1
  <2>2. \A i \in 1 .. Len(D) : D[i] <= n + 1
    BY <1>2, <2>1 DEF UpTo
  <2>3. \A p \in P : p <= n + 1
    BY <2>1 DEF UpTo
  <2>4. ASSUME NEW i \in 1 .. Len(T) PROVE T[i] <= n + 1
    <3>1. CASE i \in 1 .. Len(Q)
      BY <1>1, <2>1, <3>1 DEF UpTo
    <3>2. CASE i = Len(Q) + 1
      BY <1>1, <3>2
    <3> QED BY <1>1, <3>1, <3>2
  <2> QED BY <2>2, <2>3, <2>4 DEF UpTo
<1>4. ASSUME InLine(D, P, Q)
      PROVE  InLine(D, P, T)
  <2>1. \A i \in 1 .. Len(D), j \in 1 .. Len(T) : D[i] # 0 => D[i] < T[j]
    <3> SUFFICES ASSUME NEW i \in 1 .. Len(D), NEW j \in 1 .. Len(T), D[i] # 0
                 PROVE  D[i] < T[j]
      OBVIOUS
    <3>1. CASE j \in 1 .. Len(Q)
      BY <1>1, <1>4, <3>1 DEF InLine
    <3>2. CASE j = Len(Q) + 1
      <4>1. D[i] \in Nat /\ D[i] <= n /\ T[j] = n + 1
        BY <1>1, <1>2, <3>2 DEF UpTo
      <4> QED BY <4>1
    <3> QED BY <1>1, <3>1, <3>2
  <2>2. \A p \in P : \A j \in 1 .. Len(T) : p < T[j]
    <3> SUFFICES ASSUME NEW p \in P, NEW j \in 1 .. Len(T)
                 PROVE  p < T[j]
      OBVIOUS
    <3>1. CASE j \in 1 .. Len(Q)
      BY <1>1, <1>4, <3>1 DEF InLine
    <3>2. CASE j = Len(Q) + 1
      <4>1. p \in Nat /\ p <= n /\ T[j] = n + 1
        BY <1>1, <3>2 DEF UpTo
      <4> QED BY <4>1
    <3> QED BY <1>1, <3>1, <3>2
  <2>3. \A i, j \in 1 .. Len(T) : i < j => T[i] < T[j]
    <3> SUFFICES ASSUME NEW i \in 1 .. Len(T), NEW j \in 1 .. Len(T), i < j
                 PROVE  T[i] < T[j]
      OBVIOUS
    <3>1. i \in 1 .. Len(Q)
      BY <1>1
    <3>2. CASE j \in 1 .. Len(Q)
      BY <1>1, <1>4, <3>1, <3>2 DEF InLine
    <3>3. CASE j = Len(Q) + 1
      <4>1. T[i] \in Nat /\ T[i] <= n /\ T[j] = n + 1
        BY <1>1, <3>1, <3>3 DEF UpTo
      <4> QED BY <4>1
    <3> QED BY <1>1, <3>2, <3>3
  <2> QED BY <1>4, <2>1, <2>2, <2>3 DEF InLine
<1> QED BY <1>3, <1>4 DEF T

\* The oldest packet of the channel is lost.
LEMMA LineShrinks ==
  ASSUME NEW D \in Seq(Nat), NEW P \in SUBSET Nat, NEW Q \in Seq(Nat), NEW n \in Nat,
         Q # << >>, UpTo(D, P, Q, n)
  PROVE  /\ UpTo(D, P, Tail(Q), n)
         /\ InLine(D, P, Q) => InLine(D, P, Tail(Q))
<1> DEFINE T == Tail(Q)
<1>1. \A i \in 1 .. Len(T) : i + 1 \in 1 .. Len(Q) /\ T[i] = Q[i + 1]
  BY SeqShrinks
<1>2. \A i, j \in 1 .. Len(T) : i < j => i + 1 < j + 1
  OBVIOUS
<1> HIDE DEF T
<1>3. UpTo(D, P, T, n)
  BY <1>1 DEF UpTo
<1>4. InLine(D, P, Q) => InLine(D, P, T)
  BY <1>1, <1>2 DEF InLine
<1> QED BY <1>3, <1>4 DEF T

\* on_send is called for the oldest.
LEMMA LineTaken ==
  ASSUME NEW D \in Seq(Nat), NEW Q \in Seq(Nat), NEW n \in Nat,
         Q # << >>, UpTo(D, {}, Q, n)
  PROVE  /\ UpTo(D, {Head(Q)}, Tail(Q), n)
         /\ InLine(D, {}, Q) => InLine(D, {Head(Q)}, Tail(Q))
<1> DEFINE T == Tail(Q)
<1>1. /\ \A i \in 1 .. Len(T) : i + 1 \in 1 .. Len(Q) /\ T[i] = Q[i + 1]
      /\ Head(Q) = Q[1] /\ 1 \in 1 .. Len(Q)
  BY SeqShrinks
<1>2. /\ \A i, j \in 1 .. Len(T) : i < j => i + 1 < j + 1
      /\ \A i \in 1 .. Len(T) : 1 < i + 1
  OBVIOUS
<1> HIDE DEF T
<1>3. UpTo(D, {Q[1]}, T, n)
  BY <1>1 DEF UpTo
<1>4. InLine(D, {}, Q) => InLine(D, {Q[1]}, T)
  BY <1>1, <1>2 DEF InLine
<1> QED BY <1>1, <1>3, <1>4 DEF T

\* on_send returns, or Lagged is received (p = 0).
LEMMA LineDone ==
  ASSUME NEW D \in Seq(Nat), NEW P \in SUBSET Nat, NEW Q \in Seq(Nat), NEW n \in Nat,
         NEW p \in Nat, P = {p} \/ (P = {} /\ p = 0), UpTo(D, P, Q, n)
  PROVE  /\ UpTo(Append(D, p), {}, Q, n)
         /\ InLine(D, P, Q) => InLine(Append(D, p), {}, Q)
<1> DEFINE T == Append(D, p)
<1>1. /\ Len(D) \in Nat /\ Len(T) = Len(D) + 1
      /\ \A i \in 1 .. Len(D) : T[i] = D[i]
      /\ T[Len(D) + 1] = p
      /\ \A i \in 1 .. Len(T) : i \in 1 .. Len(D) \/ i = Len(D) + 1
  BY SeqGrows
<1>2. \A i, j \in 1 .. Len(T) : i < j => i \in 1 .. Len(D)
  BY <1>1
<1> HIDE DEF T
<1>3. UpTo(T, {}, Q, n)
  <2>1. p <= n
    BY DEF UpTo
  <2>2. \A i \in 1 .. Len(T) : T[i] <= n
    BY <1>1, <2>1 DEF UpTo
  <2> QED BY <2>2 DEF UpTo
<1>4. ASSUME InLine(D, P, Q)
      PROVE  InLine(T, {}, Q)
  <2>1. \A i, j \in 1 .. Len(T) : i < j /\ T[i] # 0 /\ T[j] # 0 => T[i] < T[j]
    BY <1>1, <1>2, <1>4 DEF InLine
  <2>2. \A i \in 1 .. Len(T), j \in 1 .. Len(Q) : T[i] # 0 => T[i] < Q[j]
    BY <1>1, <1>4 DEF InLine
  <2> QED BY <1>4, <2>1, <2>2 DEF InLine
<1> QED BY <1>3, <1>4 DEF T

-----------------------------------------------------------------------------
LEMMA GapGrows ==
  ASSUME NEW D \in Seq(Nat), NEW P \in SUBSET Nat, NEW L \in BOOLEAN, NEW Q \in Seq(Nat),
         NEW n \in Nat, Gapless(D, P, L, Q), Current(D, P, L, Q, n)
  PROVE  /\ Gapless(D, P, L, Append(Q, n + 1))
         /\ Current(D, P, L, Append(Q, n + 1), n + 1)
<1> DEFINE T == Append(Q, n + 1)
<1>1. /\ T # << >> /\ Len(Q) \in Nat /\ Len(T) = Len(Q) + 1
      /\ \A i \in 1 .. Len(Q) : T[i] = Q[i]
      /\ T[Len(Q) + 1] = n + 1
      /\ Q = << >> <=> Len(Q) = 0
  <2> DEFINE e == n + 1
  <2>1. e \in Nat
    OBVIOUS
  <2> HIDE DEF e
  <2>2. Len(Append(Q, e)) = Len(Q) + 1
    BY <2>1
  <2>3. Append(Q, e) # << >>
    <3>1. Len(Append(Q, e)) # 0
      BY <2>2
    <3>2. Len(<< >>) = 0
      OBVIOUS
    <3> QED BY <3>1, <3>2, Zenon
  <2>4. /\ Append(Q, e)[Len(Q) + 1] = e
        /\ \A i \in 1 .. Len(Q) : Append(Q, e)[i] = Q[i]
    BY <2>1
  <2>5. Len(Q) \in Nat /\ (Q = << >> <=> Len(Q) = 0)
    OBVIOUS
  <2> QED BY <2>2, <2>3, <2>4, <2>5 DEF e
<1> HIDE DEF T
<1>2. Current(D, P, L, T, n + 1)
  <2>1. T[Len(T)] = n + 1
    BY <1>1
  <2> QED BY <1>1, <2>1 DEF Current
<1>3. Follows(D, P, L, T[1])
  <2>1. CASE Q = << >>
    BY <1>1, <2>1 DEF Current
  <2>2. CASE Q # << >>
    <3>1. T[1] = Q[1]
      BY <1>1, <2>2
    <3> QED BY <2>2, <3>1 DEF Gapless
  <2> QED BY <2>1, <2>2
<1>4. ASSUME NEW i \in 1 .. Len(T) - 1
      PROVE  T[i + 1] = T[i] + 1
  <2>1. CASE i = Len(Q)
    <3>1. Q # << >> /\ T[i] = Q[Len(Q)] /\ T[i + 1] = n + 1
      BY <1>1, <1>4, <2>1
    <3> QED BY <3>1 DEF Current
  <2>2. CASE i # Len(Q)
    <3>1. i \in 1 .. Len(Q) - 1 /\ i \in 1 .. Len(Q) /\ i + 1 \in 1 .. Len(Q)
      BY <1>1, <1>4, <2>2
    <3> QED BY <1>1, <3>1 DEF Gapless
  <2> QED BY <2>1, <2>2
<1>5. Gapless(D, P, L, T)
  BY <1>1, <1>3, <1>4 DEF Gapless
<1> QED BY <1>2, <1>5 DEF T

\* The loss of the oldest is recorded.
LEMMA GapLost ==
  ASSUME NEW D \in Seq(Nat), NEW P \in SUBSET Nat, NEW L \in BOOLEAN, NEW Q \in Seq(Nat),
         NEW n \in Nat, Gapless(D, P, L, Q), Current(D, P, L, Q, n), Len(Q) >= 2
  PROVE  Gapless(D, P, TRUE, Tail(Q)) /\ Current(D, P, TRUE, Tail(Q), n)
<1> DEFINE T == Tail(Q)
<1>1. Q # << >> /\ T = Tail(Q)
  OBVIOUS
<1> HIDE DEF T
<1>2. /\ T \in Seq(Nat) /\ Len(Q) \in Nat /\ Len(T) = Len(Q) - 1
      /\ \A i \in 1 .. Len(T) : i + 1 \in 1 .. Len(Q) /\ T[i] = Q[i + 1]
  BY <1>1, SeqShrinks
<1>3. T # << >> /\ Len(T) \in 1 .. Len(T) /\ Len(T) + 1 = Len(Q)
  BY <1>2
<1>4. T[Len(T)] = n
  BY <1>1, <1>2, <1>3 DEF Current
<1>5. ASSUME NEW i \in 1 .. Len(T) - 1
      PROVE  T[i + 1] = T[i] + 1
  <2>1. i \in 1 .. Len(T) /\ i + 1 \in 1 .. Len(T) /\ i + 1 \in 1 .. Len(Q) - 1
    BY <1>2, <1>5
  <2> QED BY <1>2, <2>1 DEF Gapless
<1> QED BY <1>3, <1>4, <1>5 DEF Gapless, Current, Follows, T

LEMMA GapTaken ==
  ASSUME NEW D \in Seq(Nat), NEW Q \in Seq(Nat), NEW n \in Nat, Q # << >>,
         Gapless(D, {}, FALSE, Q)
  PROVE  /\ Gapless(D, {Head(Q)}, FALSE, Tail(Q))
         /\ Current(D, {}, FALSE, Q, n) => Current(D, {Head(Q)}, FALSE, Tail(Q), n)
<1> DEFINE T == Tail(Q)
<1>0. T = Tail(Q)
  OBVIOUS
<1> HIDE DEF T
<1>1. /\ T \in Seq(Nat) /\ Len(Q) \in Nat /\ Len(Q) >= 1 /\ Len(T) = Len(Q) - 1
      /\ Head(Q) = Q[1] /\ Q[1] \in Nat
      /\ \A i \in 1 .. Len(T) : i + 1 \in 1 .. Len(Q) /\ T[i] = Q[i + 1]
  BY <1>0, SeqShrinks
<1>2. ASSUME NEW i \in 1 .. Len(T) - 1
      PROVE  T[i + 1] = T[i] + 1
  <2>1. i \in 1 .. Len(T) /\ i + 1 \in 1 .. Len(T) /\ i + 1 \in 1 .. Len(Q) - 1
    BY <1>1, <1>2
  <2> QED BY <1>1, <2>1 DEF Gapless
<1>3. D # << >> /\ D[Len(D)] # 0 => Q[1] = D[Len(D)] + 1
  BY DEF Gapless, Follows
<1>4. T # << >> => T[1] = Q[1] + 1
  <2> SUFFICES ASSUME T # << >> PROVE T[1] = Q[1] + 1
    OBVIOUS
  <2>1. 1 \in 1 .. Len(T) /\ 1 \in 1 .. Len(Q) - 1
    BY <1>1
  <2> QED BY <1>1, <2>1 DEF Gapless
<1>5. Gapless(D, {Q[1]}, FALSE, T)
  BY <1>2, <1>3, <1>4 DEF Gapless, Follows
<1>6. ASSUME Current(D, {}, FALSE, Q, n)
      PROVE  Current(D, {Q[1]}, FALSE, T, n)
  <2>1. Q[Len(Q)] = n
    BY <1>6 DEF Current
  <2>2. CASE T = << >>
    <3>1. Len(Q) = 1
      BY <1>1, <2>2
    <3> QED BY <1>1, <2>1, <2>2, <3>1 DEF Current, Follows
  <2>3. CASE T # << >>
    <3>1. Len(T) \in 1 .. Len(T) /\ Len(T) + 1 = Len(Q)
      BY <1>1, <2>3
    <3> QED BY <1>1, <2>1, <2>3, <3>1 DEF Current
  <2> QED BY <2>2, <2>3
<1> QED BY <1>1, <1>5, <1>6 DEF T

LEMMA GapDone ==
  ASSUME NEW D \in Seq(Nat), NEW L \in BOOLEAN, NEW Q \in Seq(Nat), NEW n \in Nat,
         NEW p \in Nat, p # 0, Gapless(D, {p}, L, Q)
  PROVE  /\ Gapless(Append(D, p), {}, L, Q)
         /\ Current(D, {p}, L, Q, n) => Current(Append(D, p), {}, L, Q, n)
<1> DEFINE T == Append(D, p)
<1>1. /\ Len(D) \in Nat /\ Len(T) = Len(D) + 1
      /\ \A i \in 1 .. Len(D) : T[i] = D[i]
      /\ T[Len(D) + 1] = p
      /\ D = << >> <=> Len(D) = 0
  BY SeqGrows
<1> HIDE DEF T
<1>2. T[Len(T)] = p
  BY <1>1
<1>3. ASSUME NEW i \in 1 .. Len(T) - 1, T[i] # 0, T[i + 1] # 0
      PROVE  T[i + 1] = T[i] + 1
  <2>1. CASE i = Len(D)
    <3>1. D # << >> /\ T[i] = D[Len(D)] /\ T[i + 1] = p
      BY <1>1, <1>3, <2>1
    <3> QED BY <1>3, <3>1 DEF Gapless
  <2>2. CASE i # Len(D)
    <3>1. i \in 1 .. Len(D) - 1 /\ i \in 1 .. Len(D) /\ i + 1 \in 1 .. Len(D)
      BY <1>1, <1>3, <2>2
    <3> QED BY <1>1, <1>3, <3>1 DEF Gapless
  <2> QED BY <2>1, <2>2
<1>4. ASSUME NEW m \in Nat, Follows(D, {p}, L, m)
      PROVE  Follows(T, {}, L, m)
  BY <1>2, <1>4 DEF Follows
<1>5. Q # << >> => Q[1] \in Nat
  OBVIOUS
<1>6. Gapless(T, {}, L, Q)
  BY <1>3, <1>4, <1>5 DEF Gapless
<1>7. Current(D, {p}, L, Q, n) => Current(T, {}, L, Q, n)
  <2>1. n + 1 \in Nat
    OBVIOUS
  <2> QED BY <1>4, <2>1 DEF Current
<1> QED BY <1>6, <1>7 DEF T

LEMMA GapTold ==
  ASSUME NEW D \in Seq(Nat), NEW Q \in Seq(Nat), NEW n \in Nat, Gapless(D, {}, TRUE, Q)
  PROVE  /\ Gapless(Append(D, 0), {}, FALSE, Q)
         /\ Current(D, {}, TRUE, Q, n) => Current(Append(D, 0), {}, FALSE, Q, n)
<1> DEFINE T == Append(D, 0)
<1>1. /\ Len(D) \in Nat /\ Len(T) = Len(D) + 1
      /\ \A i \in 1 .. Len(D) : T[i] = D[i]
      /\ T[Len(D) + 1] = 0
  BY SeqGrows
<1> HIDE DEF T
<1>2. T[Len(T)] = 0
  BY <1>1
<1>3. ASSUME NEW i \in 1 .. Len(T) - 1, T[i] # 0, T[i + 1] # 0
      PROVE  T[i + 1] = T[i] + 1
  <2>1. i \in 1 .. Len(D) - 1 /\ i \in 1 .. Len(D) /\ i + 1 \in 1 .. Len(D)
    BY <1>1, <1>3
  <2> QED BY <1>1, <1>3, <2>1 DEF Gapless
<1>4. Q # << >>
  BY DEF Gapless
<1>5. Gapless(T, {}, FALSE, Q)
  BY <1>2, <1>3 DEF Gapless, Follows
<1>6. Current(D, {}, TRUE, Q, n) => Current(T, {}, FALSE, Q, n)
  BY <1>4 DEF Current
<1> QED BY <1>5, <1>6 DEF T

-----------------------------------------------------------------------------
(* The invariant for the broadcast packets *)

\* The connection has authenticated at most once.
One(c) == Len(auths[c]) <= 1

Carried(c) ==
    /\ \A p, q \in sending[c] : p = q
    /\ Sole(c) => /\ UpTo(delivered[c], sending[c], on_send_rx[c], nsent)
                  /\ InLine(delivered[c], sending[c], on_send_rx[c])
    /\ One(c) =>
         /\ Gapless(delivered[c], sending[c], lagged[c], on_send_rx[c])
         /\ InMap(c) /\ callback[c] # "done"
              => Current(delivered[c], sending[c], lagged[c], on_send_rx[c], nsent)

\* Nothing has been broadcast to the connection yet, which is not in the map.
Empty(c) == delivered[c] = << >> /\ sending[c] = {} /\ on_send_rx[c] = << >> /\ ~lagged[c]
Unregistered(c) == Empty(c) /\ ~InMap(c)

Announces(s, c) == s.type = "New" /\ s.conn = c

\* A connection that authenticates once is put into the map once.
RegisteredOnce(c) ==
    One(c) =>
      /\ auths[c] = << >> => Unregistered(c)
      /\ main[c] = "new" => Unregistered(c)
      /\ \A i \in 1 .. Len(new_client) : Announces(new_client[i], c)
           => Unregistered(c) /\ main[c] # "new"
      /\ \A i, j \in 1 .. Len(new_client) :
           Announces(new_client[i], c) /\ Announces(new_client[j], c) => i = j

\* The callback loop outlives the main loop.
Ended(c) == callback[c] = "done" => main[c] = "done"

SendInv == TypeOK /\ Registry /\ \A c \in Conns : Carried(c) /\ RegisteredOnce(c) /\ Ended(c)

dataVars == <<nsent, sending, on_send_rx, lagged, delivered>>

\* Nothing happens to the packets for one connection.
SameData(c) ==
    /\ nsent' = nsent /\ sending'[c] = sending[c] /\ on_send_rx'[c] = on_send_rx[c]
    /\ lagged'[c] = lagged[c] /\ delivered'[c] = delivered[c]

LEMMA SeqWider ==
  ASSUME NEW S, NEW U, S \subseteq U, NEW s \in Seq(S)
  PROVE  s \in Seq(U)
OBVIOUS

LEMMA DataType ==
  ASSUME TypeOK, NEW c \in Conns
  PROVE  /\ delivered[c] \in Seq(Nat) /\ on_send_rx[c] \in Seq(Nat) /\ sending[c] \in SUBSET Nat
         /\ lagged[c] \in BOOLEAN /\ nsent \in Nat /\ Len(on_send_rx[c]) <= ProcChan
         /\ 0 \notin sending[c]
<1>1. 0 .. MaxSends \subseteq Nat /\ 1 .. MaxSends \subseteq Nat /\ 0 \notin 1 .. MaxSends
  BY ServerAssumption
<1>2. /\ delivered[c] \in Seq(0 .. MaxSends) /\ on_send_rx[c] \in Seq(1 .. MaxSends)
      /\ sending[c] \in SUBSET (1 .. MaxSends) /\ lagged[c] \in BOOLEAN
      /\ nsent \in 0 .. MaxSends /\ Len(on_send_rx[c]) <= ProcChan
  BY DEF TypeOK
<1>3. delivered[c] \in Seq(Nat) /\ on_send_rx[c] \in Seq(Nat)
  BY <1>1, <1>2, SeqWider
<1> QED BY <1>1, <1>2, <1>3

LEMMA OneIsSole ==
  ASSUME TypeOK, NEW c \in Conns, One(c)
  PROVE  Sole(c)
<1>1. Len(auths[c]) \in Nat
  BY DEF TypeOK
<1>2. \A i \in 1 .. Len(auths[c]) : i = 1
  BY <1>1 DEF One
<1> QED BY <1>2 DEF Sole, Accepted

\* No packet moves: it is enough that nobody is put into the map, except before
\* the first packet.
LEMMA CarriedFrame ==
  ASSUME TypeOK, NEW c \in Conns, Carried(c), SameData(c),
         Sole(c)' => Sole(c), One(c)' => One(c),
         One(c)' /\ InMap(c)' => InMap(c) \/ Empty(c),
         callback'[c] # "done" => callback[c] # "done"
  PROVE  Carried(c)'
<1>1. Empty(c) => Current(delivered[c], sending[c], lagged[c], on_send_rx[c], nsent)
  BY DEF Empty, Current, Follows
<1> QED BY <1>1 DEF Carried, SameData

LEMMA OnceFrame ==
  ASSUME NEW c \in Conns, RegisteredOnce(c), auths' = auths,
         main'[c] = "new" => main[c] = "new",
         Unregistered(c) => Unregistered(c)',
         new_client' = new_client \/ new_client' = << >>
  PROVE  RegisteredOnce(c)'
<1> SUFFICES ASSUME One(c)
             PROVE  /\ auths[c] = << >> => Unregistered(c)'
                    /\ main'[c] = "new" => Unregistered(c)'
                    /\ \A i \in 1 .. Len(new_client') : Announces(new_client'[i], c)
                         => Unregistered(c)' /\ main'[c] # "new"
                    /\ \A i, j \in 1 .. Len(new_client') :
                         Announces(new_client'[i], c) /\ Announces(new_client'[j], c) => i = j
  BY DEF RegisteredOnce, One, Announces
<1>1. CASE new_client' = new_client
  BY <1>1 DEF RegisteredOnce
<1>2. CASE new_client' = << >>
  BY <1>2 DEF RegisteredOnce
<1> QED BY <1>1, <1>2

LEMMA SoleStays ==
  ASSUME auths' = auths
  PROVE  \A c \in Conns : (Sole(c)' <=> Sole(c)) /\ (One(c)' <=> One(c))
BY AcceptedStays DEF Sole, One

LEMMA InMapStays ==
  ASSUME clients' = clients
  PROVE  \A c \in Conns : InMap(c)' <=> InMap(c)
BY DEF InMap

LEMMA UnregisteredStays ==
  ASSUME NEW c \in Conns, Unregistered(c), SameData(c), InMap(c)' => InMap(c)
  PROVE  Unregistered(c)'
BY DEF Unregistered, Empty, SameData

\* A step of a main loop that does not announce anything.
LEMMA QuietStep ==
  ASSUME SendInv, UNCHANGED <<dataVars, auths, clients, new_client>>,
         \A c \in Conns : /\ main'[c] = "new" => main[c] = "new"
                          /\ callback'[c] # "done" => callback[c] # "done"
  PROVE  \A c \in Conns : Carried(c)' /\ RegisteredOnce(c)'
<1> SUFFICES ASSUME NEW c \in Conns PROVE Carried(c)' /\ RegisteredOnce(c)'
  OBVIOUS
<1>1. (Sole(c)' => Sole(c)) /\ (One(c)' => One(c)) /\ (InMap(c)' <=> InMap(c)) /\ SameData(c)
  BY SoleStays, InMapStays DEF dataVars, SameData
<1>2. Carried(c) /\ RegisteredOnce(c) /\ TypeOK
  BY DEF SendInv
<1>3. Carried(c)'
  BY <1>1, <1>2, CarriedFrame
<1>4. Unregistered(c) => Unregistered(c)'
  BY <1>1, UnregisteredStays
<1>5. RegisteredOnce(c)'
  BY <1>2, <1>4, OnceFrame
<1> QED BY <1>3, <1>5

\* CloseClient and Shutdown only remove.
LEMMA RemovedStep ==
  ASSUME SendInv, UNCHANGED <<dataVars, auths, main, callback>>,
         \A k \in Key : clients'[k] \in {clients[k], NoConn},
         new_client' = new_client \/ new_client' = << >>
  PROVE  \A c \in Conns : Carried(c)' /\ RegisteredOnce(c)'
<1> SUFFICES ASSUME NEW c \in Conns PROVE Carried(c)' /\ RegisteredOnce(c)'
  OBVIOUS
<1>1. (Sole(c)' => Sole(c)) /\ (One(c)' => One(c)) /\ SameData(c)
  BY SoleStays DEF dataVars, SameData
<1>2. InMap(c)' => InMap(c)
  BY ServerAssumption DEF InMap
<1>3. Carried(c) /\ RegisteredOnce(c) /\ TypeOK
  BY DEF SendInv
<1>4. Carried(c)'
  BY <1>1, <1>2, <1>3, CarriedFrame
<1>5. Unregistered(c) => Unregistered(c)'
  BY <1>1, <1>2, UnregisteredStays
<1>6. RegisteredOnce(c)'
  BY <1>3, <1>5, OnceFrame
<1> QED BY <1>4, <1>6

-----------------------------------------------------------------------------
\* The manager broadcasts the packet after nsent.
LEMMA BroadcastStep ==
  ASSUME SendInv, Broadcast
  PROVE  \A c \in Conns : Carried(c)' /\ RegisteredOnce(c)'
<1> SUFFICES ASSUME NEW c \in Conns PROVE Carried(c)' /\ RegisteredOnce(c)'
  OBVIOUS
<1> DEFINE D == delivered[c]
           P == sending[c]
           L == lagged[c]
           Q == on_send_rx[c]
           n == nsent
           s == IF callback[c] = "done" THEN Q ELSE Q \o [i \in 1 .. Copies(c) |-> n + 1]
<1>1. /\ TypeOK /\ Registry /\ Carried(c) /\ RegisteredOnce(c)
      /\ auths' = auths /\ clients' = clients /\ new_client' = new_client
      /\ main' = main /\ callback' = callback
  BY DEF SendInv, Broadcast, mainVars
<1>2. /\ nsent' = n + 1 /\ delivered'[c] = D /\ sending'[c] = P
      /\ on_send_rx'[c] = Newest(s) /\ lagged'[c] = (L \/ Lags(s))
  BY DEF Broadcast, AllOf
<1>3. /\ D \in Seq(Nat) /\ Q \in Seq(Nat) /\ P \in SUBSET Nat /\ L \in BOOLEAN /\ n \in Nat
      /\ n + 1 \in Nat /\ Len(Q) <= ProcChan
  BY <1>1, DataType
<1>4. (Sole(c)' <=> Sole(c)) /\ (One(c)' <=> One(c)) /\ (InMap(c)' <=> InMap(c))
  BY <1>1, SoleStays, InMapStays
<1>5. (One(c) => Sole(c)) /\ (~InMap(c) => Copies(c) = 0) /\ (Sole(c) /\ InMap(c) => Copies(c) = 1)
  BY <1>1, OneIsSole, CopiesType
<1>6. ASSUME Sole(c)
      PROVE  \/ Newest(s) = Q /\ ~Lags(s) /\ (callback[c] = "done" \/ ~InMap(c))
             \/ Newest(s) = Append(Q, n + 1) /\ ~Lags(s) /\ InMap(c) /\ callback[c] # "done"
             \/ /\ Newest(s) = Tail(Append(Q, n + 1)) /\ Lags(s)
                /\ InMap(c) /\ callback[c] # "done" /\ Len(Append(Q, n + 1)) >= 2
  <2>1. CASE callback[c] = "done"
    <3>1. s = Q
      BY <2>1
    <3> QED BY <1>3, <2>1, <3>1, ServerAssumption DEF Newest, Lags
  <2>2. CASE callback[c] # "done"
    <3>1. s = AllOf(c, n + 1) /\ AllOf(c, n + 1) = Q \o [i \in 1 .. Copies(c) |-> n + 1]
      BY <2>2 DEF AllOf
    <3>2. (~InMap(c) => s = Q) /\ (InMap(c) => s = Append(Q, n + 1))
      <4> HIDE DEF s, Q, n
      <4>1. /\ Copies(c) = 0 => AllOf(c, n + 1) = Q
            /\ Copies(c) = 1 => AllOf(c, n + 1) = Append(Q, n + 1)
        BY <1>3, <3>1, AllOfOne
      <4> QED BY <1>5, <1>6, <3>1, <4>1
    <3> HIDE DEF s, Q, n
    <3>3. /\ Newest(Q) = Q /\ ~Lags(Q)
          /\ \/ Newest(Append(Q, n + 1)) = Append(Q, n + 1) /\ ~Lags(Append(Q, n + 1))
             \/ /\ Newest(Append(Q, n + 1)) = Tail(Append(Q, n + 1)) /\ Lags(Append(Q, n + 1))
                /\ Len(Append(Q, n + 1)) >= 2
      BY <1>3, NewestOne
    <3> QED BY <2>2, <3>2, <3>3
  <2> QED BY <2>1, <2>2
<1> HIDE DEF s
<1>7. ASSUME Sole(c)
      PROVE  UpTo(D, P, Newest(s), n + 1) /\ InLine(D, P, Newest(s))
  <2>1. UpTo(D, P, Q, n) /\ InLine(D, P, Q)
    BY <1>1, <1>7 DEF Carried
  <2>2. CASE Newest(s) = Q
    <3>1. UpTo(D, P, Q, n + 1)
      <4>1. /\ \A i \in 1 .. Len(D) : D[i] \in Nat /\ D[i] <= n
            /\ \A p \in P : p \in Nat /\ p <= n
            /\ \A i \in 1 .. Len(Q) : Q[i] \in Nat /\ Q[i] <= n
        BY <1>3, <2>1 DEF UpTo
      <4> HIDE DEF D, P, Q, n
      <4> QED BY <1>3, <4>1 DEF UpTo
    <3> QED BY <2>1, <2>2, <3>1
  <2> HIDE DEF D, P, Q, n
  <2>3. UpTo(D, P, Append(Q, n + 1), n + 1) /\ InLine(D, P, Append(Q, n + 1))
    BY <1>3, <2>1, LineGrows
  <2>4. Append(Q, n + 1) \in Seq(Nat) /\ Append(Q, n + 1) # << >>
    <3> DEFINE e == n + 1
    <3>1. e \in Nat
      BY <1>3
    <3> HIDE DEF e
    <3>2. Append(Q, e) \in Seq(Nat)
      BY <1>3, <3>1
    <3>3. Append(Q, e) # << >>
      BY <1>3, <3>1
    <3> QED BY <3>2, <3>3 DEF e
  <2> DEFINE T == Append(Q, n + 1)
  <2> HIDE DEF T
  <2>5. UpTo(D, P, Tail(T), n + 1) /\ InLine(D, P, Tail(T))
    <3>1. T \in Seq(Nat) /\ T # << >> /\ UpTo(D, P, T, n + 1) /\ InLine(D, P, T)
      BY <2>3, <2>4 DEF T
    <3> QED BY <1>3, <3>1, LineShrinks
  <2> QED BY <1>6, <1>7, <2>2, <2>3, <2>5 DEF T
<1>8. ASSUME One(c)
      PROVE  /\ Gapless(D, P, L \/ Lags(s), Newest(s))
             /\ InMap(c) /\ callback[c] # "done" => Current(D, P, L \/ Lags(s), Newest(s), n + 1)
  <2>1. /\ Gapless(D, P, L, Q)
        /\ InMap(c) /\ callback[c] # "done" => Current(D, P, L, Q, n)
    BY <1>1, <1>8 DEF Carried
  <2> HIDE DEF D, P, L, Q, n
  <2>2. CASE Newest(s) = Q /\ ~Lags(s) /\ (callback[c] = "done" \/ ~InMap(c))
    <3>1. (L \/ Lags(s)) = L
      BY <1>3, <2>2
    <3> QED BY <2>1, <2>2, <3>1
  <2> DEFINE T == Append(Q, n + 1)
  <2>3. ASSUME InMap(c), callback[c] # "done"
        PROVE  Gapless(D, P, L, T) /\ Current(D, P, L, T, n + 1)
    BY <1>3, <2>1, <2>3, GapGrows
  <2>4. CASE Newest(s) = T /\ ~Lags(s) /\ InMap(c) /\ callback[c] # "done"
    <3>1. (L \/ Lags(s)) = L
      BY <1>3, <2>4
    <3> QED BY <2>3, <2>4, <3>1
  <2>5. CASE Newest(s) = Tail(T) /\ Lags(s) /\ InMap(c) /\ callback[c] # "done" /\ Len(T) >= 2
    <3>1. (L \/ Lags(s)) = TRUE /\ T \in Seq(Nat)
      BY <1>3, <2>5, SeqGrows
    <3>2. Gapless(D, P, L, T) /\ Current(D, P, L, T, n + 1)
      BY <2>3, <2>5
    <3> HIDE DEF T
    <3>3. Gapless(D, P, TRUE, Tail(T)) /\ Current(D, P, TRUE, Tail(T), n + 1)
      BY <1>3, <2>5, <3>1, <3>2, GapLost
    <3> QED BY <2>5, <3>1, <3>3
  <2> QED BY <1>5, <1>6, <1>8, <2>2, <2>4, <2>5
<1>9. Carried(c)'
  <2>1. \A p, q \in P : p = q
    BY <1>1 DEF Carried
  <2> HIDE DEF D, P, L, Q, n
  <2> QED BY <1>1, <1>2, <1>4, <1>7, <1>8, <2>1 DEF Carried
<1>10. Unregistered(c) /\ One(c) => Unregistered(c)'
  <2> SUFFICES ASSUME Unregistered(c), One(c) PROVE Unregistered(c)'
    OBVIOUS
  <2>1. Newest(s) = Q /\ ~Lags(s)
    BY <1>5, <1>6 DEF Unregistered
  <2> QED BY <1>2, <1>4, <2>1 DEF Unregistered, Empty
<1>11. RegisteredOnce(c)'
  BY <1>1, <1>4, <1>10 DEF RegisteredOnce, Announces
<1> QED BY <1>9, <1>11

\* A step of one callback loop on its packets.
LEMMA CallbackFrame ==
  ASSUME SendInv, NEW c \in Conns, UNCHANGED <<auths, clients, new_client, main, callback>>,
         \A d \in Conns \ {c} : SameData(d),
         ~Unregistered(c), Carried(c)'
  PROVE  \A d \in Conns : Carried(d)' /\ RegisteredOnce(d)'
<1> SUFFICES ASSUME NEW d \in Conns PROVE Carried(d)' /\ RegisteredOnce(d)'
  OBVIOUS
<1>1. (Sole(d)' => Sole(d)) /\ (One(d)' => One(d)) /\ (InMap(d)' <=> InMap(d))
  BY SoleStays, InMapStays
<1>2. Carried(d) /\ RegisteredOnce(d) /\ TypeOK
  BY DEF SendInv
<1>3. Carried(d)'
  <2>1. CASE d = c
    BY <2>1
  <2>2. CASE d # c
    BY <1>1, <1>2, <2>2, CarriedFrame
  <2> QED BY <2>1, <2>2
<1>4. Unregistered(d) => Unregistered(d)'
  BY <1>1, UnregisteredStays
<1>5. RegisteredOnce(d)'
  BY <1>2, <1>4, OnceFrame
<1> QED BY <1>3, <1>5

LEMMA OnSendStep ==
  ASSUME SendInv, NEW c \in Conns, OnSend(c)
  PROVE  \A d \in Conns : Carried(d)' /\ RegisteredOnce(d)'
<1> DEFINE D == delivered[c]
           Q == on_send_rx[c]
           n == nsent
<1>1. TypeOK /\ Carried(c)
  BY DEF SendInv
<1>2. /\ D \in Seq(Nat) /\ Q \in Seq(Nat) /\ n \in Nat /\ Q # << >>
      /\ sending[c] = {} /\ lagged[c] = FALSE
  BY <1>1, DataType DEF OnSend, AtSelect
<1>3. /\ UNCHANGED <<auths, clients, new_client, main, callback>>
      /\ nsent' = n /\ delivered'[c] = D /\ lagged'[c] = FALSE
      /\ sending'[c] = {Head(Q)} /\ on_send_rx'[c] = Tail(Q)
      /\ \A d \in Conns \ {c} : SameData(d)
  BY <1>1, <1>2 DEF OnSend, mgrVars, mainVars, SameData, TypeOK
<1>4. (Sole(c)' <=> Sole(c)) /\ (One(c)' <=> One(c)) /\ (InMap(c)' <=> InMap(c))
  BY <1>3, SoleStays, InMapStays
<1>5. ~Unregistered(c)
  BY <1>2 DEF Unregistered, Empty
<1>6. ASSUME Sole(c) PROVE UpTo(D, {Head(Q)}, Tail(Q), n) /\ InLine(D, {Head(Q)}, Tail(Q))
  <2>1. UpTo(D, {}, Q, n) /\ InLine(D, {}, Q)
    BY <1>1, <1>2, <1>6 DEF Carried
  <2> HIDE DEF D, Q, n
  <2> QED BY <1>2, <2>1, LineTaken
<1>7. ASSUME One(c)
      PROVE  /\ Gapless(D, {Head(Q)}, FALSE, Tail(Q))
             /\ InMap(c) /\ callback[c] # "done" => Current(D, {Head(Q)}, FALSE, Tail(Q), n)
  <2>1. /\ Gapless(D, {}, FALSE, Q)
        /\ InMap(c) /\ callback[c] # "done" => Current(D, {}, FALSE, Q, n)
    BY <1>1, <1>2, <1>7 DEF Carried
  <2> HIDE DEF D, Q, n
  <2> QED BY <1>2, <2>1, GapTaken
<1>8. Carried(c)'
  <2>1. \A p, q \in {Head(Q)} : p = q
    OBVIOUS
  <2>2. callback'[c] = callback[c]
    BY <1>3
  <2> HIDE DEF D, Q, n
  <2> QED BY <1>3, <1>4, <1>6, <1>7, <2>1, <2>2 DEF Carried
<1> QED BY <1>3, <1>5, <1>8, CallbackFrame

LEMMA OnSendReturnsStep ==
  ASSUME SendInv, NEW c \in Conns, OnSendReturns(c)
  PROVE  \A d \in Conns : Carried(d)' /\ RegisteredOnce(d)'
<1> DEFINE D == delivered[c]
           L == lagged[c]
           Q == on_send_rx[c]
           n == nsent
<1>1. TypeOK /\ Carried(c)
  BY DEF SendInv
<1>2. PICK p \in sending[c] : /\ delivered' = [delivered EXCEPT ![c] = Append(@, p)]
                              /\ sending' = [sending EXCEPT ![c] = @ \ {p}]
  BY DEF OnSendReturns
<1>3. sending[c] = {p}
  BY <1>1 DEF Carried
<1>4. /\ D \in Seq(Nat) /\ Q \in Seq(Nat) /\ n \in Nat /\ L \in BOOLEAN
      /\ p \in Nat /\ p # 0 /\ {p} \in SUBSET Nat
  BY <1>1, <1>3, DataType
<1>5. /\ UNCHANGED <<auths, clients, new_client, main, callback>>
      /\ nsent' = n /\ delivered'[c] = Append(D, p) /\ lagged'[c] = L
      /\ sending'[c] = {} /\ on_send_rx'[c] = Q
      /\ \A d \in Conns \ {c} : SameData(d)
  BY <1>1, <1>2, <1>3 DEF OnSendReturns, mgrVars, mainVars, SameData, TypeOK
<1>6. (Sole(c)' <=> Sole(c)) /\ (One(c)' <=> One(c)) /\ (InMap(c)' <=> InMap(c))
  BY <1>5, SoleStays, InMapStays
<1>7. ~Unregistered(c)
  BY <1>3 DEF Unregistered, Empty
<1>8. ASSUME Sole(c) PROVE UpTo(Append(D, p), {}, Q, n) /\ InLine(Append(D, p), {}, Q)
  <2>1. UpTo(D, {p}, Q, n) /\ InLine(D, {p}, Q)
    BY <1>1, <1>3, <1>8 DEF Carried
  <2> HIDE DEF D, Q, n
  <2> QED BY <1>4, <2>1, LineDone
<1>9. ASSUME One(c)
      PROVE  /\ Gapless(Append(D, p), {}, L, Q)
             /\ InMap(c) /\ callback[c] # "done" => Current(Append(D, p), {}, L, Q, n)
  <2>1. /\ Gapless(D, {p}, L, Q)
        /\ InMap(c) /\ callback[c] # "done" => Current(D, {p}, L, Q, n)
    BY <1>1, <1>3, <1>9 DEF Carried
  <2> HIDE DEF D, L, Q, n
  <2> QED BY <1>4, <2>1, GapDone
<1>10. Carried(c)'
  <2>1. callback'[c] = callback[c]
    BY <1>5
  <2> HIDE DEF D, L, Q, n
  <2> QED BY <1>5, <1>6, <1>8, <1>9, <2>1 DEF Carried
<1> QED BY <1>5, <1>7, <1>10, CallbackFrame

LEMMA OnLaggedStep ==
  ASSUME SendInv, NEW c \in Conns, OnLagged(c)
  PROVE  \A d \in Conns : Carried(d)' /\ RegisteredOnce(d)'
<1> DEFINE D == delivered[c]
           Q == on_send_rx[c]
           n == nsent
<1>1. TypeOK /\ Carried(c)
  BY DEF SendInv
<1>2. /\ D \in Seq(Nat) /\ Q \in Seq(Nat) /\ n \in Nat
      /\ sending[c] = {} /\ lagged[c] = TRUE
  BY <1>1, DataType DEF OnLagged, AtSelect
<1>3. /\ UNCHANGED <<auths, clients, new_client, main, callback>>
      /\ nsent' = n /\ delivered'[c] = Append(D, 0) /\ lagged'[c] = FALSE
      /\ sending'[c] = {} /\ on_send_rx'[c] = Q
      /\ \A d \in Conns \ {c} : SameData(d)
  BY <1>1, <1>2 DEF OnLagged, mgrVars, mainVars, SameData, TypeOK
<1>4. (Sole(c)' <=> Sole(c)) /\ (One(c)' <=> One(c)) /\ (InMap(c)' <=> InMap(c))
  BY <1>3, SoleStays, InMapStays
<1>5. ~Unregistered(c)
  BY <1>2 DEF Unregistered, Empty
<1>6. ASSUME Sole(c) PROVE UpTo(Append(D, 0), {}, Q, n) /\ InLine(Append(D, 0), {}, Q)
  <2>1. UpTo(D, {}, Q, n) /\ InLine(D, {}, Q)
    BY <1>1, <1>2, <1>6 DEF Carried
  <2>2. 0 \in Nat /\ {} \in SUBSET Nat
    OBVIOUS
  <2> HIDE DEF D, Q, n
  <2> QED BY <1>2, <2>1, <2>2, LineDone
<1>7. ASSUME One(c)
      PROVE  /\ Gapless(Append(D, 0), {}, FALSE, Q)
             /\ InMap(c) /\ callback[c] # "done" => Current(Append(D, 0), {}, FALSE, Q, n)
  <2>1. /\ Gapless(D, {}, TRUE, Q)
        /\ InMap(c) /\ callback[c] # "done" => Current(D, {}, TRUE, Q, n)
    BY <1>1, <1>2, <1>7 DEF Carried
  <2> HIDE DEF D, Q, n
  <2> QED BY <1>2, <2>1, GapTold
<1>8. Carried(c)'
  <2>1. callback'[c] = callback[c]
    BY <1>3
  <2> HIDE DEF D, Q, n
  <2> QED BY <1>3, <1>4, <1>6, <1>7, <2>1 DEF Carried
<1> QED BY <1>3, <1>5, <1>8, CallbackFrame

-----------------------------------------------------------------------------
\* A connection that has not authenticated yet is not announced.
LEMMA NotAnnounced ==
  ASSUME Registry, NEW c \in Conns, auths[c] = << >>,
         NEW i \in 1 .. Len(new_client)
  PROVE  ~Announces(new_client[i], c)
<1>1. Accepted(c) = {}
  BY DEF Accepted
<1>2. GoodNew(new_client[i])
  BY DEF Registry, SignalsAccepted
<1> QED BY <1>1, <1>2 DEF GoodNew, Announces

\* The manager handles a signal: a connection that authenticates once is put
\* into the map before the first packet is broadcast to it.
LEMMA SignalStep ==
  ASSUME SendInv, ClientSignal
  PROVE  \A c \in Conns : Carried(c)' /\ RegisteredOnce(c)'
<1> SUFFICES ASSUME NEW c \in Conns PROVE Carried(c)' /\ RegisteredOnce(c)'
  OBVIOUS
<1> DEFINE h == new_client[1]
<1>1. Carried(c) /\ RegisteredOnce(c) /\ TypeOK /\ Registry
  BY DEF SendInv
<1>2. /\ UNCHANGED <<auths, main, callback>> /\ SameData(c)
      /\ clients' = Managed(Head(new_client)) /\ new_client' = Tail(new_client)
  BY DEF ClientSignal, mainVars, cbVars, SameData
<1>3. /\ Head(new_client) = h /\ 1 \in 1 .. Len(new_client)
      /\ \A i \in 1 .. Len(new_client') :
           i + 1 \in 1 .. Len(new_client) /\ new_client'[i] = new_client[i + 1]
  <2>1. new_client \in Seq(Signal) /\ new_client # << >>
    BY <1>1 DEF ClientSignal, TypeOK
  <2> QED BY <1>2, <2>1, SeqShrinks
<1>4. InMap(c)' => InMap(c) \/ Announces(h, c)
  <2> SUFFICES ASSUME NEW k \in Key, clients'[k] = c PROVE InMap(c) \/ Announces(h, c)
    BY DEF InMap
  <2>1. clients'[k] = clients[k] \/ clients'[k] = NoConn \/ (h.type = "New" /\ clients'[k] = h.conn)
    BY <1>1, <1>2, <1>3 DEF Managed, TypeOK
  <2> QED BY <2>1, ServerAssumption DEF InMap, Announces
<1>5. (Sole(c)' <=> Sole(c)) /\ (One(c)' <=> One(c))
  BY <1>2, SoleStays
<1>6. ASSUME One(c), Announces(h, c)
      PROVE  /\ Unregistered(c) /\ main[c] # "new" /\ auths[c] # << >>
             /\ \A i \in 1 .. Len(new_client') : ~Announces(new_client'[i], c)
  <2>1. Unregistered(c) /\ main[c] # "new"
    BY <1>1, <1>3, <1>6 DEF RegisteredOnce
  <2>2. auths[c] # << >>
    BY <1>1, <1>3, <1>6, NotAnnounced
  <2>3. ASSUME NEW i \in 1 .. Len(new_client'), Announces(new_client'[i], c)
        PROVE  FALSE
    <3>1. i + 1 \in 1 .. Len(new_client) /\ Announces(new_client[i + 1], c) /\ i + 1 # 1
      BY <1>3, <2>3
    <3> QED BY <1>1, <1>3, <1>6, <3>1 DEF RegisteredOnce
  <2> QED BY <2>1, <2>2, <2>3
<1>7. Carried(c)'
  <2>1. One(c)' /\ InMap(c)' => InMap(c) \/ Empty(c)
    BY <1>4, <1>5, <1>6 DEF Unregistered
  <2> QED BY <1>1, <1>2, <1>5, <2>1, CarriedFrame
<1>8. RegisteredOnce(c)'
  <2> SUFFICES ASSUME One(c)
               PROVE  /\ auths[c] = << >> => Unregistered(c)'
                      /\ main[c] = "new" => Unregistered(c)'
                      /\ \A i \in 1 .. Len(new_client') : Announces(new_client'[i], c)
                           => Unregistered(c)' /\ main[c] # "new"
                      /\ \A i, j \in 1 .. Len(new_client') :
                           Announces(new_client'[i], c) /\ Announces(new_client'[j], c) => i = j
    BY <1>2, <1>5 DEF RegisteredOnce, Announces
  <2>1. CASE Announces(h, c)
    BY <1>6, <2>1
  <2>2. CASE ~Announces(h, c)
    <3>1. Unregistered(c) => Unregistered(c)'
      BY <1>2, <1>4, <2>2, UnregisteredStays
    <3>2. ASSUME NEW i \in 1 .. Len(new_client'), Announces(new_client'[i], c)
          PROVE  Unregistered(c)' /\ main[c] # "new"
      <4>1. i + 1 \in 1 .. Len(new_client) /\ Announces(new_client[i + 1], c)
        BY <1>3, <3>2
      <4> QED BY <1>1, <3>1, <4>1 DEF RegisteredOnce
    <3>3. ASSUME NEW i \in 1 .. Len(new_client'), NEW j \in 1 .. Len(new_client'),
                 Announces(new_client'[i], c), Announces(new_client'[j], c)
          PROVE  i = j
      <4>1. /\ i + 1 \in 1 .. Len(new_client) /\ Announces(new_client[i + 1], c)
            /\ j + 1 \in 1 .. Len(new_client) /\ Announces(new_client[j + 1], c)
        BY <1>3, <3>3
      <4>2. i + 1 = j + 1
        BY <1>1, <4>1 DEF RegisteredOnce
      <4> QED BY <4>2
    <3> QED BY <1>1, <3>1, <3>2, <3>3 DEF RegisteredOnce
  <2> QED BY <2>1, <2>2
<1> QED BY <1>7, <1>8

\* A main loop sends a signal; New is sent by one that was about to, once.
LEMMA SignalledStep ==
  ASSUME SendInv, NEW c \in Conns, NEW s \in Signal, s.conn = c, Signalled(s),
         UNCHANGED <<dataVars, auths, clients, callback>>,
         main'[c] # "new", \A d \in Conns \ {c} : main'[d] = main[d],
         s.type = "New" => main[c] = "new"
  PROVE  \A d \in Conns : Carried(d)' /\ RegisteredOnce(d)'
<1>1. CASE new_client' = new_client
  BY <1>1, QuietStep
<1>2. CASE new_client' = Append(new_client, s)
  <2> SUFFICES ASSUME NEW d \in Conns PROVE Carried(d)' /\ RegisteredOnce(d)'
    OBVIOUS
  <2> DEFINE m == Len(new_client)
  <2>1. Carried(d) /\ RegisteredOnce(d) /\ TypeOK
    BY DEF SendInv
  <2>2. /\ (Sole(d)' <=> Sole(d)) /\ (One(d)' <=> One(d)) /\ (InMap(d)' <=> InMap(d))
        /\ SameData(d)
    BY SoleStays, InMapStays DEF dataVars, SameData
  <2>3. /\ m \in Nat
        /\ \A i \in 1 .. m : new_client'[i] = new_client[i]
        /\ new_client'[m + 1] = s
        /\ \A i \in 1 .. Len(new_client') : i \in 1 .. m \/ i = m + 1
    <3>1. new_client \in Seq(Signal)
      BY <2>1 DEF TypeOK
    <3> QED BY <1>2, <3>1, SeqGrows
  <2>4. Carried(d)'
    BY <2>1, <2>2, CarriedFrame
  <2>5. Unregistered(d) => Unregistered(d)'
    BY <2>2, UnregisteredStays
  <2>6. main'[d] = "new" => main[d] = "new" /\ d # c
    OBVIOUS
  <2>7. Announces(s, d) => d = c /\ main[d] = "new"
    BY DEF Announces
  <2> HIDE DEF m
  <2>8. ASSUME One(d)
        PROVE  /\ auths[d] = << >> => Unregistered(d)'
               /\ main'[d] = "new" => Unregistered(d)'
    BY <2>1, <2>5, <2>6, <2>8 DEF RegisteredOnce
  <2>9. ASSUME One(d), NEW i \in 1 .. Len(new_client'), Announces(new_client'[i], d)
        PROVE  Unregistered(d)' /\ main'[d] # "new"
    <3>1. CASE i \in 1 .. m
      <4>1. Announces(new_client[i], d)
        BY <2>3, <2>9, <3>1
      <4> QED BY <2>1, <2>5, <2>6, <2>9, <3>1, <4>1 DEF RegisteredOnce, m
    <3>2. CASE i = m + 1
      <4>1. d = c /\ main[d] = "new"
        BY <2>3, <2>7, <2>9, <3>2
      <4> QED BY <2>1, <2>5, <2>9, <4>1 DEF RegisteredOnce
    <3> QED BY <2>3, <3>1, <3>2
  <2>10. ASSUME One(d), Announces(s, d), NEW i \in 1 .. m
         PROVE  ~Announces(new_client[i], d)
    BY <2>1, <2>7, <2>10 DEF RegisteredOnce, m
  <2>11. ASSUME One(d), NEW i \in 1 .. Len(new_client'), NEW j \in 1 .. Len(new_client'),
                Announces(new_client'[i], d), Announces(new_client'[j], d)
         PROVE  i = j
    <3>1. CASE i \in 1 .. m /\ j \in 1 .. m
      <4>1. Announces(new_client[i], d) /\ Announces(new_client[j], d)
        BY <2>3, <2>11, <3>1
      <4> QED BY <2>1, <2>11, <3>1, <4>1 DEF RegisteredOnce, m
    <3>2. CASE i = m + 1 /\ j = m + 1
      BY <3>2
    <3>3. CASE i = m + 1 /\ j \in 1 .. m
      <4>1. Announces(s, d) /\ Announces(new_client[j], d)
        BY <2>3, <2>11, <3>3
      <4> QED BY <2>10, <2>11, <3>3, <4>1
    <3>4. CASE i \in 1 .. m /\ j = m + 1
      <4>1. Announces(s, d) /\ Announces(new_client[i], d)
        BY <2>3, <2>11, <3>4
      <4> QED BY <2>10, <2>11, <3>4, <4>1
    <3> QED BY <2>3, <3>1, <3>2, <3>3, <3>4
  <2>12. RegisteredOnce(d)'
    BY <2>2, <2>8, <2>9, <2>11 DEF RegisteredOnce, Announces
  <2> QED BY <2>4, <2>12
<1> QED BY <1>1, <1>2 DEF Signalled

\* on_auth answers: a second answer ends the claims about a single one.
LEMMA AuthedStep ==
  ASSUME SendInv, NEW c \in Conns, NEW ok \in BOOLEAN, Authed(c, ok)
  PROVE  \A d \in Conns : Carried(d)' /\ RegisteredOnce(d)'
<1> SUFFICES ASSUME NEW d \in Conns PROVE Carried(d)' /\ RegisteredOnce(d)'
  OBVIOUS
<1>1. Carried(d) /\ RegisteredOnce(d) /\ TypeOK /\ Registry
  BY DEF SendInv
<1>2. UNCHANGED <<dataVars, clients, new_client, callback>> /\ SameData(d)
  BY DEF Authed, mgrVars, cbVars, dataVars, SameData
<1>3. InMap(d)' <=> InMap(d)
  BY <1>2, InMapStays
<1>4. Unregistered(d) => Unregistered(d)'
  BY <1>2, <1>3, UnregisteredStays
<1>5. CASE d # c
  <2>1. auths'[d] = auths[d] /\ main'[d] = main[d]
    BY <1>1, <1>5 DEF Authed, TypeOK
  <2>2. (Sole(d)' <=> Sole(d)) /\ (One(d)' <=> One(d))
    BY <2>1 DEF Sole, One, Accepted
  <2>3. Carried(d)'
    BY <1>1, <1>2, <1>3, <2>2, CarriedFrame
  <2>4. RegisteredOnce(d)'
    BY <1>1, <1>2, <1>4, <2>1, <2>2 DEF RegisteredOnce, Announces
  <2> QED BY <2>3, <2>4
<1>6. CASE d = c
  <2>1. Accepted(d) \subseteq Accepted(d)'
    <3>1. client_name[c] \in Names
      BY <1>1 DEF Authed, Registry, NameTaken
    <3> QED BY <1>1, <3>1, AcceptedGrows DEF Authed, Registry
  <2>2. Sole(d)' => Sole(d)
    BY <2>1 DEF Sole
  <2>3. /\ auths[d] \in Seq([name : Names, ok : BOOLEAN]) /\ Len(auths[d]) \in Nat
        /\ Len(auths'[d]) = Len(auths[d]) + 1
    <3>1. auths[d] \in Seq([name : Names, ok : BOOLEAN]) /\ Len(auths[d]) \in Nat
      <4>1. auths \in [Conns -> Seq([name : Names, ok : BOOLEAN])]
        BY <1>1 DEF Registry, RegistryType
      <4>2. auths[d] \in Seq([name : Names, ok : BOOLEAN])
        BY <4>1
      <4> QED BY <4>2, LenProperties
    <3>2. auths'[d] = Append(auths[d], [name |-> client_name[c], ok |-> ok])
      BY <1>1, <1>6 DEF Authed, TypeOK
    <3> QED BY <3>1, <3>2
  <2>4. One(d)' => auths[d] = << >> /\ One(d) /\ auths'[d] # << >>
    <3> SUFFICES ASSUME One(d)' PROVE auths[d] = << >> /\ One(d) /\ auths'[d] # << >>
      OBVIOUS
    <3>1. Len(auths'[d]) <= 1
      BY DEF One
    <3>2. Len(auths[d]) = 0 /\ Len(auths'[d]) = 1
      BY <2>3, <3>1
    <3>3. auths[d] = << >>
      BY <2>3, <3>2
    <3>4. auths'[d] # << >>
      BY <3>2
    <3> QED BY <3>2, <3>3, <3>4 DEF One
  <2>5. Carried(d)'
    BY <1>1, <1>2, <1>3, <2>2, <2>4, CarriedFrame
  <2>6. RegisteredOnce(d)'
    <3> SUFFICES ASSUME One(d)'
                 PROVE  /\ Unregistered(d)'
                        /\ \A i \in 1 .. Len(new_client) : ~Announces(new_client[i], d)
      BY <1>2 DEF RegisteredOnce, Announces
    <3>1. auths[d] = << >> /\ One(d)
      BY <2>4
    <3>2. Unregistered(d)'
      BY <1>1, <1>4, <3>1 DEF RegisteredOnce
    <3> QED BY <1>1, <3>1, <3>2, NotAnnounced
  <2> QED BY <2>5, <2>6
<1> QED BY <1>5, <1>6

-----------------------------------------------------------------------------
LEMMA InitSends == Init => \A c \in Conns : Carried(c) /\ RegisteredOnce(c) /\ Ended(c)
<1> SUFFICES ASSUME Init, NEW c \in Conns PROVE Carried(c) /\ RegisteredOnce(c) /\ Ended(c)
  OBVIOUS
<1>1. /\ delivered[c] = << >> /\ sending[c] = {} /\ on_send_rx[c] = << >> /\ lagged[c] = FALSE
      /\ nsent = 0 /\ new_client = << >> /\ main[c] = "none" /\ callback[c] = "none"
      /\ \A k \in Key : clients[k] = NoConn
  BY DEF Init
<1>2. ~InMap(c)
  BY <1>1, ServerAssumption DEF InMap
<1>3. UpTo(<< >>, {}, << >>, 0) /\ InLine(<< >>, {}, << >>) /\ Gapless(<< >>, {}, FALSE, << >>)
  BY DEF UpTo, InLine, Gapless
<1>4. Carried(c)
  BY <1>1, <1>2, <1>3 DEF Carried
<1>5. RegisteredOnce(c)
  BY <1>1, <1>2 DEF RegisteredOnce, Unregistered, Empty
<1> QED BY <1>1, <1>4, <1>5 DEF Ended

\* The callback loop ends only after the main loop, which never starts again.
LEMMA NextEnded ==
  ASSUME TypeOK, [Next]_vars, NEW d \in Conns, Ended(d)
  PROVE  Ended(d)'
<1> USE DEF mgrVars, mainVars, cbVars, TypeOK, Ended
<1>1. CASE Managing \/ Broadcast \/ Shutdown \/ \E k \in Key : CloseClient(k)
  BY <1>1 DEF Managing, CloseSent, ClientSignal, Broadcast, Shutdown, CloseClient
<1>2. ASSUME NEW c \in Conns, Accept(c) PROVE Ended(d)'
  BY <1>2 DEF Accept
<1>3. ASSUME NEW c \in Conns, MainStep(c) PROVE Ended(d)'
  BY <1>3 DEF MainStep, PongSent, Authed, SendNew, QueueAuth, Disconnected, SendExit
<1>4. ASSUME NEW c \in Conns, Received(c) PROVE Ended(d)'
  BY <1>4 DEF Received, Recv, RecvHeartbeat, RecvPacket, RecvBadAuth, RecvAuth, Break
<1>5. ASSUME NEW c \in Conns, Leaving(c) PROVE Ended(d)'
  BY <1>5 DEF Leaving, HeartbeatCheck, ExitSignal, RecvNone, Break
<1>6. ASSUME NEW c \in Conns, CallbackStep(c) PROVE Ended(d)'
  BY <1>6 DEF CallbackStep, OnSend, OnSendReturns, OnLagged, OnPacket, CallbackEnds, SendersGone
<1>7. ASSUME NEW c \in Conns,
             SpawnedSends(c) \/ TransportEnds(c) \/ PeerQuiet(c) \/ TimePasses(c)
      PROVE  Ended(d)'
  BY <1>7 DEF SpawnedSends, TransportEnds, PeerQuiet, TimePasses
<1>8. CASE UNCHANGED vars
  BY <1>8 DEF vars
<1> QED BY <1>1, <1>2, <1>3, <1>4, <1>5, <1>6, <1>7, <1>8 DEF Next, Conn

LEMMA NextSends ==
  ASSUME SendInv, [Next]_vars
  PROVE  \A d \in Conns : Carried(d)' /\ RegisteredOnce(d)'
<1> DEFINE Goal == \A d \in Conns : Carried(d)' /\ RegisteredOnce(d)'
           NoNew == \A d \in Conns : main'[d] = "new" => main[d] = "new"
           Quiet == /\ UNCHANGED <<dataVars, auths, clients, new_client>>
                    /\ NoNew
                    /\ \A d \in Conns : callback'[d] # "done" => callback[d] # "done"
<1> USE DEF mgrVars, mainVars, cbVars, dataVars
<1>0. TypeOK /\ Registry /\ \A d \in Conns : Ended(d)
  BY DEF SendInv
<1>q. Quiet => Goal
  BY QuietStep
<1>1. CASE CloseSent
  BY <1>1, <1>q DEF CloseSent
<1>2. CASE ClientSignal
  BY <1>2, SignalStep
<1>3. CASE Broadcast
  BY <1>3, BroadcastStep
<1>4. CASE Shutdown
  <2>1. \A k \in Key : clients'[k] \in {clients[k], NoConn}
    BY <1>4 DEF Shutdown
  <2> QED BY <1>4, <2>1, RemovedStep DEF Shutdown
<1>5. ASSUME NEW k \in Key, CloseClient(k) PROVE Goal
  <2>1. \A j \in Key : clients'[j] \in {clients[j], NoConn}
    BY <1>0, <1>5 DEF CloseClient, Removed, TypeOK
  <2> QED BY <1>5, <2>1, RemovedStep DEF CloseClient
<1>6. ASSUME NEW c \in Conns, Accept(c) PROVE Goal
  <2>1. Quiet
    BY <1>0, <1>6 DEF Accept, TypeOK, Ended
  <2> QED BY <1>q, <2>1
<1>7. ASSUME NEW c \in Conns, NEW p, p # "new", main' = [main EXCEPT ![c] = p] PROVE NoNew
  BY <1>0, <1>7 DEF TypeOK
<1>8. ASSUME NEW c \in Conns, MainStep(c) PROVE Goal
  <2>1. CASE PongSent(c)
    BY <1>7, <1>q, <2>1 DEF PongSent
  <2>2. CASE Authed(c, TRUE)
    BY <2>2, AuthedStep
  <2>3. CASE Authed(c, FALSE)
    BY <2>3, AuthedStep
  <2>4. CASE SendNew(c)
    <3> DEFINE s == [type |-> "New", key |-> MyKey(c), conn |-> c]
    <3>1. s \in Signal
      <4>1. client_name[c] \in Names
        BY <1>0, <2>4 DEF Registry, NameTaken, SendNew
      <4> QED BY <4>1 DEF Signal, MyKey, Key
    <3>2. /\ s.conn = c /\ Signalled(s) /\ main[c] = "new" /\ main'[c] # "new"
          /\ \A d \in Conns \ {c} : main'[d] = main[d]
      BY <1>0, <2>4 DEF SendNew, TypeOK
    <3> HIDE DEF s
    <3> QED BY <2>4, <3>1, <3>2, SignalledStep DEF SendNew
  <2>5. CASE QueueAuth(c)
    BY <1>7, <1>q, <2>5 DEF QueueAuth
  <2>6. CASE Disconnected(c)
    BY <1>7, <1>q, <2>6 DEF Disconnected
  <2>7. CASE SendExit(c)
    <3> DEFINE s == [type |-> "Exit", key |-> MyKey(c), conn |-> c]
    <3>1. s \in Signal
      <4>1. client_name[c] \in Names \cup {WaitAuth}
        BY <1>0 DEF TypeOK
      <4> QED BY <4>1 DEF Signal, MyKey, Key
    <3>2. /\ s.conn = c /\ Signalled(s) /\ s.type # "New" /\ main'[c] # "new"
          /\ \A d \in Conns \ {c} : main'[d] = main[d]
      BY <1>0, <2>7 DEF SendExit, TypeOK
    <3> HIDE DEF s
    <3> QED BY <2>7, <3>1, <3>2, SignalledStep DEF SendExit
  <2> QED BY <1>8, <2>1, <2>2, <2>3, <2>4, <2>5, <2>6, <2>7 DEF MainStep
<1>9. ASSUME NEW c \in Conns, Break(c) PROVE Goal
  <2>1. NoNew
    BY <1>7, <1>9 DEF Break
  <2> QED BY <1>9, <1>q, <2>1 DEF Break
<1>10. ASSUME NEW c \in Conns, Received(c) PROVE Goal
  <2>1. CASE RecvHeartbeat(c)
    BY <1>7, <1>q, <2>1 DEF RecvHeartbeat
  <2>2. CASE RecvPacket(c)
    BY <1>q, <2>2 DEF RecvPacket
  <2>3. CASE RecvBadAuth(c)
    BY <1>9, <2>3 DEF RecvBadAuth
  <2>4. ASSUME NEW n \in Names, RecvAuth(c, n) PROVE Goal
    BY <1>7, <1>q, <2>4 DEF RecvAuth
  <2> QED BY <1>10, <2>1, <2>2, <2>3, <2>4 DEF Received
<1>11. ASSUME NEW c \in Conns, Leaving(c) PROVE Goal
  BY <1>9, <1>11 DEF Leaving, HeartbeatCheck, ExitSignal, RecvNone
<1>12. ASSUME NEW c \in Conns, CallbackStep(c) PROVE Goal
  <2>1. CASE OnSend(c)
    BY <2>1, OnSendStep
  <2>2. CASE OnSendReturns(c)
    BY <2>2, OnSendReturnsStep
  <2>3. CASE OnLagged(c)
    BY <2>3, OnLaggedStep
  <2>4. CASE OnPacket(c)
    BY <1>q, <2>4 DEF OnPacket
  <2>5. CASE CallbackEnds(c)
    BY <1>0, <1>q, <2>5 DEF CallbackEnds, AtSelect, TypeOK
  <2> QED BY <1>12, <2>1, <2>2, <2>3, <2>4, <2>5 DEF CallbackStep
<1>13. ASSUME NEW c \in Conns,
              SpawnedSends(c) \/ TransportEnds(c) \/ PeerQuiet(c) \/ TimePasses(c)
       PROVE  Goal
  BY <1>q, <1>13 DEF SpawnedSends, TransportEnds, PeerQuiet, TimePasses
<1>14. CASE UNCHANGED vars
  BY <1>q, <1>14 DEF vars
<1>15. ASSUME NEW c \in Conns, Conn(c) PROVE Goal
  <2> HIDE DEF Goal
  <2> QED BY <1>6, <1>8, <1>10, <1>11, <1>12, <1>13, <1>15 DEF Conn
<1> QED BY <1>1, <1>2, <1>3, <1>4, <1>5, <1>14, <1>15, Zenon DEF Next, Managing

LEMMA SendInvariant == Safety => []SendInv
<1>1. Init => SendInv
  BY InitTypes, InitRegistry, InitSends DEF SendInv
<1>2. SendInv /\ [Next]_vars => SendInv'
  <2> SUFFICES ASSUME SendInv, [Next]_vars PROVE SendInv'
    OBVIOUS
  <2>1. TypeOK' /\ Registry'
    BY NextTypes, NextRegistry DEF SendInv
  <2>2. \A c \in Conns : Ended(c)'
    BY NextEnded DEF SendInv
  <2>3. \A c \in Conns : Carried(c)' /\ RegisteredOnce(c)'
    BY NextSends
  <2> QED BY <2>1, <2>2, <2>3 DEF SendInv
<1> QED BY <1>1, <1>2, PTL DEF Safety

\* For a connection for which at most one name has been accepted, on_send is
\* called in the order of the broadcast and never twice for a packet
\* (server.rs:323), whatever the channel loses and however the registrations of
\* other connections come in between.
THEOREM OrderedSendsHolds == Safety => []OrderedSends
<1>1. SendInv => OrderedSends
  <2> SUFFICES ASSUME SendInv, NEW c \in Conns, Cardinality(Accepted(c)) <= 1
               PROVE  \A i, j \in 1 .. Len(delivered[c]) :
                        i < j /\ delivered[c][i] # 0 /\ delivered[c][j] # 0
                          => delivered[c][i] < delivered[c][j]
    BY DEF OrderedSends
  <2>1. Sole(c)
    <3> SUFFICES ASSUME NEW x \in Accepted(c), NEW y \in Accepted(c), x # y PROVE FALSE
      BY DEF Sole
    <3>1. IsFiniteSet(Accepted(c))
      BY AcceptedFinite DEF SendInv, Registry
    <3>2. {x, y} \subseteq Accepted(c) /\ Cardinality({x, y}) = 2
      <4>1. IsFiniteSet({x}) /\ Cardinality({x}) = 1
        BY FS_Singleton
      <4>2. Cardinality({x} \cup {y}) = 2
        <5>1. y \notin {x}
          OBVIOUS
        <5>2. Cardinality({x} \cup {y}) = Cardinality({x}) + 1
          BY <4>1, <5>1, FS_AddElement, Zenon
        <5> QED BY <4>1, <5>2
      <4>3. {x} \cup {y} = {x, y}
        OBVIOUS
      <4> QED BY <4>2, <4>3
    <3>3. 2 <= Cardinality(Accepted(c)) /\ Cardinality(Accepted(c)) \in Nat
      BY <3>1, <3>2, FS_Subset, FS_CardinalityType
    <3> QED BY <3>3
  <2>2. InLine(delivered[c], sending[c], on_send_rx[c])
    BY <2>1 DEF SendInv, Carried
  <2> QED BY <2>2 DEF InLine
<1> QED BY <1>1, SendInvariant, PTL

\* A connection that authenticates at most once loses a packet of the broadcast
\* only with a RecvError::Lagged in its place (server.rs:66, 326), for every size
\* of the channel: between two of them what on_send is given is an unbroken run.
THEOREM NoSilentGapHolds == Safety => []NoSilentGap
<1>1. SendInv => NoSilentGap
  <2> SUFFICES ASSUME SendInv, NEW c \in Conns, Len(auths[c]) <= 1
               PROVE  \A i \in 1 .. Len(delivered[c]) - 1 :
                        delivered[c][i] # 0 /\ delivered[c][i + 1] # 0
                          => delivered[c][i + 1] = delivered[c][i] + 1
    BY DEF NoSilentGap
  <2>1. Gapless(delivered[c], sending[c], lagged[c], on_send_rx[c])
    BY DEF SendInv, Carried, One
  <2> QED BY <2>1 DEF Gapless
<1> QED BY <1>1, SendInvariant, PTL

-----------------------------------------------------------------------------
(* How often a connection is told to exit.  Each successful auth is worth  *)
(* one exit signal, and passes through one place at a time: the main loop  *)
(* about to send New, the channel to the manager, the map, the manager     *)
(* that closes the client, the exit channel.  Entries may be lost on the   *)
(* way (overwritten, removed by Exit, dropped by Shutdown), never doubled. *)

News(c) == {i \in 1 .. Len(new_client) : Announces(new_client[i], c)}

Entries(c) == {k \in Key : clients[k] = c}

Bit(b) == IF b THEN 1 ELSE 0

Owed(c) == Bit(main[c] = "new") + Cardinality(News(c)) + Cardinality(Entries(c))
           + Bit(closing = c) + exit_rx[c]

Accounted == \A c \in Conns : Owed(c) <= OkAuths(c)

CloseInv == TypeOK /\ Registry /\ Accounted

\* Sets that shrink, grow by an element or lose one.
LEMMA FewerElements ==
  ASSUME NEW S, IsFiniteSet(S), NEW T, T \subseteq S
  PROVE  /\ IsFiniteSet(T) /\ Cardinality(T) \in Nat /\ Cardinality(S) \in Nat
         /\ Cardinality(T) <= Cardinality(S)
BY FS_Subset, FS_CardinalityType

LEMMA OneElementMore ==
  ASSUME NEW S, IsFiniteSet(S), NEW x, NEW T, T \subseteq S \cup {x}
  PROVE  Cardinality(T) <= Cardinality(S) + 1
<1>1. /\ IsFiniteSet(S \cup {x})
      /\ Cardinality(S \cup {x}) = Cardinality(S) \/ Cardinality(S \cup {x}) = Cardinality(S) + 1
  BY FS_AddElement
<1>2. /\ Cardinality(T) \in Nat /\ Cardinality(S \cup {x}) \in Nat
      /\ Cardinality(T) <= Cardinality(S \cup {x})
  BY <1>1, FewerElements
<1>3. Cardinality(S) \in Nat
  BY FS_CardinalityType
<1> QED BY <1>1, <1>2, <1>3

LEMMA OneElementLess ==
  ASSUME NEW S, IsFiniteSet(S), NEW x \in S, NEW T, T \subseteq S \ {x}
  PROVE  Cardinality(T) + 1 <= Cardinality(S)
<1>1. IsFiniteSet(S \ {x}) /\ Cardinality(S \ {x}) = Cardinality(S) - 1
  BY FS_RemoveElement
<1>2. /\ Cardinality(T) \in Nat /\ Cardinality(S \ {x}) \in Nat
      /\ Cardinality(T) <= Cardinality(S \ {x})
  BY <1>1, FewerElements
<1>3. Cardinality(S) \in Nat
  BY FS_CardinalityType
<1> QED BY <1>1, <1>2, <1>3

\* The positions in a sequence once its head is taken.
LEMMA ShiftedElements ==
  ASSUME NEW S, S \subseteq Nat \ {0}, IsFiniteSet(S),
         NEW T, T \subseteq Nat \ {0}, \A i \in T : i + 1 \in S
  PROVE  /\ Cardinality(T) <= Cardinality(S)
         /\ 1 \in S => Cardinality(T) + 1 <= Cardinality(S)
<1> DEFINE R == S \ {1}
           f == [i \in T |-> i + 1]
<1>1. /\ IsFiniteSet(R) /\ Cardinality(R) \in Nat /\ Cardinality(S) \in Nat
      /\ Cardinality(R) <= Cardinality(S)
  BY FewerElements
<1>2. 1 \in S => Cardinality(R) + 1 <= Cardinality(S)
  BY OneElementLess
<1>3. f \in Injection(T, R)
  <2>1. \A i \in T : i + 1 \in R
    OBVIOUS
  <2>2. \A i, j \in T : i + 1 = j + 1 => i = j
    OBVIOUS
  <2>3. f \in [T -> R] /\ \A i, j \in T : f[i] = f[j] => i = j
    BY <2>1, <2>2
  <2> QED BY <2>3 DEF Injection, IsInjective
<1> HIDE DEF R, f
<1>4. IsFiniteSet(T) /\ Cardinality(T) <= Cardinality(R)
  BY <1>1, <1>3, FS_Injection
<1>5. Cardinality(T) \in Nat
  BY <1>4, FS_CardinalityType
<1> QED BY <1>1, <1>2, <1>4, <1>5

LEMMA CountsType ==
  ASSUME TypeOK, Registry, NEW c \in Conns
  PROVE  /\ IsFiniteSet(News(c)) /\ Cardinality(News(c)) \in Nat
         /\ IsFiniteSet(Entries(c)) /\ Cardinality(Entries(c)) \in Nat
         /\ OkAuths(c) \in Nat /\ exit_rx[c] \in Nat
<1>1. IsFiniteSet(Entries(c))
  <2>1. IsFiniteSet(Accepted(c)) /\ IsFiniteSet({Addr[c]})
    BY AcceptedFinite, FS_Singleton DEF Registry
  <2>2. IsFiniteSet(Accepted(c) \X {Addr[c]})
    BY <2>1, FS_Product
  <2> QED BY <2>2, EntriesOf, FewerElements DEF Entries
<1>2. IsFiniteSet(News(c))
  <2>1. IsFiniteSet(1 .. Len(new_client))
    <3>1. Len(new_client) \in Nat
      BY DEF TypeOK
    <3> QED BY <3>1, FS_Interval
  <2> QED BY <2>1, FewerElements DEF News
<1>3. OkAuths(c) \in Nat
  <2>1. IsFiniteSet(1 .. Len(auths[c]))
    <3>1. Len(auths[c]) \in Nat
      BY DEF TypeOK
    <3> QED BY <3>1, FS_Interval
  <2> QED BY <2>1, FewerElements DEF OkAuths
<1>4. exit_rx[c] \in Nat
  BY ServerAssumption DEF TypeOK
<1> QED BY <1>1, <1>2, <1>3, <1>4, FS_CardinalityType

\* A step that adds nothing to what a connection may still be told.
LEMMA OwedLess ==
  ASSUME TypeOK, Registry, TypeOK', Registry', NEW c \in Conns, Owed(c) <= OkAuths(c),
         Entries(c)' \subseteq Entries(c), News(c)' \subseteq News(c),
         main'[c] = "new" => main[c] = "new", auths' = auths,
         Bit(closing = c)' + exit_rx'[c] <= Bit(closing = c) + exit_rx[c]
  PROVE  Owed(c)' <= OkAuths(c)'
<1>1. /\ IsFiniteSet(News(c)) /\ Cardinality(News(c)) \in Nat
      /\ IsFiniteSet(Entries(c)) /\ Cardinality(Entries(c)) \in Nat
      /\ OkAuths(c) \in Nat /\ exit_rx[c] \in Nat
  BY CountsType
<1>2. OkAuths(c)' = OkAuths(c)
  BY DEF OkAuths
<1>3. Cardinality(Entries(c)') \in Nat /\ Cardinality(Entries(c)') <= Cardinality(Entries(c))
  BY <1>1, FewerElements
<1>4. Cardinality(News(c)') \in Nat /\ Cardinality(News(c)') <= Cardinality(News(c))
  BY <1>1, FewerElements
<1>5. exit_rx'[c] \in Nat
  BY ServerAssumption DEF TypeOK
<1>6. Bit(main[c] = "new")' <= Bit(main[c] = "new")
  BY DEF Bit
<1>7. /\ Bit(main[c] = "new")' \in Nat /\ Bit(main[c] = "new") \in Nat
      /\ Bit(closing = c)' \in Nat /\ Bit(closing = c) \in Nat
  BY DEF Bit
<1> QED BY <1>1, <1>2, <1>3, <1>4, <1>5, <1>6, <1>7 DEF Owed

-----------------------------------------------------------------------------
\* on_auth accepts: one exit signal more, on account of the main loop.
LEMMA OwedAuthed ==
  ASSUME CloseInv, TypeOK', Registry', NEW c \in Conns, NEW ok \in BOOLEAN, Authed(c, ok),
         NEW d \in Conns
  PROVE  Owed(d)' <= OkAuths(d)'
<1> DEFINE e == [name |-> client_name[c], ok |-> ok]
           Oks(b) == {i \in 1 .. Len(auths[b]) : auths[b][i].ok}
<1> USE DEF Authed, mgrVars
<1>0. TypeOK /\ Registry /\ Owed(d) <= OkAuths(d)
  BY DEF CloseInv, Accounted
<1>1. /\ Cardinality(News(d)) \in Nat /\ Cardinality(Entries(d)) \in Nat
      /\ OkAuths(d) \in Nat /\ exit_rx[d] \in Nat
  BY <1>0, CountsType
<1>2. /\ News(d)' = News(d) /\ Entries(d)' = Entries(d) /\ Bit(closing = d)' = Bit(closing = d)
      /\ exit_rx'[d] = exit_rx[d]
  BY DEF News, Announces, Entries, Bit
<1>3. CASE d # c
  <2>1. auths'[d] = auths[d] /\ main'[d] = main[d]
    BY <1>0, <1>3 DEF TypeOK
  <2>2. OkAuths(d)' = OkAuths(d) /\ Bit(main[d] = "new")' = Bit(main[d] = "new")
    BY <2>1 DEF OkAuths, Bit
  <2> QED BY <1>0, <1>2, <2>2 DEF Owed
<1>4. CASE d = c
  <2>1. /\ auths[c] \in Seq([name : Names, ok : BOOLEAN]) /\ auths'[c] = Append(auths[c], e)
        /\ main[c] = "auth" /\ main'[c] = AfterAuth(ok)
    BY <1>0 DEF TypeOK
  <2>2. /\ Len(auths[c]) \in Nat /\ Len(auths'[c]) = Len(auths[c]) + 1
        /\ \A i \in 1 .. Len(auths[c]) : auths'[c][i] = auths[c][i]
        /\ auths'[c][Len(auths[c]) + 1] = e
    BY <2>1
  <2>3. IsFiniteSet(Oks(c))
    <3>1. IsFiniteSet(1 .. Len(auths[c]))
      BY <2>2, FS_Interval
    <3> QED BY <3>1, FewerElements
  <2>4. CASE ok
    <3>1. Oks(c)' = Oks(c) \cup {Len(auths[c]) + 1} /\ Len(auths[c]) + 1 \notin Oks(c)
      BY <2>2, <2>4
    <3>2. OkAuths(c)' = OkAuths(c) + 1
      <4>1. OkAuths(c) = Cardinality(Oks(c)) /\ OkAuths(c)' = Cardinality(Oks(c)')
        BY DEF OkAuths
      <4> HIDE DEF Oks
      <4>2. Cardinality(Oks(c) \cup {Len(auths[c]) + 1}) = Cardinality(Oks(c)) + 1
        BY <2>3, <3>1, FS_AddElement, Zenon
      <4> QED BY <3>1, <4>1, <4>2
    <3>3. Bit(main[c] = "new") = 0 /\ Bit(main[c] = "new")' = 1
      BY <2>1, <2>4 DEF Bit, AfterAuth
    <3> QED BY <1>0, <1>1, <1>2, <1>4, <3>2, <3>3 DEF Owed, Bit
  <2>5. CASE ~ok
    <3>1. Oks(c)' = Oks(c)
      BY <2>2, <2>5
    <3>2. OkAuths(c)' = OkAuths(c)
      BY <3>1 DEF OkAuths
    <3>3. Bit(main[c] = "new") = 0 /\ Bit(main[c] = "new")' = 0
      BY <2>1, <2>5 DEF Bit, AfterAuth
    <3> QED BY <1>0, <1>1, <1>2, <1>4, <3>2, <3>3 DEF Owed
  <2> QED BY <2>4, <2>5
<1> QED BY <1>3, <1>4

\* A signal is sent: New takes over what the main loop was owed.
LEMMA OwedSignalled ==
  ASSUME CloseInv, TypeOK', Registry', NEW c \in Conns, NEW s \in Signal, s.conn = c,
         Signalled(s), s.type = "New" => main[c] = "new", main'[c] # "new",
         \A b \in Conns \ {c} : main'[b] = main[b],
         UNCHANGED <<closing, clients, auths, exit_rx>>, NEW d \in Conns
  PROVE  Owed(d)' <= OkAuths(d)'
<1>0. TypeOK /\ Registry /\ Owed(d) <= OkAuths(d)
  BY DEF CloseInv, Accounted
<1>1. /\ IsFiniteSet(News(d)) /\ Cardinality(News(d)) \in Nat
      /\ Cardinality(Entries(d)) \in Nat /\ OkAuths(d) \in Nat /\ exit_rx[d] \in Nat
  BY <1>0, CountsType
<1>2. /\ Entries(d)' = Entries(d) /\ Bit(closing = d)' = Bit(closing = d)
      /\ OkAuths(d)' = OkAuths(d)
  BY DEF Entries, Bit, OkAuths
<1>3. /\ new_client \in Seq(Signal) /\ Len(new_client) \in Nat
      /\ new_client' = new_client \/ new_client' = Append(new_client, s)
  <2>1. new_client \in Seq(Signal)
    BY <1>0 DEF TypeOK
  <2>2. new_client' = new_client \/ new_client' = Append(new_client, s)
    BY DEF Signalled
  <2> QED BY <2>1, <2>2, LenProperties
<1>4. main'[d] = "new" => main[d] = "new"
  BY <1>0 DEF TypeOK
<1>5. CASE News(d)' \subseteq News(d)
  <2>1. Bit(closing = d)' + exit_rx'[d] <= Bit(closing = d) + exit_rx[d]
    BY <1>1, <1>2 DEF Bit
  <2> QED BY <1>0, <1>2, <1>4, <1>5, <2>1, OwedLess
<1>6. CASE ~(News(d)' \subseteq News(d))
  <2>1. /\ new_client' = Append(new_client, s) /\ Announces(s, d)
        /\ News(d)' \subseteq News(d) \cup {Len(new_client) + 1}
    <3>1. new_client' # new_client
      BY <1>6 DEF News, Announces
    <3>2. /\ new_client' = Append(new_client, s) /\ Len(new_client') = Len(new_client) + 1
          /\ \A i \in 1 .. Len(new_client) : new_client'[i] = new_client[i]
          /\ new_client'[Len(new_client) + 1] = s
      BY <1>3, <3>1
    <3>3. ASSUME NEW i \in News(d)'
          PROVE  i \in News(d) \/ (i = Len(new_client) + 1 /\ Announces(s, d))
      BY <1>3, <3>2, <3>3 DEF News, Announces
    <3> QED BY <1>6, <3>2, <3>3
  <2>2. d = c /\ s.type = "New"
    BY <2>1 DEF Announces
  <2>3. Cardinality(News(d)') <= Cardinality(News(d)) + 1
    BY <1>1, <2>1, OneElementMore
  <2>4. Bit(main[d] = "new") = 1 /\ Bit(main[d] = "new")' = 0
    BY <2>2 DEF Bit
  <2>5. Cardinality(News(d)') \in Nat
    <3>1. IsFiniteSet(News(d)')
      <4>1. IsFiniteSet(News(d) \cup {Len(new_client) + 1})
        BY <1>1, FS_AddElement
      <4> QED BY <2>1, <4>1, FewerElements
    <3> QED BY <3>1, FS_CardinalityType
  <2> QED BY <1>0, <1>1, <1>2, <2>3, <2>4, <2>5 DEF Owed, Bit
<1> QED BY <1>5, <1>6

\* The manager handles a signal: a New leaves the channel for one entry.
LEMMA OwedHandled ==
  ASSUME CloseInv, TypeOK', Registry', ClientSignal, NEW d \in Conns
  PROVE  Owed(d)' <= OkAuths(d)'
<1> DEFINE h == new_client[1]
<1> USE DEF ClientSignal, mainVars
<1>0. TypeOK /\ Registry /\ Owed(d) <= OkAuths(d)
  BY DEF CloseInv, Accounted
<1>1. /\ IsFiniteSet(News(d)) /\ Cardinality(News(d)) \in Nat
      /\ IsFiniteSet(Entries(d)) /\ Cardinality(Entries(d)) \in Nat
      /\ OkAuths(d) \in Nat /\ exit_rx[d] \in Nat
  BY <1>0, CountsType
<1>2. /\ new_client \in Seq(Signal) /\ new_client # << >> /\ Len(new_client) \in Nat \ {0}
      /\ Head(new_client) = h /\ new_client' = Tail(new_client) /\ h \in Signal
      /\ Len(new_client') = Len(new_client) - 1
      /\ \A i \in 1 .. Len(new_client') : new_client'[i] = new_client[i + 1]
  BY <1>0 DEF TypeOK
<1>3. /\ Cardinality(News(d)') <= Cardinality(News(d))
      /\ Announces(h, d) => Cardinality(News(d)') + 1 <= Cardinality(News(d))
      /\ Cardinality(News(d)') \in Nat
  <2>1. \A i \in News(d)' : i + 1 \in News(d)
    BY <1>2 DEF News, Announces
  <2>2. /\ News(d) \subseteq Nat \ {0} /\ News(d)' \subseteq Nat \ {0}
        /\ Announces(h, d) => 1 \in News(d)
    BY <1>2 DEF News
  <2>3. /\ Cardinality(News(d)') <= Cardinality(News(d))
        /\ 1 \in News(d) => Cardinality(News(d)') + 1 <= Cardinality(News(d))
    BY <1>1, <2>1, <2>2, ShiftedElements
  <2>4. Cardinality(News(d)') \in Nat
    <3>1. IsFiniteSet(1 .. Len(new_client'))
      BY <1>2, FS_Interval
    <3> QED BY <3>1, FewerElements DEF News
  <2> QED BY <2>2, <2>3, <2>4
<1>4. /\ Entries(d)' \subseteq Entries(d) \cup {h.key}
      /\ ~Announces(h, d) => Entries(d)' \subseteq Entries(d)
  <2>1. d # NoConn /\ clients \in [Key -> Conns \cup {NoConn}]
    BY <1>0, ServerAssumption DEF TypeOK
  <2>2. clients' = Managed(h)
    BY <1>2
  <2>3. ASSUME NEW k \in Key, clients'[k] = d
        PROVE  clients[k] = d \/ (k = h.key /\ h.type = "New" /\ h.conn = d)
    BY <2>1, <2>2, <2>3 DEF Managed
  <2> QED BY <2>3 DEF Entries, Announces
<1>5. /\ Cardinality(Entries(d)') \in Nat
      /\ Cardinality(Entries(d)') <= Cardinality(Entries(d)) + 1
      /\ ~Announces(h, d) => Cardinality(Entries(d)') <= Cardinality(Entries(d))
  <2>1. IsFiniteSet(Entries(d) \cup {h.key})
    BY <1>1, FS_AddElement
  <2>2. Cardinality(Entries(d)') \in Nat
    BY <1>4, <2>1, FewerElements
  <2>3. Cardinality(Entries(d)') <= Cardinality(Entries(d)) + 1
    BY <1>1, <1>4, OneElementMore
  <2> QED BY <1>1, <1>4, <2>2, <2>3, FewerElements
<1>6. /\ Bit(main[d] = "new")' = Bit(main[d] = "new") /\ Bit(closing = d)' = Bit(closing = d)
      /\ OkAuths(d)' = OkAuths(d) /\ exit_rx'[d] = exit_rx[d]
  BY DEF Bit, OkAuths
<1>7. Bit(main[d] = "new") \in Nat /\ Bit(closing = d) \in Nat
  BY DEF Bit
<1>8. Cardinality(News(d)') + Cardinality(Entries(d)')
        <= Cardinality(News(d)) + Cardinality(Entries(d))
  <2> HIDE DEF h
  <2> QED BY <1>1, <1>3, <1>5
<1>9. Owed(d)' = Bit(main[d] = "new") + Cardinality(News(d)') + Cardinality(Entries(d)')
                 + Bit(closing = d) + exit_rx[d]
  BY <1>6 DEF Owed
<1> HIDE DEF ClientSignal
<1> QED BY <1>0, <1>1, <1>3, <1>5, <1>6, <1>7, <1>8, <1>9 DEF Owed

\* CloseClient: the entry becomes the exit signal that the manager sends.
LEMMA OwedClosing ==
  ASSUME CloseInv, TypeOK', Registry', NEW k \in Key, CloseClient(k), NEW d \in Conns
  PROVE  Owed(d)' <= OkAuths(d)'
<1> USE DEF CloseClient, mainVars
<1>0. TypeOK /\ Registry /\ Owed(d) <= OkAuths(d)
  BY DEF CloseInv, Accounted
<1>1. /\ IsFiniteSet(Entries(d)) /\ Cardinality(Entries(d)) \in Nat
      /\ Cardinality(News(d)) \in Nat /\ OkAuths(d) \in Nat /\ exit_rx[d] \in Nat
  BY <1>0, CountsType
<1>2. /\ clients' = [clients EXCEPT ![k] = NoConn] /\ clients \in [Key -> Conns \cup {NoConn}]
      /\ d # NoConn /\ closing = NoConn
  BY <1>0, ServerAssumption DEF Removed, TypeOK
<1>3. Entries(d)' \subseteq Entries(d) \ {k}
  BY <1>2 DEF Entries
<1>4. CASE clients[k] # d
  <2>1. Bit(closing = d)' = 0 /\ Bit(closing = d) = 0 /\ exit_rx'[d] = exit_rx[d]
    BY <1>2, <1>4 DEF Bit
  <2>2. News(d)' \subseteq News(d) /\ Entries(d)' \subseteq Entries(d)
    BY <1>3 DEF News, Announces
  <2>3. Bit(closing = d)' + exit_rx'[d] <= Bit(closing = d) + exit_rx[d]
    BY <1>1, <2>1
  <2> QED BY <1>0, <2>2, <2>3, OwedLess
<1>5. CASE clients[k] = d
  <2>1. Bit(closing = d)' = 1 /\ Bit(closing = d) = 0 /\ exit_rx'[d] = exit_rx[d]
    BY <1>2, <1>5 DEF Bit
  <2>2. Cardinality(Entries(d)') + 1 <= Cardinality(Entries(d)) /\ Cardinality(Entries(d)') \in Nat
    <3>1. k \in Entries(d)
      BY <1>5 DEF Entries
    <3>2. Cardinality(Entries(d)') + 1 <= Cardinality(Entries(d))
      BY <1>1, <1>3, <3>1, OneElementLess
    <3>3. Entries(d)' \subseteq Entries(d)
      BY <1>3
    <3>4. Cardinality(Entries(d)') \in Nat
      BY <1>1, <3>3, FewerElements
    <3> QED BY <3>2, <3>4
  <2>3. /\ News(d)' = News(d) /\ Bit(main[d] = "new")' = Bit(main[d] = "new")
        /\ OkAuths(d)' = OkAuths(d) /\ Bit(main[d] = "new") \in Nat
    BY DEF News, Announces, Bit, OkAuths
  <2> QED BY <1>0, <1>1, <2>1, <2>2, <2>3 DEF Owed
<1> QED BY <1>4, <1>5

\* The exit signal is sent, or its receiver has ended.
LEMMA OwedClosed ==
  ASSUME CloseInv, TypeOK', Registry', CloseSent, NEW d \in Conns
  PROVE  Owed(d)' <= OkAuths(d)'
<1> USE DEF CloseSent, mainVars
<1>0. TypeOK /\ Registry /\ Owed(d) <= OkAuths(d)
  BY DEF CloseInv, Accounted
<1>1. /\ exit_rx \in [Conns -> Nat] /\ closing \in Conns /\ closing' = NoConn /\ d # NoConn
      /\ exit_rx' = exit_rx \/ exit_rx' = [exit_rx EXCEPT ![closing] = @ + 1]
  <2>1. exit_rx \in [Conns -> Nat]
    BY <1>0, ServerAssumption DEF TypeOK
  <2>2. closing \in Conns /\ d # NoConn
    BY <1>0, ServerAssumption DEF TypeOK
  <2> QED BY <2>1, <2>2
<1>2. Bit(closing = d)' + exit_rx'[d] <= Bit(closing = d) + exit_rx[d]
  BY <1>1 DEF Bit
<1>3. News(d)' \subseteq News(d) /\ Entries(d)' \subseteq Entries(d)
  BY DEF News, Announces, Entries
<1> QED BY <1>0, <1>2, <1>3, OwedLess

LEMMA InitAccounted == Init => Accounted
<1> SUFFICES ASSUME Init, NEW c \in Conns PROVE Owed(c) <= OkAuths(c)
  BY DEF Accounted
<1>0. TypeOK /\ Registry
  BY InitTypes, InitRegistry
<1>1. /\ main[c] = "none" /\ closing = NoConn /\ c # NoConn /\ exit_rx[c] = 0
      /\ new_client = << >> /\ \A k \in Key : clients[k] = NoConn
  BY ServerAssumption DEF Init
<1>2. News(c) = {} /\ Entries(c) = {}
  BY <1>1 DEF News, Entries
<1>3. Cardinality(News(c)) = 0 /\ Cardinality(Entries(c)) = 0
  BY <1>2, FS_EmptySet
<1>4. Bit(main[c] = "new") = 0 /\ Bit(closing = c) = 0
  BY <1>1 DEF Bit
<1>5. OkAuths(c) \in Nat
  BY <1>0, CountsType
<1> QED BY <1>1, <1>3, <1>4, <1>5 DEF Owed

LEMMA NextAccounted ==
  ASSUME CloseInv, TypeOK', Registry', [Next]_vars
  PROVE  Accounted'
<1> DEFINE NoNew == \A d \in Conns : main'[d] = "new" => main[d] = "new"
           FewerExits == exit_rx' \in [Conns -> Nat] /\ \A d \in Conns : exit_rx'[d] <= exit_rx[d]
           Goal == Accounted'
<1> USE DEF mgrVars, mainVars, cbVars
<1>0. TypeOK /\ Registry /\ Accounted
  BY DEF CloseInv
<1>1. exit_rx \in [Conns -> Nat]
  BY <1>0, ServerAssumption DEF TypeOK
<1>q. ASSUME UNCHANGED <<closing, clients, new_client, auths>>, NoNew, FewerExits PROVE Goal
  <2> SUFFICES ASSUME NEW d \in Conns PROVE Owed(d)' <= OkAuths(d)'
    BY DEF Accounted
  <2>1. News(d)' \subseteq News(d) /\ Entries(d)' \subseteq Entries(d)
    BY <1>q DEF News, Announces, Entries
  <2>2. Bit(closing = d)' + exit_rx'[d] <= Bit(closing = d) + exit_rx[d]
    BY <1>q, <1>1 DEF Bit
  <2>3. Owed(d) <= OkAuths(d)
    BY <1>0 DEF Accounted
  <2> QED BY <1>0, <1>q, <2>1, <2>2, <2>3, OwedLess
<1>e. exit_rx' = exit_rx => FewerExits
  BY <1>1
<1>2. CASE CloseSent
  BY <1>2, OwedClosed DEF Accounted
<1>3. CASE ClientSignal
  BY <1>3, OwedHandled DEF Accounted
<1>4. CASE Broadcast
  BY <1>4, <1>e, <1>q DEF Broadcast
<1>5. CASE Shutdown
  <2> SUFFICES ASSUME NEW d \in Conns PROVE Owed(d)' <= OkAuths(d)'
    BY DEF Accounted
  <2>1. News(d)' \subseteq News(d) /\ Entries(d)' \subseteq Entries(d)
    BY <1>5, ServerAssumption DEF Shutdown, News, Entries
  <2>2. Bit(closing = d)' + exit_rx'[d] <= Bit(closing = d) + exit_rx[d]
    BY <1>1, <1>5 DEF Shutdown, Bit
  <2>3. Owed(d) <= OkAuths(d) /\ main' = main /\ auths' = auths
    BY <1>0, <1>5 DEF Accounted, Shutdown
  <2> QED BY <1>0, <2>1, <2>2, <2>3, OwedLess
<1>6. ASSUME NEW k \in Key, CloseClient(k) PROVE Goal
  BY <1>6, OwedClosing DEF Accounted
<1>7. ASSUME NEW c \in Conns, NEW p, p # "new", main' = [main EXCEPT ![c] = p] PROVE NoNew
  BY <1>0, <1>7 DEF TypeOK
<1>8. ASSUME NEW c \in Conns, Accept(c) PROVE Goal
  BY <1>7, <1>8, <1>e, <1>q DEF Accept
<1>9. ASSUME NEW c \in Conns, MainStep(c) PROVE Goal
  <2>1. CASE PongSent(c)
    BY <1>7, <1>e, <1>q, <2>1 DEF PongSent
  <2>2. CASE Authed(c, TRUE)
    BY <2>2, OwedAuthed DEF Accounted
  <2>3. CASE Authed(c, FALSE)
    BY <2>3, OwedAuthed DEF Accounted
  <2>4. CASE SendNew(c)
    <3> DEFINE s == [type |-> "New", key |-> MyKey(c), conn |-> c]
    <3>1. s \in Signal
      <4>1. client_name[c] \in Names
        BY <1>0, <2>4 DEF Registry, NameTaken, SendNew
      <4> QED BY <4>1 DEF Signal, MyKey, Key
    <3>2. /\ s.conn = c /\ Signalled(s) /\ main[c] = "new" /\ main'[c] # "new"
          /\ \A d \in Conns \ {c} : main'[d] = main[d]
      BY <1>0, <2>4 DEF SendNew, TypeOK
    <3> HIDE DEF s
    <3> QED BY <2>4, <3>1, <3>2, OwedSignalled DEF SendNew, Accounted
  <2>5. CASE QueueAuth(c)
    BY <1>7, <1>e, <1>q, <2>5 DEF QueueAuth
  <2>6. CASE Disconnected(c)
    BY <1>7, <1>e, <1>q, <2>6 DEF Disconnected
  <2>7. CASE SendExit(c)
    <3> DEFINE s == [type |-> "Exit", key |-> MyKey(c), conn |-> c]
    <3>1. s \in Signal
      <4>1. client_name[c] \in Names \cup {WaitAuth}
        BY <1>0 DEF TypeOK
      <4> QED BY <4>1 DEF Signal, MyKey, Key
    <3>2. /\ s.conn = c /\ Signalled(s) /\ s.type # "New" /\ main'[c] # "new"
          /\ \A d \in Conns \ {c} : main'[d] = main[d]
      BY <1>0, <2>7 DEF SendExit, TypeOK
    <3> HIDE DEF s
    <3> QED BY <2>7, <3>1, <3>2, OwedSignalled DEF SendExit, Accounted
  <2> QED BY <1>9, <2>1, <2>2, <2>3, <2>4, <2>5, <2>6, <2>7 DEF MainStep
<1>10. ASSUME NEW c \in Conns, Break(c), FewerExits PROVE Goal
  <2>1. NoNew
    BY <1>7, <1>10 DEF Break
  <2> QED BY <1>10, <1>q, <2>1 DEF Break
<1>11. ASSUME NEW c \in Conns, Received(c) PROVE Goal
  <2>1. CASE RecvHeartbeat(c)
    BY <1>7, <1>e, <1>q, <2>1 DEF RecvHeartbeat
  <2>2. CASE RecvPacket(c)
    BY <1>e, <1>q, <2>2 DEF RecvPacket
  <2>3. CASE RecvBadAuth(c)
    BY <1>10, <1>e, <2>3 DEF RecvBadAuth
  <2>4. ASSUME NEW n \in Names, RecvAuth(c, n) PROVE Goal
    BY <1>7, <1>e, <1>q, <2>4 DEF RecvAuth
  <2> QED BY <1>11, <2>1, <2>2, <2>3, <2>4 DEF Received
<1>12. ASSUME NEW c \in Conns, Leaving(c) PROVE Goal
  <2>1. CASE HeartbeatCheck(c) \/ RecvNone(c)
    BY <1>10, <1>e, <2>1 DEF HeartbeatCheck, RecvNone
  <2>2. CASE ExitSignal(c)
    <3>1. FewerExits
      BY <1>1, <2>2 DEF ExitSignal, ExitPolled
    <3> QED BY <1>10, <2>2, <3>1 DEF ExitSignal
  <2> QED BY <1>12, <2>1, <2>2 DEF Leaving
<1>13. ASSUME NEW c \in Conns,
              CallbackStep(c) \/ SpawnedSends(c) \/ TransportEnds(c) \/ PeerQuiet(c) \/ TimePasses(c)
       PROVE  Goal
  <2>1. UNCHANGED <<closing, clients, new_client, auths, main, exit_rx>>
    BY <1>13 DEF CallbackStep, OnSend, OnSendReturns, OnLagged, OnPacket, CallbackEnds,
                 SpawnedSends, TransportEnds, PeerQuiet, TimePasses
  <2> QED BY <1>e, <1>q, <2>1
<1>14. CASE UNCHANGED vars
  BY <1>14, <1>e, <1>q DEF vars
<1>15. ASSUME NEW c \in Conns, Conn(c) PROVE Goal
  <2> HIDE DEF Goal
  <2> QED BY <1>8, <1>9, <1>11, <1>12, <1>13, <1>15 DEF Conn
<1> QED BY <1>2, <1>3, <1>4, <1>5, <1>6, <1>14, <1>15, Zenon DEF Next, Managing

\* The manager never waits for room in the exit channel of a connection that has
\* authenticated at most signal_chan_size times (server.rs:175-177), for any number
\* of connections and every channel size: without more auths than that the circle
\* of the manager and a main loop cannot close.
THEOREM CloseHasRoomHolds == Safety => []CloseHasRoom
<1>1. Init => CloseInv
  BY InitTypes, InitRegistry, InitAccounted DEF CloseInv
<1>2. CloseInv /\ [Next]_vars => CloseInv'
  <2> SUFFICES ASSUME CloseInv, [Next]_vars PROVE CloseInv'
    OBVIOUS
  <2>1. TypeOK' /\ Registry'
    BY NextTypes, NextRegistry DEF CloseInv
  <2> QED BY <2>1, NextAccounted DEF CloseInv
<1>3. CloseInv => CloseHasRoom
  <2> SUFFICES ASSUME CloseInv, manager = "closing", OkAuths(closing) <= SignalChan
               PROVE  exit_rx[closing] < SignalChan
    BY DEF CloseHasRoom
  <2>1. closing \in Conns /\ TypeOK /\ Registry
    BY DEF CloseInv, TypeOK
  <2>2. /\ Cardinality(News(closing)) \in Nat /\ Cardinality(Entries(closing)) \in Nat
        /\ OkAuths(closing) \in Nat /\ exit_rx[closing] \in Nat
    BY <2>1, CountsType
  <2>3. Owed(closing) <= OkAuths(closing)
    BY <2>1 DEF CloseInv, Accounted
  <2>4. Bit(closing = closing) = 1 /\ Bit(main[closing] = "new") \in Nat
    BY DEF Bit
  <2>5. SignalChan \in Nat
    BY ServerAssumption
  <2> QED BY <2>2, <2>3, <2>4, <2>5 DEF Owed
<1> QED BY <1>1, <1>2, <1>3, PTL DEF Safety
=============================================================================
