----------------------- MODULE EventBroadcasterProofs -----------------------
(***************************************************************************)
(* For every set of connections and addresses and every pair of limits:    *)
(* the counters of EventBroadcaster are right and its limits hold.         *)
(***************************************************************************)
EXTENDS EventBroadcaster, FiniteSetTheorems, TLAPS

\* A client has been accepted and its close event has not been handled.
Registered == \A c \in clients : state[c] \in {"open", "closing"}

\* Every connection that is open is counted, and the counted ones are within the
\* limits.
CountInv ==
    /\ TypeOK
    /\ CountsAgree
    /\ Open \subseteq clients /\ Registered
    /\ Cardinality(clients) <= MaxGlobal
    /\ \A ip \in IPs : connsByIp[ip] <= MaxPerIp

\* The clients of an address are a finite set.
LEMMA FromFinite ==
    ASSUME TypeOK, NEW S \in SUBSET Conns, NEW ip
    PROVE  /\ IsFiniteSet(S) /\ IsFiniteSet(From(S, ip)) /\ From(S, ip) \subseteq S
           /\ Cardinality(S) \in Nat /\ Cardinality(From(S, ip)) \in Nat
<1>1. IsFiniteSet(S)
  BY FS_Subset, BroadcasterAssumption
<1>2. From(S, ip) \subseteq S
  BY DEF From
<1>3. IsFiniteSet(From(S, ip))
  BY <1>1, <1>2, FS_Subset
<1>4. QED
  BY <1>1, <1>2, <1>3, FS_CardinalityType

\* A part of a finite set is not larger.
LEMMA FewerCount ==
    ASSUME TypeOK, NEW S \in SUBSET Conns, NEW T \in SUBSET S
    PROVE  /\ Cardinality(T) <= Cardinality(S)
           /\ \A ip : Cardinality(From(T, ip)) <= Cardinality(From(S, ip))
<1>1. Cardinality(T) <= Cardinality(S)
  BY FromFinite, FS_Subset
<1>2. ASSUME NEW ip
      PROVE  Cardinality(From(T, ip)) <= Cardinality(From(S, ip))
  <2>1. From(T, ip) \subseteq From(S, ip)
    BY DEF From
  <2>2. QED
    BY <2>1, FromFinite, FS_Subset
<1>3. QED
  BY <1>1, <1>2

\* Taking clients away and counting them down keeps the counters right, and takes
\* nothing from the limits.
LEMMA RemovalCounts ==
    ASSUME CountInv, NEW S \in SUBSET clients,
           clients' = clients \ S, DecIp(S), addr' = addr, Open' \subseteq clients'
    PROVE  /\ CountsAgree' /\ connsByIp' \in [IPs -> Nat] /\ Open' \subseteq clients'
           /\ Cardinality(clients') <= MaxGlobal
           /\ \A ip \in IPs : connsByIp'[ip] <= MaxPerIp
<1> USE DEF CountInv
<1>1. clients \in SUBSET Conns /\ S \in SUBSET Conns /\ clients' \in SUBSET Conns
  BY DEF TypeOK
<1>2. ASSUME NEW ip \in IPs
      PROVE  /\ connsByIp'[ip] = Cardinality(From(clients, ip)')
             /\ connsByIp'[ip] \in Nat /\ connsByIp'[ip] <= connsByIp[ip]
  <2> DEFINE F == From(clients, ip)
             G == From(S, ip)
  <2>1. /\ IsFiniteSet(F) /\ IsFiniteSet(G) /\ G \subseteq F
        /\ Cardinality(F) \in Nat /\ Cardinality(G) \in Nat
    BY <1>1, FromFinite DEF From
  <2>2. F \cap G = G
    BY <2>1
  <2>3. Cardinality(F \ G) = Cardinality(F) - Cardinality(G) /\ Cardinality(G) <= Cardinality(F)
    BY <2>1, <2>2, FS_Difference, FS_Subset
  <2>4. From(clients, ip)' = F \ G
    BY DEF From
  <2>5. connsByIp[ip] = Cardinality(F)
    BY DEF CountsAgree
  <2>6. connsByIp'[ip] = IF connsByIp[ip] > Cardinality(G) THEN connsByIp[ip] - Cardinality(G) ELSE 0
    BY DEF DecIp
  <2>7. connsByIp'[ip] = Cardinality(F) - Cardinality(G)
    <3> HIDE DEF F, G
    <3> QED
      BY <2>1, <2>3, <2>5, <2>6
  <2>8. connsByIp'[ip] \in Nat /\ connsByIp'[ip] <= connsByIp[ip]
    <3> HIDE DEF F, G
    <3> QED
      BY <2>1, <2>3, <2>5, <2>7
  <2>9. Cardinality(From(clients, ip)') = Cardinality(F \ G)
    BY <2>4, Zenon
  <2>10. QED
    BY <2>3, <2>7, <2>8, <2>9, Zenon
<1>3. Cardinality(clients') <= Cardinality(clients) /\ Cardinality(clients') \in Nat
      /\ Cardinality(clients) \in Nat
  BY <1>1, FewerCount, FromFinite
<1>4. Cardinality(clients') <= MaxGlobal
  BY <1>3, BroadcasterAssumption
<1>5. ASSUME NEW ip \in IPs
      PROVE  connsByIp'[ip] <= MaxPerIp
  <2>1. connsByIp[ip] \in Nat /\ connsByIp[ip] <= MaxPerIp
    BY DEF TypeOK
  <2>2. QED
    BY <1>2, <2>1, BroadcasterAssumption
<1>6. CountsAgree'
  BY <1>2 DEF CountsAgree
<1>7. connsByIp' \in [IPs -> Nat]
  BY <1>2 DEF DecIp
<1>8. QED
  BY <1>4, <1>5, <1>6, <1>7

\* The initial state: nobody is connected.
LEMMA CountInit == Init => CountInv
<1> SUFFICES ASSUME Init
             PROVE  CountInv
  OBVIOUS
<1>1. TypeOK
  BY DEF Init, TypeOK, States
<1>2. \A ip \in IPs : From(clients, ip) = {}
  BY DEF Init, From
<1>3. Cardinality({}) = 0
  BY FS_EmptySet
<1>4. Open = {}
  BY DEF Init, Open
<1>5. clients = {} /\ \A ip \in IPs : connsByIp[ip] = 0
  BY DEF Init
<1>6. CountsAgree
  BY <1>2, <1>3, <1>5, Zenon DEF CountsAgree
<1>7. Cardinality(clients) <= MaxGlobal
  BY <1>3, <1>5, BroadcasterAssumption
<1>8. \A ip \in IPs : connsByIp[ip] <= MaxPerIp
  BY <1>5, BroadcasterAssumption
<1>9. QED
  BY <1>1, <1>4, <1>5, <1>6, <1>7, <1>8 DEF CountInv, Registered

\* A step that changes neither the clients nor their counters keeps the invariant.
LEMMA Uncounted ==
    ASSUME CountInv, TypeOK', UNCHANGED <<addr, clients, connsByIp>>, Open' \subseteq Open, Registered'
    PROVE  CountInv'
<1>1. CountsAgree'
  BY DEF CountInv, CountsAgree, From
<1>2. QED
  BY <1>1 DEF CountInv

\* The client that is accepted is counted, and there was room for it.
LEMMA AcceptCounts ==
    ASSUME CountInv, TypeOK', NEW c \in Conns, Accept(c)
    PROVE  CountInv'
<1> DEFINE ip == addr[c]
<1>1. /\ clients \in SUBSET Conns /\ ip \in IPs /\ connsByIp[ip] \in Nat
      /\ clients' = clients \cup {c} /\ addr' = addr
      /\ connsByIp' = [connsByIp EXCEPT ![ip] = @ + 1]
      /\ connsByIp \in [IPs -> Nat]
  BY DEF Accept, CountInv, TypeOK
<1>2. IsFiniteSet(clients) /\ Cardinality(clients) \in Nat
  BY <1>1, FromFinite DEF CountInv
<1>3. ~(Cardinality(clients) >= MaxGlobal) /\ ~(connsByIp[ip] >= MaxPerIp)
  BY DEF Accept, Full
<1>4. Cardinality(clients') = Cardinality(clients) \/ Cardinality(clients') = Cardinality(clients) + 1
  BY <1>1, <1>2, FS_AddElement
<1>5. Cardinality(clients') <= MaxGlobal
  BY <1>2, <1>3, <1>4, BroadcasterAssumption
<1>6. \A x \in IPs : connsByIp'[x] <= MaxPerIp
  <2> HIDE DEF ip
  <2>1. connsByIp[ip] + 1 <= MaxPerIp
    BY <1>1, <1>3, BroadcasterAssumption
  <2>2. \A x \in IPs : connsByIp[x] <= MaxPerIp
    BY DEF CountInv
  <2>3. QED
    BY <1>1, <2>1, <2>2
<1>7. c \notin clients
  BY DEF Accept, Usable, CountInv, Registered
<1>8. ASSUME NEW x \in IPs
      PROVE  connsByIp'[x] = Cardinality(From(clients, x)')
  <2>1. connsByIp[x] = Cardinality(From(clients, x))
    BY DEF CountInv, CountsAgree
  <2>2. CASE x = ip
    <3>1. From(clients, x)' = From(clients, x) \cup {c} /\ c \notin From(clients, x)
      BY <1>1, <1>7, <2>2 DEF From
    <3>2. IsFiniteSet(From(clients, x))
      BY <1>1, FromFinite DEF CountInv
    <3>3. Cardinality(From(clients, x)') = Cardinality(From(clients, x)) + 1
      BY <3>1, <3>2, FS_AddElement
    <3>4. connsByIp'[x] = connsByIp[x] + 1
      BY <1>1, <2>2
    <3>5. QED
      BY <2>1, <3>3, <3>4, Zenon
  <2>3. CASE x # ip
    <3>1. From(clients, x)' = From(clients, x)
      BY <1>1, <2>3 DEF From
    <3>2. connsByIp'[x] = connsByIp[x]
      BY <1>1, <2>3
    <3>3. QED
      BY <2>1, <3>1, <3>2, Zenon
  <2>4. QED
    BY <2>2, <2>3
<1>9. Open' \subseteq clients'
  BY <1>1 DEF Accept, Open, CountInv, TypeOK
<1>10. QED
  BY <1>1, <1>5, <1>6, <1>8, <1>9 DEF Accept, CountInv, CountsAgree, Registered, TypeOK

\* Every step keeps the types.
LEMMA TypeNext == CountInv /\ [Next]_vars => TypeOK'
<1> SUFFICES ASSUME CountInv, [Next]_vars
             PROVE  TypeOK'
  OBVIOUS
<1>1. TypeOK
  BY DEF CountInv
<1>2. connsByIp' \in [IPs -> Nat]
  <2>1. ASSUME NEW S \in SUBSET Conns, DecIp(S)
        PROVE  connsByIp' \in [IPs -> Nat]
    <3>1. ASSUME NEW ip \in IPs
          PROVE  (IF connsByIp[ip] > Cardinality(From(S, ip))
                  THEN connsByIp[ip] - Cardinality(From(S, ip)) ELSE 0) \in Nat
      <4>1. connsByIp[ip] \in Nat /\ Cardinality(From(S, ip)) \in Nat
        BY <1>1, FromFinite DEF TypeOK
      <4>2. QED
        BY <4>1
    <3>2. QED
      BY <2>1, <3>1 DEF DecIp
  <2>2. ASSUME NEW c \in Conns, OnClose(c) \/ OnError(c)
        PROVE  connsByIp' \in [IPs -> Nat]
    <3>1. DecIp({c} \cap clients) /\ {c} \cap clients \in SUBSET Conns
      BY <2>2 DEF OnClose, OnError, RemoveClient
    <3>2. QED
      BY <2>1, <3>1
  <2>3. ASSUME Heartbeat
        PROVE  connsByIp' \in [IPs -> Nat]
    <3>1. DecIp(Silent) /\ Silent \in SUBSET Conns
      BY <1>1, <2>3 DEF Heartbeat, Silent, TypeOK
    <3>2. QED
      BY <2>1, <3>1
  <2>4. ASSUME NEW c \in Conns, Accept(c)
        PROVE  connsByIp' \in [IPs -> Nat]
    BY <1>1, <2>4 DEF Accept, TypeOK
  <2>5. ASSUME Shutdown
        PROVE  connsByIp' \in [IPs -> Nat]
    BY <2>5 DEF Shutdown
  <2>6. QED
    BY <1>1, <2>2, <2>3, <2>4, <2>5
       DEF Next, Answer, Upgrade, SocketEnded, Reject, LimitReached, Hang, Pong, PeerCloses,
           PeerDies, TypeOK, vars
<1>3. ASSUME NEW c \in Conns, Upgrade(c) \/ SocketEnded(c) \/ Reject(c) \/ LimitReached(c) \/ Hang(c)
                              \/ PeerCloses(c)
      PROVE  TypeOK'
  BY <1>1, <1>3 DEF Upgrade, SocketEnded, Reject, LimitReached, Hang, PeerCloses, TypeOK, States, beat
<1>4. ASSUME NEW c \in Conns, Accept(c)
      PROVE  TypeOK'
  BY <1>1, <1>2, <1>4 DEF Accept, TypeOK, States
<1>5. ASSUME NEW c \in Conns, Pong(c) \/ PeerDies(c)
      PROVE  TypeOK'
  BY <1>1, <1>5 DEF Pong, PeerDies, TypeOK
<1>6. ASSUME NEW c \in Conns, OnClose(c) \/ OnError(c)
      PROVE  TypeOK'
  BY <1>1, <1>2, <1>6 DEF OnClose, OnError, RemoveClient, TypeOK, States, beat
<1>7. ASSUME Heartbeat
      PROVE  TypeOK'
  <2>1. state' \in [Conns -> States]
    BY <1>1, <1>7 DEF Heartbeat, TypeOK, States
  <2>2. /\ isAlive' \in [Conns -> BOOLEAN] /\ pinged' \in [Conns -> BOOLEAN]
        /\ responsive' \in [Conns -> BOOLEAN]
    BY <1>1, <1>7 DEF Heartbeat, TypeOK
  <2>3. /\ addr' \in [Conns -> IPs] /\ clients' \subseteq Conns /\ reaped' \subseteq Conns
        /\ wss' \in BOOLEAN
    BY <1>1, <1>7 DEF Heartbeat, TypeOK, Open
  <2>4. QED
    BY <1>2, <2>1, <2>2, <2>3 DEF TypeOK
<1>8. ASSUME Shutdown
      PROVE  TypeOK'
  BY <1>1, <1>2, <1>8 DEF Shutdown, TypeOK, States, beat
<1>9. ASSUME UNCHANGED vars
      PROVE  TypeOK'
  BY <1>1, <1>9 DEF vars, beat, TypeOK
<1>10. QED
  BY <1>3, <1>4, <1>5, <1>6, <1>7, <1>8, <1>9 DEF Next, Answer

\* Every step keeps the invariant.
LEMMA CountNext == CountInv /\ [Next]_vars => CountInv'
<1> SUFFICES ASSUME CountInv, [Next]_vars
             PROVE  CountInv'
  OBVIOUS
<1>1. TypeOK /\ TypeOK'
  BY TypeNext DEF CountInv
<1>2. ASSUME NEW c \in Conns, Upgrade(c) \/ SocketEnded(c) \/ Reject(c) \/ LimitReached(c) \/ Hang(c)
                              \/ PeerCloses(c)
      PROVE  CountInv'
  <2>1. UNCHANGED <<addr, clients, connsByIp>>
    BY <1>2 DEF Upgrade, SocketEnded, Reject, LimitReached, Hang, PeerCloses
  <2>2. Open' \subseteq Open
    BY <1>1, <1>2 DEF Upgrade, SocketEnded, Reject, LimitReached, Hang, PeerCloses, Open, TypeOK
  <2>3. Registered'
    BY <1>1, <1>2, <2>1
       DEF Upgrade, SocketEnded, Reject, LimitReached, Hang, PeerCloses, Registered, CountInv, TypeOK
  <2>4. QED
    BY <1>1, <2>1, <2>2, <2>3, Uncounted
<1>3. ASSUME NEW c \in Conns, Accept(c)
      PROVE  CountInv'
  BY <1>1, <1>3, AcceptCounts
<1>4. ASSUME NEW c \in Conns, Pong(c) \/ PeerDies(c)
      PROVE  CountInv'
  <2>1. UNCHANGED <<state, addr, clients, connsByIp>>
    BY <1>4 DEF Pong, PeerDies
  <2>2. Open' \subseteq Open /\ Registered'
    BY <2>1 DEF Open, Registered, CountInv
  <2>3. QED
    BY <1>1, <2>1, <2>2, Uncounted
<1>5. ASSUME NEW c \in Conns, OnClose(c) \/ OnError(c)
      PROVE  CountInv'
  <2>1. /\ {c} \cap clients \in SUBSET clients /\ clients' = clients \ ({c} \cap clients)
        /\ DecIp({c} \cap clients) /\ addr' = addr
    BY <1>5 DEF OnClose, OnError, RemoveClient
  <2>2. Open' \subseteq clients' /\ Registered'
    BY <1>1, <1>5 DEF OnClose, OnError, RemoveClient, Open, Registered, CountInv, TypeOK
  <2>3. QED
    BY <1>1, <2>1, <2>2, RemovalCounts DEF CountInv
<1>6. ASSUME Heartbeat
      PROVE  CountInv'
  <2>1. /\ Silent \in SUBSET clients /\ clients' = clients \ Silent
        /\ DecIp(Silent) /\ addr' = addr
    BY <1>6 DEF Heartbeat, Silent
  <2>2. Open' \subseteq clients' /\ Registered'
    BY <1>1, <1>6, <2>1 DEF Heartbeat, Open, Registered, CountInv, TypeOK
  <2>3. QED
    BY <1>1, <2>1, <2>2, RemovalCounts DEF CountInv
<1>7. ASSUME Shutdown
      PROVE  CountInv'
  <2>1. clients' = {} /\ \A ip \in IPs : connsByIp'[ip] = 0
    BY <1>7 DEF Shutdown
  <2>2. Cardinality({}) = 0
    BY FS_EmptySet
  <2>3. \A ip \in IPs : From(clients, ip)' = {}
    BY <2>1 DEF From
  <2>4. CountsAgree'
    BY <2>1, <2>2, <2>3, Zenon DEF CountsAgree
  <2>5. Cardinality(clients') <= MaxGlobal
    BY <2>1, <2>2, BroadcasterAssumption
  <2>6. \A ip \in IPs : connsByIp'[ip] <= MaxPerIp
    BY <2>1, BroadcasterAssumption
  <2>7. Open' \subseteq clients' /\ Registered'
    BY <1>1, <1>7, <2>1 DEF Shutdown, Open, Registered, CountInv, TypeOK
  <2>8. QED
    BY <1>1, <2>4, <2>5, <2>6, <2>7 DEF CountInv
<1>8. ASSUME UNCHANGED vars
      PROVE  CountInv'
  <2>1. UNCHANGED <<state, addr, clients, connsByIp>>
    BY <1>8 DEF vars
  <2>2. Open' \subseteq Open /\ Registered'
    BY <2>1 DEF Open, Registered, CountInv
  <2>3. QED
    BY <1>1, <2>1, <2>2, Uncounted
<1>9. QED
  BY <1>2, <1>3, <1>4, <1>5, <1>6, <1>7, <1>8 DEF Next, Answer

\* The maps keep their types; in particular no address is counted below zero, whatever
\* event removes a client and however often.
THEOREM TypeCorrect == Spec => []TypeOK
<1>1. CountInv => TypeOK
  BY DEF CountInv
<1>2. QED
  BY <1>1, CountInit, CountNext, PTL DEF Spec

\* The counters per address are right in every reachable state.
THEOREM CountsCorrect == Spec => []CountsAgree
<1>1. CountInv => CountsAgree
  BY DEF CountInv
<1>2. QED
  BY <1>1, CountInit, CountNext, PTL DEF Spec

\* The connections that are open are within both limits, whatever the order in which
\* authentications end and clients are removed.
THEOREM LimitsKept == Spec => []WithinLimits
<1>1. CountInv => WithinLimits
  <2> SUFFICES ASSUME CountInv
               PROVE  WithinLimits
    OBVIOUS
  <2>1. TypeOK /\ clients \in SUBSET Conns /\ Open \in SUBSET clients
    BY DEF CountInv, TypeOK
  <2>2. Cardinality(Open) <= MaxGlobal
    <3>1. Cardinality(Open) <= Cardinality(clients) /\ Cardinality(clients) <= MaxGlobal
      BY <2>1, FewerCount DEF CountInv
    <3>2. Cardinality(Open) \in Nat /\ Cardinality(clients) \in Nat
      BY <2>1, FromFinite
    <3>3. QED
      BY <3>1, <3>2, BroadcasterAssumption
  <2>3. ASSUME NEW ip \in IPs
        PROVE  Cardinality(From(Open, ip)) <= MaxPerIp
    <3>1. Cardinality(From(Open, ip)) <= Cardinality(From(clients, ip))
      BY <2>1, FewerCount
    <3>2. Cardinality(From(clients, ip)) <= MaxPerIp
      BY DEF CountInv, CountsAgree
    <3>3. Cardinality(From(Open, ip)) \in Nat /\ Cardinality(From(clients, ip)) \in Nat
      BY <2>1, FromFinite
    <3>4. QED
      BY <3>1, <3>2, <3>3, BroadcasterAssumption
  <2>4. QED
    BY <2>2, <2>3 DEF WithinLimits
<1>2. QED
  BY <1>1, CountInit, CountNext, PTL DEF Spec

\* An open client whose peer is responsive and that has not been heard of since the last
\* heartbeat has a ping unanswered.
Awaited == \A c \in Silent \cap Open : responsive[c] => pinged[c]

\* What keeps responsive peers: their pongs are awaited before the next heartbeat.
BeatInv == OnlySilentReaped /\ Awaited

\* The heartbeat terminates no open client of a responsive peer, because it comes after
\* the pongs; every other step either leaves the beat alone or hears of the client.
LEMMA BeatNext == CountInv /\ BeatInv /\ [Next]_vars => BeatInv'
<1> SUFFICES ASSUME CountInv, BeatInv, [Next]_vars
             PROVE  BeatInv'
  OBVIOUS
<1>0. TypeOK
  BY DEF CountInv
<1>1. ASSUME NEW c \in Conns, Accept(c)
      PROVE  BeatInv'
  BY <1>0, <1>1 DEF Accept, BeatInv, OnlySilentReaped, Awaited, Silent, Open, TypeOK
<1>2. ASSUME NEW c \in Conns, Pong(c)
      PROVE  BeatInv'
  BY <1>0, <1>2 DEF Pong, BeatInv, OnlySilentReaped, Awaited, Silent, Open, TypeOK
<1>3. ASSUME NEW c \in Conns, OnClose(c)
      PROVE  BeatInv'
  BY <1>0, <1>3 DEF OnClose, RemoveClient, BeatInv, OnlySilentReaped, Awaited, Silent, Open, TypeOK
<1>4. ASSUME NEW c \in Conns, PeerDies(c)
      PROVE  BeatInv'
  BY <1>0, <1>4 DEF PeerDies, BeatInv, OnlySilentReaped, Awaited, Silent, Open, TypeOK
<1>5. CASE Heartbeat
  <2>1. \A c \in Silent \cap Open : ~responsive[c]
    BY <1>5 DEF Heartbeat, BeatInv, Awaited, Silent, Open
  <2>2. OnlySilentReaped'
    BY <1>5, <2>1 DEF Heartbeat, BeatInv, OnlySilentReaped
  <2>3. \A c \in clients' : c \in Conns /\ pinged'[c]
    BY <1>0, <1>5 DEF Heartbeat, TypeOK
  <2>4. QED
    BY <2>2, <2>3 DEF BeatInv, Awaited, Silent
<1>6. CASE Shutdown
  BY <1>0, <1>6 DEF Shutdown, beat, BeatInv, OnlySilentReaped, Awaited, Silent
<1>7. ASSUME clients' \subseteq clients, UNCHANGED beat, Open' \subseteq Open
      PROVE  BeatInv'
  BY <1>7 DEF beat, BeatInv, OnlySilentReaped, Awaited, Silent
<1>8. ASSUME NEW c \in Conns, NEW s \in States \ {"open"}, state' = [state EXCEPT ![c] = s]
      PROVE  Open' \subseteq Open
  BY <1>0, <1>8 DEF Open, TypeOK
<1>9. ASSUME NEW c \in Conns, Upgrade(c) \/ SocketEnded(c) \/ Reject(c) \/ LimitReached(c)
                                \/ Hang(c) \/ PeerCloses(c) \/ OnError(c)
      PROVE  BeatInv'
  <2>1. clients' \subseteq clients /\ UNCHANGED beat
    BY <1>9 DEF Upgrade, SocketEnded, Reject, LimitReached, Hang, PeerCloses, OnError, RemoveClient
  <2>2. \E s \in States \ {"open"} : state' = [state EXCEPT ![c] = s]
    BY <1>9 DEF Upgrade, SocketEnded, Reject, LimitReached, Hang, PeerCloses, OnError, States
  <2>3. QED
    BY <1>7, <1>8, <2>1, <2>2
<1>10. CASE UNCHANGED vars
  BY <1>7, <1>10 DEF vars, Open
<1>11. QED
  BY <1>1, <1>2, <1>3, <1>4, <1>5, <1>6, <1>9, <1>10 DEF Next, Answer

\* No heartbeat ends the connection of a peer that answers its pings.
THEOREM ResponsiveKept == Spec => []OnlySilentReaped
<1>1. Init => BeatInv
  BY DEF Init, BeatInv, OnlySilentReaped, Awaited, Silent
<1>2. CountInv /\ BeatInv /\ [Next]_vars => BeatInv'
  BY BeatNext
<1>3. BeatInv => OnlySilentReaped
  BY DEF BeatInv
<1>4. QED
  BY <1>1, <1>2, <1>3, CountInit, CountNext, PTL DEF Spec
=============================================================================
