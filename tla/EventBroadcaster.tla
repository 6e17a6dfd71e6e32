-------------------------- MODULE EventBroadcaster --------------------------
(***************************************************************************)
(* The websocket endpoint /ws/events: src/src/ws/eventBroadcaster.ts.      *)
(*                                                                         *)
(* An upgrade request is authenticated, which takes a database call; when  *)
(* the answer is there the limits are tested and the client is registered  *)
(* in one step.  A client is removed by the close event, by the error      *)
(* event (which a close event follows), by the heartbeat (whose terminate  *)
(* is followed by a close event too) or by the shutdown, in any order.     *)
(* Broadcasting only reads this state and is not modelled.                 *)
(*                                                                         *)
(* The whole program also attaches the feed's ws server to the same HTTP   *)
(* server, and its upgrade listener ends the socket of every request for   *)
(* another path before authenticate has answered.  FeedAttached says which *)
(* of the two is looked at: the program, where nobody ever becomes a       *)
(* client, or the broadcaster on a server of its own, as its tests run it. *)
(***************************************************************************)
EXTENDS Integers, FiniteSets

CONSTANTS
    Conns,          \* the upgrade requests, each made once
    IPs,            \* the remote addresses
    MaxGlobal,      \* WS_MAX_CONNECTIONS_GLOBAL
    MaxPerIp,       \* WS_MAX_CONNECTIONS_PER_IP
    FeedAttached    \* FeedWebSocketServer listens for upgrades on the same server

ASSUME BroadcasterAssumption ==
    /\ IsFiniteSet(Conns) /\ IPs # {}
    /\ MaxGlobal \in Nat /\ MaxPerIp \in Nat
    /\ FeedAttached \in BOOLEAN

VARIABLES
    state,          \* of each connection, see States
    addr,           \* remoteIp of each connection
    clients,
    connsByIp,      \* an absent entry is 0
    isAlive,
    pinged,         \* a ping is on its way to the peer, or its pong back
    responsive,     \* the peer answers every ping within a heartbeat interval
    reaped,         \* the clients the heartbeat has terminated while they were open
    wss             \* whether the server is attached

beat == <<isAlive, pinged, responsive, reaped>>
vars == <<state, addr, clients, connsByIp, beat, wss>>

\* "auth": authenticate is running; "closing": close or terminate was called, or the
\* peer said goodbye; "hung": the upgrade is never answered.
States == {"none", "auth", "open", "closing", "closed", "hung"}

Init ==
    /\ state = [c \in Conns |-> "none"]
    /\ addr \in [Conns -> IPs]
    /\ clients = {}
    /\ connsByIp = [ip \in IPs |-> 0]
    /\ isAlive = [c \in Conns |-> FALSE] /\ pinged = [c \in Conns |-> FALSE]
    /\ responsive = [c \in Conns |-> TRUE]
    /\ reaped = {}
    /\ wss = TRUE

Open == {c \in Conns : state[c] = "open"}

From(S, ip) == {c \in S : addr[c] = ip}

\* decIp, once for each client of S.
DecIp(S) ==
    connsByIp' = [ip \in IPs |-> LET n == Cardinality(From(S, ip)) IN
                                 IF connsByIp[ip] > n THEN connsByIp[ip] - n ELSE 0]

\* removeClient: only a client that is still in the set is counted down.
RemoveClient(c) ==
    /\ clients' = clients \ {c}
    /\ DecIp({c} \cap clients)

----------------------------------------------------------------------------

\* The upgrade event; the request is handed to authenticate.
Upgrade(c) ==
    /\ state[c] = "none"
    /\ state' = [state EXCEPT ![c] = "auth"]
    /\ UNCHANGED <<addr, clients, connsByIp, beat, wss>>

\* handleUpgrade finds the socket ended and drops it: the peer has gone, or the feed's
\* server has answered 400, which it does to every upgrade of this path.
SocketEnded(c) ==
    /\ state[c] = "auth" /\ wss
    /\ state' = [state EXCEPT ![c] = "closed"]
    /\ UNCHANGED <<addr, clients, connsByIp, beat, wss>>

\* authenticate has answered and the socket is still there for handleUpgrade.
Usable(c) == state[c] = "auth" /\ wss /\ ~FeedAttached

\* Not authenticated, or its origin or its filters are refused.
Reject(c) ==
    /\ Usable(c)
    /\ state' = [state EXCEPT ![c] = "closing"]
    /\ UNCHANGED <<addr, clients, connsByIp, beat, wss>>

Full(c) == Cardinality(clients) >= MaxGlobal \/ connsByIp[addr[c]] >= MaxPerIp

LimitReached(c) ==
    /\ Usable(c) /\ Full(c)
    /\ state' = [state EXCEPT ![c] = "closing"]
    /\ UNCHANGED <<addr, clients, connsByIp, beat, wss>>

\* A mutated Accept, which tests the limit after it has added the client.
AcceptOneMore(c) ==
    /\ Usable(c)
    /\ Cardinality(clients) <= MaxGlobal /\ connsByIp[addr[c]] <= MaxPerIp
    /\ state' = [state EXCEPT ![c] = "open"]
    /\ clients' = clients \cup {c}
    /\ connsByIp' = [connsByIp EXCEPT ![addr[c]] = @ + 1]
    /\ isAlive' = [isAlive EXCEPT ![c] = TRUE]
    /\ UNCHANGED <<addr, pinged, responsive, reaped, wss>>

\* A mutated Accept, which leaves isAlive to the first pong.
AcceptSilent(c) ==
    /\ Usable(c) /\ ~Full(c)
    /\ state' = [state EXCEPT ![c] = "open"]
    /\ clients' = clients \cup {c}
    /\ connsByIp' = [connsByIp EXCEPT ![addr[c]] = @ + 1]
    /\ UNCHANGED <<addr, beat, wss>>

\* The limits allow it: the connection handler registers the client.
Accept(c) ==
    /\ Usable(c) /\ ~Full(c)
    /\ state' = [state EXCEPT ![c] = "open"]
    /\ clients' = clients \cup {c}
    /\ connsByIp' = [connsByIp EXCEPT ![addr[c]] = @ + 1]
    /\ isAlive' = [isAlive EXCEPT ![c] = TRUE]
    /\ UNCHANGED <<addr, pinged, responsive, reaped, wss>>

\* After the shutdown wss is null: handleUpgrade throws in then and again in catch,
\* and the rejection that is left makes a process that is shutting down exit at once.
Hang(c) ==
    /\ state[c] = "auth" /\ ~wss
    /\ state' = [state EXCEPT ![c] = "hung"]
    /\ UNCHANGED <<addr, clients, connsByIp, beat, wss>>

----------------------------------------------------------------------------

Pong(c) ==
    /\ pinged[c] /\ responsive[c] /\ state[c] \in {"open", "closing"}
    /\ isAlive' = [isAlive EXCEPT ![c] = TRUE]
    /\ pinged' = [pinged EXCEPT ![c] = FALSE]
    /\ UNCHANGED <<state, addr, clients, connsByIp, responsive, reaped, wss>>

\* The peer starts the closing handshake.
PeerCloses(c) ==
    /\ state[c] = "open"
    /\ state' = [state EXCEPT ![c] = "closing"]
    /\ UNCHANGED <<addr, clients, connsByIp, beat, wss>>

\* The close event; nothing refers to the client object any more.
OnClose(c) ==
    /\ state[c] \in {"open", "closing"}
    /\ state' = [state EXCEPT ![c] = "closed"]
    /\ RemoveClient(c)
    /\ isAlive' = [isAlive EXCEPT ![c] = FALSE] /\ pinged' = [pinged EXCEPT ![c] = FALSE]
    /\ UNCHANGED <<addr, responsive, reaped, wss>>

OnError(c) ==
    /\ state[c] \in {"open", "closing"}
    /\ state' = [state EXCEPT ![c] = "closing"]
    /\ RemoveClient(c)
    /\ UNCHANGED <<addr, beat, wss>>

Silent == {c \in clients : ~isAlive[c]}

\* A mutated Heartbeat, which does not reset isAlive.
HeartbeatTrusting ==
    /\ wss /\ clients \ Silent # {}
    /\ \A c \in clients : responsive[c] /\ state[c] = "open" => ~pinged[c]
    /\ pinged' = [c \in Conns |-> pinged[c] \/ c \in clients]
    /\ UNCHANGED <<state, addr, clients, connsByIp, isAlive, responsive, reaped, wss>>

\* The heartbeat: who has been silent since the last one goes, the others are pinged.
\* It comes after the answers to the last one of the peers that are responsive.
Heartbeat ==
    /\ wss /\ clients # {}
    /\ \A c \in clients : responsive[c] /\ state[c] = "open" => ~pinged[c]
    /\ state' = [c \in Conns |-> IF c \in Silent THEN "closing" ELSE state[c]]
    /\ clients' = clients \ Silent
    /\ DecIp(Silent)
    /\ isAlive' = [c \in Conns |-> isAlive[c] /\ c \notin clients]
    /\ pinged' = [c \in Conns |-> pinged[c] \/ c \in clients \ Silent]
    /\ reaped' = reaped \cup (Silent \cap Open)
    /\ UNCHANGED <<addr, responsive, wss>>

\* The peer falls silent without closing.
PeerDies(c) ==
    /\ state[c] = "open" /\ responsive[c]
    /\ responsive' = [responsive EXCEPT ![c] = FALSE]
    /\ UNCHANGED <<state, addr, clients, connsByIp, isAlive, pinged, reaped, wss>>

Shutdown ==
    /\ wss
    /\ wss' = FALSE
    /\ state' = [c \in Conns |-> IF c \in clients THEN "closing" ELSE state[c]]
    /\ clients' = {}
    /\ connsByIp' = [ip \in IPs |-> 0]
    /\ UNCHANGED <<addr, beat>>

----------------------------------------------------------------------------

Answer(c) == SocketEnded(c) \/ Reject(c) \/ LimitReached(c) \/ Accept(c) \/ Hang(c)

Next ==
    \/ \E c \in Conns : Upgrade(c) \/ Answer(c) \/ Pong(c) \/ PeerCloses(c)
                        \/ OnClose(c) \/ OnError(c) \/ PeerDies(c)
    \/ Heartbeat \/ Shutdown

(***************************************************************************)
(* Fairness: authenticate answers, the heartbeat timer fires, responsive   *)
(* peers send their pongs, and a socket that is closing does close (ws     *)
(* destroys it after 30 s).                                                *)
(***************************************************************************)
Fairness ==
    /\ WF_vars(Heartbeat)
    /\ \A c \in Conns :
        /\ WF_vars(Answer(c)) /\ WF_vars(Pong(c))
        /\ WF_vars(state[c] = "closing" /\ OnClose(c))

Spec == Init /\ [][Next]_vars /\ Fairness

----------------------------------------------------------------------------
(* Properties. *)

TypeOK ==
    /\ state \in [Conns -> States]
    /\ addr \in [Conns -> IPs]
    /\ clients \subseteq Conns /\ reaped \subseteq Conns
    /\ connsByIp \in [IPs -> Nat]
    /\ isAlive \in [Conns -> BOOLEAN] /\ pinged \in [Conns -> BOOLEAN]
    /\ responsive \in [Conns -> BOOLEAN]
    /\ wss \in BOOLEAN

\* The count of an address is the number of its clients, in whatever order and how
\* often close, error, heartbeat and shutdown remove them.
CountsAgree == \A ip \in IPs : connsByIp[ip] = Cardinality(From(clients, ip))

\* The limits hold for the connections that are really open, not only for those
\* that are counted, although authentications finish in any order.
WithinLimits ==
    /\ Cardinality(Open) <= MaxGlobal
    /\ \A ip \in IPs : Cardinality(From(Open, ip)) <= MaxPerIp

\* A client whose peer answers its pings is never reaped by the heartbeat.
OnlySilentReaped == \A c \in reaped : ~responsive[c]

\* A client that has gone away without a word does not stay registered.
ZombiesLeave == \A c \in Conns : (c \in clients /\ ~responsive[c]) ~> c \notin clients
=============================================================================
