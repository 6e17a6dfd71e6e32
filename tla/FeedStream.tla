----------------------------- MODULE FeedStream -----------------------------
(***************************************************************************)
(* Numbering of feed messages and their replay to a client that            *)
(* reconnects: src/src/feed/publisher.ts, initialize and distributeMessage *)
(* of orchestrator.ts, and websocketServer.ts.                             *)
(*                                                                         *)
(* publish takes the next number of a counter in memory, stores the        *)
(* message and emits it with the value the counter has when the database   *)
(* answers.  The counter of a new process is the highest number stored,    *)
(* which initialize reads while the indexer is already publishing.  A      *)
(* client that reconnects asks for what is stored after the last number it *)
(* was sent.  publish writes to the primary database and a replay reads    *)
(* its replica (db.ts), which may lag behind.                              *)
(*                                                                         *)
(* The model has one process that publishes: the counters of two would     *)
(* give out the same numbers.                                              *)
(*                                                                         *)
(* Connections share nothing, so the model has one client, with one        *)
(* channel and no filter; messages of other channels only take numbers, as *)
(* do the ones that cannot be stored.                                      *)
(***************************************************************************)
EXTENDS Integers, FiniteSets, FiniteSetsExt

CONSTANTS
    MaxMessages,    \* bound: calls of publish
    PAGE,           \* rows a replay sends at most (100)
    MaxFaults,      \* bound: failing database calls
    MaxStops,       \* bound: crashes and shutdowns
    MaxDrops        \* bound: connections the network loses

ASSUME StreamAssumption ==
    /\ MaxMessages \in Nat \ {0} /\ PAGE \in Nat \ {0}
    /\ MaxFaults \in Nat /\ MaxStops \in Nat /\ MaxDrops \in Nat

\* Messages are numbered in the order of the calls of publish.
Messages == 1..MaxMessages

VARIABLES
    proc,           \* the process: down, channels registered, number read, up, or without a feed
    counter,        \* sequenceCounter
    lastRead,       \* what getLastSequence has read, 0 if there is no row
    published,      \* the calls of publish so far
    stage,          \* how far each call has come
    seq,            \* the number each message takes
    label,          \* the number it is emitted with
    rows,           \* table FeedMessage
    connected,      \* the client has a connection
    replay, batch,  \* its replay, and the rows read for it
    from, last,     \* what it asked the replay from; the last number it was sent
    first, got,     \* the first number it was sent; the messages it has received
    \* Observations, for the properties.
    early,          \* messages published before initialize had set the counter
    overlapped,     \* messages that had not been sent when the next was published
    cut,            \* a replay was truncated, read from a replica that lacked a message
                    \* whose broadcast is over, or lost with its connection
    \* What was spent of the bounds.
    faults, stops, drops

publisher == <<published, stage, seq, label, rows>>
client == <<connected, replay, batch, from, last, first, got>>
observed == <<early, overlapped, cut>>
budget == <<faults, stops, drops>>
vars == <<proc, counter, lastRead, publisher, client, observed, budget>>

Init ==
    /\ proc = "down" /\ counter = 0 /\ lastRead = 0
    /\ published = 0 /\ stage = [m \in Messages |-> "new"]
    /\ seq = [m \in Messages |-> 0] /\ label = [m \in Messages |-> 0] /\ rows = {}
    /\ connected = FALSE /\ replay = "none" /\ batch = {}
    /\ from = 0 /\ last = 0 /\ first = 0 /\ got = {}
    /\ early = {} /\ overlapped = {} /\ cut = FALSE
    /\ faults = 0 /\ stops = 0 /\ drops = 0

Fault == faults < MaxFaults /\ faults' = faults + 1

Unsent(m) == stage[m] \in {"creating", "stored", "fanout"}

\* A connection ends, and with it its replay.
HangUp ==
    /\ connected' = FALSE
    /\ replay' = "none" /\ from' = 0 /\ batch' = {}
    /\ cut' = (cut \/ (replay # "none" /\ last # from))

----------------------------------------------------------------------------
(* main, and initialize of the orchestrator. *)

\* The process starts, and with it the indexer.
Start ==
    /\ proc = "down"
    /\ proc' = "boot"
    /\ counter' = 0
    /\ UNCHANGED <<lastRead, publisher, client, observed, budget>>

\* Mutant: the rows are read in the wrong order.
ReadFirst ==
    /\ proc = "boot"
    /\ proc' = "read"
    /\ lastRead' = IF rows = {} THEN 0 ELSE Min({seq[m] : m \in rows})
    /\ UNCHANGED <<counter, publisher, client, observed, budget>>

\* getLastSequence: the query.
ReadLast ==
    /\ proc = "boot"
    /\ proc' = "read"
    /\ lastRead' = IF rows = {} THEN 0 ELSE Max({seq[m] : m \in rows})
    /\ UNCHANGED <<counter, publisher, client, observed, budget>>

\* getLastSequence has answered: set the counter, listen for messages, accept connections.
Initialize ==
    /\ proc = "read"
    /\ proc' = "up"
    /\ counter' = IF lastRead > 0 THEN lastRead ELSE counter
    /\ lastRead' = 0
    /\ UNCHANGED <<publisher, client, observed, budget>>

\* The query fails: main only logs it, and the indexer goes on without a feed.
InitializeFails ==
    /\ proc = "boot"
    /\ Fault
    /\ proc' = "headless"
    /\ UNCHANGED <<counter, lastRead, publisher, client, observed, stops, drops>>

\* A crash, or shutdown: calls and connections are gone.
Stop ==
    /\ proc # "down" /\ stops < MaxStops
    /\ stops' = stops + 1
    /\ proc' = "down"
    /\ stage' = [m \in Messages |-> IF Unsent(m) THEN "lost" ELSE stage[m]]
    /\ HangUp
    /\ lastRead' = 0
    /\ UNCHANGED <<counter, published, seq, label, rows, last, first, got, early, overlapped, faults, drops>>

----------------------------------------------------------------------------
(* publish. *)

\* The call: take the next number and send the INSERT.
Publish ==
    /\ proc # "down" /\ published < MaxMessages
    /\ LET m == published + 1
       IN  /\ published' = m
           /\ counter' = counter + 1
           /\ seq' = [seq EXCEPT ![m] = counter']
           /\ stage' = [stage EXCEPT ![m] = "creating"]
           /\ early' = IF proc = "up" THEN early ELSE early \cup {m}
           /\ overlapped' = overlapped \cup {n \in Messages : Unsent(n)}
    /\ UNCHANGED <<proc, lastRead, label, rows, client, cut, budget>>

\* The database stores the row.
Commit(m) ==
    /\ stage[m] = "creating"
    /\ stage' = [stage EXCEPT ![m] = "stored"]
    /\ rows' = rows \cup {m}
    /\ UNCHANGED <<proc, counter, lastRead, published, seq, label, client, observed, budget>>

\* create fails, perhaps after the row was stored: publish throws and nothing is emitted.
CreateFails(m) ==
    /\ stage[m] = "creating"
    /\ Fault
    /\ stage' = [stage EXCEPT ![m] = "failed"]
    /\ rows' \in {rows, rows \cup {m}}
    /\ UNCHANGED <<proc, counter, lastRead, published, seq, label, client, observed, stops, drops>>

\* create has answered: emit with the counter as it is now, to the listener if there is one.
Emit(m) ==
    /\ stage[m] = "stored"
    /\ label' = [label EXCEPT ![m] = counter]
    /\ stage' = [stage EXCEPT ![m] = IF proc = "up" THEN "fanout" ELSE "sent"]
    /\ UNCHANGED <<proc, counter, lastRead, published, seq, rows, client, observed, budget>>

\* What the client is sent live.
Send(m) ==
    /\ got' = got \cup {m}
    /\ last' = label[m]
    /\ first' = IF first = 0 THEN label[m] ELSE first

\* Mutant: no live messages to a client that waits for its replay.
BroadcastAfterReplay(m) ==
    /\ stage[m] = "fanout"
    /\ stage' = [stage EXCEPT ![m] = "sent"]
    /\ IF connected /\ replay = "none" THEN Send(m) ELSE UNCHANGED <<got, last, first>>
    /\ UNCHANGED <<proc, counter, lastRead, published, seq, label, rows, connected, replay, batch, from, observed, budget>>

\* distributeMessage has read the subscriptions: broadcast to who is connected.
Broadcast(m) ==
    /\ stage[m] = "fanout"
    /\ stage' = [stage EXCEPT ![m] = "sent"]
    /\ IF connected THEN Send(m) ELSE UNCHANGED <<got, last, first>>
    /\ UNCHANGED <<proc, counter, lastRead, published, seq, label, rows, connected, replay, batch, from, observed, budget>>

\* Reading the subscriptions fails: the message is not broadcast.
DistributeFails(m) ==
    /\ stage[m] = "fanout"
    /\ Fault
    /\ stage' = [stage EXCEPT ![m] = "failed"]
    /\ UNCHANGED <<proc, counter, lastRead, published, seq, label, rows, client, observed, stops, drops>>

----------------------------------------------------------------------------
(* The client, and handleReplay. *)

\* The client connects (again), and asks for what came after the last number it has.
Connect ==
    /\ proc = "up" /\ ~connected
    /\ connected' = TRUE
    /\ from' = last
    /\ replay' = IF last > 0 THEN "asked" ELSE "none"
    /\ UNCHANGED <<proc, counter, lastRead, publisher, batch, last, first, got, observed, budget>>

Disconnect ==
    /\ connected /\ drops < MaxDrops
    /\ drops' = drops + 1
    /\ HangUp
    /\ UNCHANGED <<proc, counter, lastRead, publisher, last, first, got, early, overlapped, faults, stops>>

\* Mutant: the number the client has is not the one it has got.
MissedFromNext(shown) == {m \in shown : seq[m] > from + 1}

\* The rows that getMissedMessages looks for, of those the replica shows.
Missed(shown) == {m \in shown : seq[m] > from}

\* What the replica does not show of them yet, and no broadcast will bring.
Unseen(shown) == {m \in rows \ shown : seq[m] > from /\ ~Unsent(m)}

\* getMissedMessages: the PAGE lowest of them. A replica that lags shows some of the
\* rows only; which ones is left open.
ReplayRead ==
    /\ replay = "asked"
    /\ replay' = "read"
    /\ \E shown \in SUBSET rows :
          /\ batch' \in {B \in SUBSET Missed(shown) :
                           /\ B # Missed(shown) => Cardinality(B) = PAGE
                           /\ Cardinality(B) <= PAGE
                           /\ \A m \in B, n \in Missed(shown) \ B : seq[m] <= seq[n]}
          /\ cut' = (cut \/ batch' # Missed(shown) \/ Unseen(shown) # {})
    /\ UNCHANGED <<proc, counter, lastRead, publisher, connected, from, last, first, got, early, overlapped, budget>>

\* They are sent in the order of their numbers.
ReplaySend ==
    /\ replay = "read"
    /\ replay' = "none"
    /\ got' = got \cup batch
    /\ last' = IF batch = {} THEN last ELSE Max({seq[m] : m \in batch})
    /\ batch' = {} /\ from' = 0
    /\ UNCHANGED <<proc, counter, lastRead, publisher, connected, first, observed, budget>>

\* The query fails: the client is told.
ReplayFails ==
    /\ replay = "asked"
    /\ Fault
    /\ replay' = "none" /\ from' = 0
    /\ UNCHANGED <<proc, counter, lastRead, publisher, connected, batch, last, first, got, observed, stops, drops>>

----------------------------------------------------------------------------
Deliver(m) == Commit(m) \/ Emit(m) \/ Broadcast(m)

Server == Start \/ ReadLast \/ Initialize \/ ReplayRead \/ ReplaySend

Next ==
    \/ Server \/ InitializeFails \/ Stop \/ Publish
    \/ \E m \in Messages : Deliver(m) \/ CreateFails(m) \/ DistributeFails(m)
    \/ Connect \/ Disconnect \/ ReplayFails

\* The database answers, the process is restarted and the client reconnects.
Fairness ==
    /\ WF_vars(Server) /\ WF_vars(Connect)
    /\ \A m \in Messages : WF_vars(Deliver(m))

Spec == Init /\ [][Next]_vars /\ Fairness

----------------------------------------------------------------------------
(* Properties. *)

\* The values every variable takes.
TypeOK ==
    /\ proc \in {"down", "boot", "read", "up", "headless"}
    /\ counter \in 0..MaxMessages /\ lastRead \in 0..MaxMessages /\ published \in 0..MaxMessages
    /\ stage \in [Messages -> {"new", "creating", "stored", "fanout", "sent", "failed", "lost"}]
    /\ seq \in [Messages -> 0..MaxMessages] /\ label \in [Messages -> 0..MaxMessages]
    /\ rows \subseteq Messages /\ batch \subseteq rows /\ got \subseteq rows
    /\ connected \in BOOLEAN /\ (connected => proc = "up")
    /\ replay \in {"none", "asked", "read"} /\ (replay # "none" => connected)
    /\ from \in 0..MaxMessages /\ last \in 0..MaxMessages /\ first \in 0..MaxMessages
    /\ early \subseteq Messages /\ overlapped \subseteq Messages /\ cut \in BOOLEAN
    /\ faults \in 0..MaxFaults /\ stops \in 0..MaxStops /\ drops \in 0..MaxDrops

\* No unique constraint stands behind the counter in memory: over any number of restarts
\* two stored messages have the same number only if one of them was published before
\* initialize had read the highest.
NumbersUnique ==
    \A m, n \in rows : m # n /\ seq[m] = seq[n] => m \in early \/ n \in early

\* publish reads the counter again after its await: the number a message is emitted with is
\* never below the one it is stored with, and above it only if another publish came between.
LabelsRunAhead ==
    \A m \in Messages \ early :
        stage[m] \in {"fanout", "sent"} => seq[m] <= label[m] /\ (seq[m] = label[m] \/ m \in overlapped)

\* A client that resumes loses nothing: when its replay is done and nothing is on its way,
\* it has every message after its first. For this one message must be sent before the next
\* is published, none may be published before initialize is done, no database call may fail
\* and a replay must neither be longer than a page, nor be lost after a live message, nor
\* read a replica without a row whose broadcast is over (one that lags less does no harm).
ResumesComplete ==
    /\ overlapped = {} /\ early = {} /\ faults = 0 /\ ~cut
    /\ connected /\ replay = "none" /\ \A m \in Messages : ~Unsent(m)
    => \A m \in rows : first > 0 /\ first <= seq[m] => m \in got

\* Under the same conditions the client gets what is stored, whatever restarts and lost
\* connections come between.
Received ==
    \A m \in Messages :
        (m \in rows /\ 0 < first /\ first <= seq[m])
            ~> (m \in got \/ overlapped # {} \/ early # {} \/ faults > 0 \/ cut)
=============================================================================
