---------------------------- MODULE IndexerDaemon ----------------------------
(***************************************************************************)
(* The main loop of the JavaScript indexer daemon:                         *)
(* src/indexer/src/index.js with upsertEvent, getMaxLedger and saveCursor  *)
(* of db.js.                                                               *)
(*                                                                         *)
(* A round fetches the contract events from the cursor on, inserts them    *)
(* one by one and moves the cursor past the latest ledger.  It fetches one *)
(* page: the loop would follow the cursor of a full one, but the client    *)
(* (stellar-sdk 12.3) returns none, so what the page left out is dropped.  *)
(* A round that fails is run again from the same cursor; a process that    *)
(* starts resumes after the highest ledger that has a row.                 *)
(*                                                                         *)
(* Data: events are numbered in the order of the network; ledger l holds   *)
(* the events EventsUpTo[l - 1] + 1 .. EventsUpTo[l].  What else is        *)
(* derived from an event is stored beside it, and failures of that are     *)
(* swallowed; the table of ledger hashes is written and never read.        *)
(***************************************************************************)
EXTENDS Integers, FiniteSets

CONSTANTS
    MaxLedger,      \* bound: the last ledger the network closes
    EventsUpTo,     \* how many events the network has up to each ledger
    START_LEDGER,   \* config.START_LEDGER, 0 when not set
    LOOKBACK,       \* how far behind the latest ledger a first run starts (100)
    PAGE_LIMIT,     \* events per page of the RPC
    MaxFailures,    \* bound: failing RPC calls and statements
    MaxStops        \* bound: crashes and SIGTERMs

ASSUME DaemonAssumption ==
    /\ MaxLedger \in Nat \ {0} /\ LOOKBACK \in 0..(MaxLedger - 1) /\ START_LEDGER \in 0..MaxLedger
    /\ EventsUpTo \in [0..MaxLedger -> Nat] /\ EventsUpTo[0] = 0
    /\ \A k, l \in 0..MaxLedger : k <= l => EventsUpTo[k] <= EventsUpTo[l]
    /\ PAGE_LIMIT \in Nat \ {0}
    /\ MaxFailures \in Nat /\ MaxStops \in Nat

Ledgers == 1..MaxLedger
Events == 1..EventsUpTo[MaxLedger]
In(l) == (EventsUpTo[l - 1] + 1)..EventsUpTo[l]

VARIABLES
    tip,            \* the network: the latest closed ledger
    rows,           \* table events: how many rows each event has
    saved,          \* table daemon_state: the cursor, written and never read
    pc,             \* where the daemon is
    cursor,         \* _cursor
    next, end,      \* the events of the page that are still to be inserted
    latest,         \* latestLedger of the last response
    shutdown,       \* a signal has been received
    \* Observations, for the properties.
    origin,         \* the ledger at which the table begins
    dirty,          \* a round has begun and none has succeeded since
    cuts,           \* ledgers that a process left half inserted
    dropped,        \* events that the page of a successful round left out
    \* What was spent of the bounds.
    failures, stops

daemon == <<cursor, next, end, latest>>
observed == <<origin, dirty, cuts, dropped>>
budget == <<failures, stops>>
vars == <<tip, rows, saved, pc, daemon, shutdown, observed, budget>>

Init ==
    /\ tip = LOOKBACK + 1
    /\ rows = [i \in Events |-> 0]
    /\ saved = 0
    /\ pc = "down" /\ shutdown = FALSE
    /\ cursor = 0 /\ next = 1 /\ end = 0 /\ latest = 0
    /\ origin = 1 /\ dirty = FALSE /\ cuts = {} /\ dropped = {}
    /\ failures = 0 /\ stops = 0

Stored(i) == rows[i] > 0

\* The ledgers that have a row, and COALESCE(MAX(ledger), 0) of them.
WithRows == {l \in Ledgers : \E i \in In(l) : Stored(i)}

maxLedger == IF WithRows = {} THEN 0 ELSE CHOOSE l \in WithRows : \A k \in WithRows : k <= l

----------------------------------------------------------------------------
\* The network (external): a ledger closes.
CloseLedger ==
    /\ tip < MaxLedger
    /\ tip' = tip + 1
    /\ UNCHANGED <<rows, saved, pc, daemon, shutdown, observed, budget>>

\* Mutant: the highest ledger is indexed again, as it may be incomplete.
ResumeAtHighest ==
    /\ pc = "down"
    /\ pc' = "fetch"
    /\ shutdown' = FALSE
    /\ cursor' = IF maxLedger > 0 THEN maxLedger
                 ELSE IF START_LEDGER > 0 THEN START_LEDGER ELSE tip - LOOKBACK
    /\ origin' = IF maxLedger > 0 THEN origin ELSE cursor'
    /\ UNCHANGED <<tip, rows, saved, next, end, latest, dirty, cuts, dropped, budget>>

\* run(): resume after the highest ledger with a row, or start.
Resume ==
    /\ pc = "down"
    /\ pc' = "fetch"
    /\ shutdown' = FALSE
    /\ cursor' = IF maxLedger > 0 THEN maxLedger + 1
                 ELSE IF START_LEDGER > 0 THEN START_LEDGER ELSE tip - LOOKBACK
    /\ origin' = IF maxLedger > 0 THEN origin ELSE cursor'
    /\ dirty' = FALSE
    /\ UNCHANGED <<tip, rows, saved, next, end, latest, cuts, dropped, budget>>

----------------------------------------------------------------------------
(* indexLedger. *)

Least(a, b) == IF a <= b THEN a ELSE b

\* The RPC refuses a start beyond its latest ledger: an error like any other.
FetchRefused ==
    /\ pc = "fetch" /\ cursor > tip
    /\ pc' = "sleep"
    /\ UNCHANGED <<tip, rows, saved, daemon, shutdown, observed, budget>>

\* getEvents: a page of the events from the cursor's ledger on.
FetchPage ==
    /\ pc = "fetch" /\ cursor <= tip
    /\ next' = EventsUpTo[cursor - 1] + 1
    /\ end' = Least(EventsUpTo[cursor - 1] + PAGE_LIMIT, EventsUpTo[tip])
    /\ latest' = tip
    /\ dirty' = TRUE
    /\ pc' = "write"
    /\ UNCHANGED <<tip, rows, saved, cursor, shutdown, origin, cuts, dropped, budget>>

\* db.upsertEventValidated: an INSERT that no constraint of the table can refuse.
InsertEvent ==
    /\ pc = "write" /\ next <= end
    /\ rows' = [rows EXCEPT ![next] = @ + 1]
    /\ next' = next + 1
    /\ UNCHANGED <<tip, saved, pc, cursor, end, latest, shutdown, observed, budget>>

\* What the page left out of the ledgers it is taken to cover.
Rest == (end + 1)..EventsUpTo[latest]

\* Mutant: the cursor moves to the tip the network has meanwhile.
EndRoundAtTip ==
    /\ pc = "write" /\ next > end
    /\ cursor' = tip + 1
    /\ dropped' = dropped \cup Rest
    /\ pc' = "save"
    /\ dirty' = FALSE
    /\ UNCHANGED <<tip, rows, saved, next, end, latest, shutdown, origin, cuts, budget>>

\* The round succeeds: the cursor moves past the latest ledger, be the page full or not.
EndRound ==
    /\ pc = "write" /\ next > end
    /\ cursor' = latest + 1
    /\ dropped' = dropped \cup Rest
    /\ pc' = "save"
    /\ dirty' = FALSE
    /\ UNCHANGED <<tip, rows, saved, next, end, latest, shutdown, origin, cuts, budget>>

----------------------------------------------------------------------------
(* The loop of run. *)

\* saveCursor, which may fail: the catch of the loop goes on to the sleep.
SaveCursor ==
    /\ pc = "save"
    /\ \/ saved' = cursor /\ UNCHANGED failures
       \/ failures < MaxFailures /\ failures' = failures + 1 /\ UNCHANGED saved
    /\ pc' = "sleep"
    /\ UNCHANGED <<tip, rows, daemon, shutdown, observed, stops>>

\* A call or statement of the round fails; an INSERT may have been committed.
FailRound ==
    /\ pc \in {"fetch", "write"} /\ failures < MaxFailures
    /\ failures' = failures + 1
    /\ pc' = "sleep"
    /\ \/ UNCHANGED rows
       \/ pc = "write" /\ next <= end /\ rows' = [rows EXCEPT ![next] = @ + 1]
    /\ UNCHANGED <<tip, saved, daemon, shutdown, observed, stops>>

\* Mutant: no round begins before the cursor of the last one is saved.
NextRoundIfSaved ==
    /\ pc = "sleep" /\ ~shutdown
    /\ pc' = IF saved = cursor THEN "fetch" ELSE "sleep"
    /\ UNCHANGED <<tip, rows, saved, daemon, shutdown, observed, budget>>

\* The next round begins, from the cursor.
NextRound ==
    /\ pc = "sleep" /\ ~shutdown
    /\ pc' = "fetch"
    /\ UNCHANGED <<tip, rows, saved, daemon, shutdown, observed, budget>>

\* The ledger a restart would resume after, if the process leaves it half inserted.
Half == {l \in WithRows : dirty /\ l = maxLedger /\ \E i \in In(l) : ~Stored(i)}

\* A process ends.
Leave ==
    /\ pc' = "down"
    /\ cuts' = cuts \cup Half
    /\ UNCHANGED <<tip, rows, saved, daemon, shutdown, origin, dirty, dropped>>

\* The loop ends after a signal.
Exit ==
    /\ pc = "sleep" /\ shutdown
    /\ Leave
    /\ UNCHANGED budget

\* SIGTERM or SIGINT.
Signal ==
    /\ pc # "down" /\ ~shutdown /\ stops < MaxStops
    /\ stops' = stops + 1
    /\ shutdown' = TRUE
    /\ UNCHANGED <<tip, rows, saved, pc, daemon, observed, failures>>

\* The process is killed.
Crash ==
    /\ pc # "down" /\ stops < MaxStops
    /\ stops' = stops + 1
    /\ Leave
    /\ UNCHANGED failures

----------------------------------------------------------------------------
Loop == FetchRefused \/ FetchPage \/ InsertEvent \/ EndRound \/ SaveCursor \/ NextRound \/ Exit

Next == CloseLedger \/ Resume \/ Loop \/ FailRound \/ Signal \/ Crash

\* The network closes its ledgers, the loop runs, and the daemon is restarted.
Fairness == WF_vars(CloseLedger) /\ WF_vars(Resume) /\ WF_vars(Loop)

Spec == Init /\ [][Next]_vars /\ Fairness

----------------------------------------------------------------------------
(* Properties. *)

\* The values every variable takes.
TypeOK ==
    /\ tip \in Ledgers
    /\ rows \in [Events -> Nat]
    /\ saved \in 0..(MaxLedger + 1)
    /\ pc \in {"down", "fetch", "write", "save", "sleep"}
    /\ cursor \in 0..(MaxLedger + 1)
    /\ next \in Nat /\ end \in 0..EventsUpTo[MaxLedger]
    /\ latest \in 0..MaxLedger
    /\ shutdown \in BOOLEAN /\ dirty \in BOOLEAN
    /\ origin \in 1..(MaxLedger + 1) /\ cuts \subseteq Ledgers
    /\ dropped \subseteq Events
    /\ failures \in 0..MaxFailures /\ stops \in 0..MaxStops

\* All of ledger l is in the table, but for what a full page left out, or a process left
\* it half inserted.
Settled(l) == l \in cuts \/ \A i \in In(l) : Stored(i) \/ i \in dropped

\* index.js:235 resumes "from the highest indexed ledger so no events are missed". They
\* are missed in two cases and no other: the highest ledger with a row may be half
\* inserted when a process ends within a round or after a failed one, and a restart goes
\* on behind it; and a full page drops the rest of its round, though index.js:199 means to
\* "follow the cursor". Else what the cursor has passed is all there.
MissedOnlyAtCut == \A l \in Ledgers : origin <= l /\ l < cursor => Settled(l)

\* Below the highest ledger that has a row no ledger is half inserted, save for the cuts
\* and what was dropped: the ledger a restart resumes after is the last one the last round
\* has come to.
NoHoles == \A l \in WithRows : \A k \in Ledgers : origin <= k /\ k < l => Settled(k)

\* The INSERT has no conflict target: an event has a row for every failed round and one
\* more. A restart alone repeats nothing.
RepeatedOnlyByRetry == \A i \in Events : rows[i] <= 1 + failures

\* While it runs, the daemon never moves its cursor back, and a restart takes it back no
\* further than the first ledger without rows that the dead process had passed.
RestartsBehind ==
    [][cursor' < cursor => pc = "down" /\ \A i \in Events : i > EventsUpTo[cursor' - 1] => ~Stored(i)]_vars

\* In the end every event from the origin on is in the table, save for the cuts and what
\* full pages dropped.
Indexed == <>[](cursor = MaxLedger + 1 /\ \A l \in Ledgers : origin <= l => Settled(l))
=============================================================================
