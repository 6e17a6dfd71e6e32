--------------------------- MODULE LedgerIndexer ---------------------------
(***************************************************************************)
(* The ledger indexer of the backend: src/src/indexer/indexer.ts.          *)
(*                                                                         *)
(* A SorobanEventWorker copies the ledgers of a Stellar network into       *)
(* Postgres.  IndexerState.lastLedger (`cursor') says how far it came.     *)
(* syncToLatest backfills everything between the cursor and a target       *)
(* ledger with one call of processLedgerRange, or, when the backlog is     *)
(* long, with several calls running concurrently (catchUp).  Every await   *)
(* of the code is a point where other steps may happen, so every database  *)
(* statement and every RPC call is an action of its own.                   *)
(*                                                                         *)
(* Data: a ledger hash is the number of the reorg that produced the        *)
(* ledger (0 for the first fork), paired implicitly with its sequence; an  *)
(* event is identified by its ledger and that ledger's hash, and a ledger  *)
(* in EventLedgers carries one event of one transaction.                   *)
(***************************************************************************)
EXTENDS Integers, FiniteSets

CONSTANTS
    StartLedger,    \* config.indexerStartLedger, the initial cursor
    MaxLedger,      \* bound: the last ledger the network closes
    BATCH,          \* config.indexerBatchSize
    WORKERS,        \* config.indexerCatchupWorkers
    Slots,          \* bound: how many processLedgerRange calls may be in flight
    EventLedgers,   \* the ledgers in which a contract emits an event
    EVENT_PAGE,     \* EVENT_PAGE_SIZE of rpc.ts, counted in ledgers that have events
    AuthStart,      \* session-authorization events: ledger -> declared startLedger
    MaxReorgs,      \* bound: reorgs of the network
    MaxFailures,    \* bound: failing RPC calls and database statements
    MaxCrashes      \* bound: crashes of the indexer process

ASSUME LedgerAssumption ==
    /\ StartLedger \in Nat /\ MaxLedger \in Nat /\ StartLedger < MaxLedger
    /\ BATCH \in Nat \ {0} /\ WORKERS \in Nat \ {0} /\ EVENT_PAGE \in Nat \ {0}
    /\ MaxReorgs \in Nat /\ MaxFailures \in Nat /\ MaxCrashes \in Nat
    /\ EventLedgers \subseteq 1..MaxLedger
    /\ DOMAIN AuthStart \subseteq EventLedgers
    /\ AuthStart \in [DOMAIN AuthStart -> 1..MaxLedger]

Seqs == 1..MaxLedger
Hashes == 0..MaxReorgs
NoRow == [hash |-> -1, prev |-> -1]
Rows == [hash : Hashes, prev : Hashes]
EventIds == [seq : EventLedgers, ver : Hashes]

VARIABLES
    \* The network, as Horizon and the RPC node report it.
    tip,            \* the latest closed ledger
    chain,          \* chain[s] is the hash of ledger s on the canonical fork
    notices,        \* websocket "ledger closed" messages still in flight
    \* The database.
    cursor,         \* IndexerState.lastLedger
    ledger,         \* table Ledger: sequence -> hash and previousLedgerHash
    txs,            \* table Transaction
    events,         \* table Event
    auths,          \* table SessionAuthorization, by event
    gaps,           \* table LedgerGap
    reorgEvents,    \* table ReorgEvent
    \* The memory of the indexer process.
    sync,           \* the running syncToLatest, if any (isProcessing)
    range,          \* the processLedgerRange calls in flight
    \* What was spent of the bounds.
    reorgs, failures, crashes,
    \* Observations: read by the properties, by no action of the indexer.
    unread,         \* ledgers a call was done with before it had read their events
    overwritten     \* ledgers whose row was replaced by another fork's, in place

network == <<tip, chain, notices>>
tables == <<ledger, txs, events, auths, gaps, reorgEvents>>
memory == <<sync, range>>
budget == <<reorgs, failures, crashes>>
observed == <<unread, overwritten>>
vars == <<network, cursor, tables, memory, budget, observed>>

\* A syncToLatest(target) that backfills [from, to], at the await named pc.
SyncAt(pc, target, from, to) == [pc |-> pc, target |-> target, from |-> from, to |-> to]

IdleSync == SyncAt("idle", 0, 0, 0)

NoRange == [pc |-> "free", live |-> FALSE, from |-> 0, to |-> 0, seq |-> 0,
            hash |-> 0, prev |-> 0, expected |-> 0, todo |-> {}]

(***************************************************************************)
(* A call processLedgerRange(c[1], c[2]) before its first await.  `live'   *)
(* says that a syncToLatest still awaits the call: when Promise.all        *)
(* rejects, the other calls of the round keep running with nobody waiting. *)
(***************************************************************************)
NewRange(c) == [pc |-> "meta", live |-> TRUE, from |-> c[1], to |-> c[2], seq |-> c[1],
                hash |-> 0, prev |-> 0, expected |-> 0, todo |-> {}]

Init ==
    /\ tip = StartLedger
    /\ chain = [s \in 0..MaxLedger |-> 0]
    /\ notices = {}
    /\ cursor = StartLedger
    /\ ledger = [s \in Seqs |-> NoRow]
    /\ txs = {} /\ events = {} /\ auths = {} /\ gaps = {} /\ reorgEvents = {}
    /\ sync = IdleSync
    /\ range = [w \in Slots |-> NoRange]
    /\ reorgs = 0 /\ failures = 0 /\ crashes = 0
    /\ unread = {} /\ overwritten = {}

----------------------------------------------------------------------------
(* The network (external). *)

\* A ledger closes; the RPC node announces it to websocket subscribers.
CloseLedger ==
    /\ tip < MaxLedger
    /\ tip' = tip + 1
    /\ notices' = notices \cup {tip + 1}
    /\ chain' = [chain EXCEPT ![tip + 1] = reorgs]
    /\ UNCHANGED <<cursor, tables, memory, budget, observed>>

\* The network abandons its fork from ledger h on. It keeps growing
\* afterwards: a fork switch is only visible through the ledgers it produces.
Reorg(h) ==
    /\ reorgs < MaxReorgs /\ tip < MaxLedger
    /\ reorgs' = reorgs + 1
    /\ chain' = [s \in 0..MaxLedger |-> IF h <= s /\ s <= tip THEN reorgs + 1 ELSE chain[s]]
    /\ UNCHANGED <<tip, notices, cursor, tables, memory, failures, crashes, observed>>

----------------------------------------------------------------------------
(* syncToLatest. *)

isProcessing == sync.pc # "idle"

BeginSync(target) ==
    /\ ~isProcessing
    /\ sync' = SyncAt("read", target, 0, 0)

\* The polling loop of start(): getLatestLedger, then syncToLatest.
Poll ==
    /\ tip > StartLedger
    /\ BeginSync(tip)
    /\ UNCHANGED <<network, cursor, tables, range, budget, observed>>

\* A websocket message; onLedgerClose drops it while a sync is running.
OnLedgerClose(t) ==
    /\ t \in notices
    /\ notices' = notices \ {t}
    /\ IF isProcessing THEN UNCHANGED sync ELSE BeginSync(t)
    /\ UNCHANGED <<tip, chain, cursor, tables, range, budget, observed>>

\* [from, to] cut into at most n chunks of ceil(total / n) ledgers.
chunkSize(from, to, n) == (to - from + n) \div n

chunkEnd(start, to, size) == IF start + size - 1 <= to THEN start + size - 1 ELSE to

chunkRange(from, to, n) ==
    LET size == chunkSize(from, to, n)
        starts == {from + k * size : k \in 0..(to - from)}
    IN  {<<s, chunkEnd(s, to, size)>> : s \in starts \cap (from..to)}

\* The calls of processLedgerRange a backfill of [from, to] makes.
Chunks(from, to) ==
    IF to - from >= BATCH /\ WORKERS > 1
    THEN chunkRange(from, to, WORKERS)
    ELSE {<<from, to>>}

free == {w \in Slots : range[w].pc = "free"}

\* Start one call per chunk, in distinct free slots.
StartRanges(chunks) ==
    \E slot \in [chunks -> free] :
        /\ \A c, d \in chunks : slot[c] = slot[d] => c = d
        /\ range' = [w \in Slots |->
                        IF \E c \in chunks : slot[c] = w
                        THEN NewRange(CHOOSE c \in chunks : slot[c] = w)
                        ELSE range[w]]

\* getLastIndexedLedger, and the branch syncToLatest takes on it. Past the
\* gap test, last is target - 1: the code's second catchUp branch (gap > BATCH)
\* cannot be taken and its `end' is the target (lemma LiveTailIsOneLedger).
ReadCursor ==
    /\ sync.pc = "read"
    /\ \/ /\ cursor >= sync.target
          /\ sync' = IdleSync
          /\ UNCHANGED range
       \/ /\ cursor < sync.target - 1
          /\ sync' = SyncAt("gap", sync.target, cursor + 1, sync.target - 1)
          /\ UNCHANGED range
       \/ /\ cursor = sync.target - 1
          /\ sync' = SyncAt("ranges", sync.target, sync.target, sync.target)
          /\ StartRanges({<<sync.target, sync.target>>})
    /\ UNCHANGED <<network, cursor, tables, budget, observed>>

\* Record the LedgerGap and start backfilling it.
RecordGap ==
    /\ sync.pc = "gap"
    /\ gaps' = gaps \cup {[start |-> sync.from, end |-> sync.to, resolved |-> FALSE]}
    /\ sync' = SyncAt("ranges", sync.target, sync.from, sync.to)
    /\ StartRanges(Chunks(sync.from, sync.to))
    /\ UNCHANGED <<network, cursor, ledger, txs, events, auths, reorgEvents, budget, observed>>

\* Back to the head of the loop of syncToLatest.
NextRound == SyncAt("read", sync.target, 0, 0)

\* Mutant: Promise.race instead of Promise.all.
AnyDone ==
    /\ sync.pc = "ranges"
    /\ \E w \in Slots : range[w].live /\ range[w].pc = "done"

\* The calls that syncToLatest awaits have all returned.
AllDone ==
    /\ sync.pc = "ranges"
    /\ \A w \in Slots : range[w].live => range[w].pc = "done"

\* Mutant: the cursor is set to the target of the sync, past the backfilled gap.
AdvanceToTarget ==
    /\ AllDone
    /\ cursor' = sync.target
    /\ range' = [w \in Slots |-> IF range[w].live THEN NoRange ELSE range[w]]
    /\ sync' = NextRound
    /\ UNCHANGED <<network, tables, budget, observed>>

\* setLastIndexedLedger(to) once every awaited call has returned.
Advance ==
    /\ AllDone
    /\ cursor' = sync.to
    /\ range' = [w \in Slots |-> IF range[w].live THEN NoRange ELSE range[w]]
    /\ sync' = IF sync.to < sync.target THEN SyncAt("resolve", sync.target, sync.from, sync.to) ELSE NextRound
    /\ UNCHANGED <<network, tables, budget, observed>>

\* Mutant: updateMany without the bounds of the gap.
ResolveEveryGap ==
    /\ sync.pc = "resolve"
    /\ gaps' = {[g EXCEPT !.resolved = TRUE] : g \in gaps}
    /\ sync' = NextRound
    /\ UNCHANGED <<network, cursor, ledger, txs, events, auths, reorgEvents, range, budget, observed>>

\* ledgerGap.updateMany on the exact bounds of the gap just backfilled.
ResolveGap ==
    /\ sync.pc = "resolve"
    /\ gaps' = {IF g.start = sync.from /\ g.end = sync.to
                THEN [g EXCEPT !.resolved = TRUE] ELSE g : g \in gaps}
    /\ sync' = NextRound
    /\ UNCHANGED <<network, cursor, ledger, txs, events, auths, reorgEvents, range, budget, observed>>

----------------------------------------------------------------------------
(* processLedgerRange. *)

\* A call throws. If it is awaited, syncToLatest ends (`finally') and the
\* other calls of its round go on unawaited.
Orphan(r) == IF r.pc = "done" THEN NoRange ELSE [r EXCEPT !.live = FALSE]

Throw(w) ==
    /\ range' = [x \in Slots |-> CASE x = w -> NoRange
                                   [] x # w /\ range[w].live -> Orphan(range[x])
                                   [] OTHER -> range[x]]
    /\ sync' = IF range[w].live THEN IdleSync ELSE sync

Goto(w, r) == range' = [range EXCEPT ![w] = r]

\* A call that returns is remembered only while somebody awaits it.
Return(w) == Goto(w, IF range[w].live THEN [range[w] EXCEPT !.pc = "done"] ELSE NoRange)

\* fetchLedgerMetadata: one response holds the hash and the parent's hash.
FetchMeta(w) ==
    /\ range[w].pc = "meta"
    /\ Goto(w, [range[w] EXCEPT !.pc = "check", !.hash = chain[range[w].seq],
                                !.prev = chain[range[w].seq - 1]])
    /\ UNCHANGED <<network, cursor, tables, sync, budget, observed>>

\* The stored row of ledger seq - 1, if there is one.
PrevRow(seq) == IF seq - 1 \in Seqs THEN ledger[seq - 1] ELSE NoRow

\* Mutant: the first ledger of a range is not checked against the stored one.
CheckPrevWithinRange(w) ==
    LET prevLedger == PrevRow(range[w].seq)
    IN  /\ range[w].pc = "check"
        /\ IF range[w].seq > range[w].from /\ prevLedger # NoRow /\ prevLedger.hash # range[w].prev
           THEN Goto(w, [range[w] EXCEPT !.pc = "reorg", !.expected = prevLedger.hash])
           ELSE Goto(w, [range[w] EXCEPT !.pc = "save"])
        /\ UNCHANGED <<network, cursor, tables, sync, budget, observed>>

\* ledger.findUnique(seq - 1) and the reorg test.
CheckPrev(w) ==
    LET prevLedger == PrevRow(range[w].seq)
    IN  /\ range[w].pc = "check"
        /\ IF prevLedger # NoRow /\ prevLedger.hash # range[w].prev
           THEN Goto(w, [range[w] EXCEPT !.pc = "reorg", !.expected = prevLedger.hash])
           ELSE Goto(w, [range[w] EXCEPT !.pc = "save"])
        /\ UNCHANGED <<network, cursor, tables, sync, budget, observed>>

\* Mutant: the reorg is not recorded.
ReorgUnrecorded(w) ==
    /\ range[w].pc = "reorg"
    /\ Goto(w, [range[w] EXCEPT !.pc = "rollback"])
    /\ UNCHANGED <<network, cursor, tables, sync, budget, observed>>

\* reorgEvent.create, with the hash read by CheckPrev.
RecordReorg(w) ==
    /\ range[w].pc = "reorg"
    /\ reorgEvents' = reorgEvents \cup
          {[seq |-> range[w].seq, expected |-> range[w].expected, actual |-> range[w].prev]}
    /\ Goto(w, [range[w] EXCEPT !.pc = "rollback"])
    /\ UNCHANGED <<network, cursor, ledger, txs, events, auths, gaps, sync, budget, observed>>

\* Mutant: rollbackLedgers forgets SessionAuthorization.
RollbackKeepsAuths(w) ==
    LET prevSeq == range[w].seq - 1
    IN  /\ range[w].pc = "rollback"
        /\ events' = {e \in events : e.seq # prevSeq}
        /\ txs' = {t \in txs : t.seq # prevSeq}
        /\ ledger' = [ledger EXCEPT ![prevSeq] = NoRow]
        /\ unread' = unread \ {prevSeq} /\ overwritten' = overwritten \ {prevSeq}
        /\ Goto(w, [range[w] EXCEPT !.pc = "rewind"])
        /\ UNCHANGED <<network, cursor, auths, gaps, reorgEvents, sync, budget>>

\* Mutant: rollbackLedgers deletes the ledger's row and not the transactions of it.
RollbackKeepsTransactions(w) ==
    LET prevSeq == range[w].seq - 1
    IN  /\ range[w].pc = "rollback"
        /\ auths' = {a \in auths : AuthStart[a.seq] # prevSeq}
        /\ events' = {e \in events : e.seq # prevSeq}
        /\ ledger' = [ledger EXCEPT ![prevSeq] = NoRow]
        /\ unread' = unread \ {prevSeq} /\ overwritten' = overwritten \ {prevSeq}
        /\ Goto(w, [range[w] EXCEPT !.pc = "rewind"])
        /\ UNCHANGED <<network, cursor, txs, gaps, reorgEvents, sync, budget>>

\* rollbackLedgers([seq - 1]): one transaction over five tables. Session
\* authorizations are matched by their declared start ledger.
Rollback(w) ==
    LET prevSeq == range[w].seq - 1
    IN  /\ range[w].pc = "rollback"
        /\ auths' = {a \in auths : AuthStart[a.seq] # prevSeq}
        /\ events' = {e \in events : e.seq # prevSeq}
        /\ txs' = {t \in txs : t.seq # prevSeq}
        /\ ledger' = [ledger EXCEPT ![prevSeq] = NoRow]
        /\ unread' = unread \ {prevSeq} /\ overwritten' = overwritten \ {prevSeq}
        /\ Goto(w, [range[w] EXCEPT !.pc = "rewind"])
        /\ UNCHANGED <<network, cursor, gaps, reorgEvents, sync, budget>>

\* setLastIndexedLedger(prevSeq - 1), then throw. The cursor is set past the
\* ledgers this call had saved before prevSeq and not yet fetched the events of.
Rewind(w) ==
    /\ range[w].pc = "rewind"
    /\ cursor' = range[w].seq - 2
    /\ unread' = unread \cup {s \in EventLedgers : range[w].from <= s /\ s <= range[w].seq - 2}
    /\ Throw(w)
    /\ UNCHANGED <<network, tables, budget, overwritten>>

\* ledger.upsert(seq); the loop goes on to the next ledger or to the events. An
\* update replaces the row alone: what is stored under it stays.
SaveLedger(w) ==
    /\ range[w].pc = "save"
    /\ overwritten' = IF ledger[range[w].seq].hash \in {NoRow.hash, range[w].hash}
                      THEN overwritten ELSE overwritten \cup {range[w].seq}
    /\ ledger' = [ledger EXCEPT ![range[w].seq] =
                    [hash |-> range[w].hash, prev |-> range[w].prev]]
    /\ Goto(w, IF range[w].seq < range[w].to
               THEN [range[w] EXCEPT !.pc = "meta", !.seq = range[w].seq + 1, !.hash = 0, !.prev = 0]
               ELSE [range[w] EXCEPT !.pc = "events", !.hash = 0, !.prev = 0])
    /\ UNCHANGED <<network, cursor, txs, events, auths, gaps, reorgEvents, sync, budget, unread>>

\* The ledgers with events between from and to (the network reports them in order).
EventsIn(from, to) == {s \in EventLedgers : from <= s /\ s <= to}

\* fetchEvents(from, to), as the network reports them now: one page. The pinned SDK
\* returns no paging token, so after a full page the loop ends without an error.
FetchEvents(w) ==
    LET inRange == EventsIn(range[w].from, range[w].to)
        page == {s \in inRange : Cardinality(EventsIn(range[w].from, s)) <= EVENT_PAGE}
    IN  /\ range[w].pc = "events"
        /\ IF page = {} THEN Return(w)
           ELSE Goto(w, [range[w] EXCEPT !.pc = "tx",
                                         !.todo = {[seq |-> s, ver |-> chain[s]] : s \in page}])
        /\ unread' = unread \cup (inRange \ page)
        /\ UNCHANGED <<network, cursor, tables, sync, budget, overwritten>>

\* Events are stored in ledger order: e is the next one.
IsNext(w, e) == e \in range[w].todo /\ \A f \in range[w].todo : e.seq <= f.seq

\* Done with event e: the next one, or the end of the call.
EventDone(w, e) ==
    IF range[w].todo = {e} THEN Return(w)
    ELSE Goto(w, [range[w] EXCEPT !.pc = "tx", !.todo = @ \ {e}])

\* transaction.upsert, unless the transaction is stored already. The foreign
\* key on Ledger makes the insert fail when the ledger's row is gone.
SaveTransaction(w, e) ==
    /\ range[w].pc = "tx" /\ IsNext(w, e)
    /\ IF e \notin txs /\ ledger[e.seq] = NoRow
       THEN Throw(w) /\ UNCHANGED txs
       ELSE /\ txs' = txs \cup {e}
            /\ Goto(w, [range[w] EXCEPT !.pc = "event"])
            /\ UNCHANGED sync
    /\ UNCHANGED <<network, cursor, ledger, events, auths, gaps, reorgEvents, budget, observed>>

\* event.upsert; foreign keys on Ledger and Transaction. The publication to the
\* feed that follows swallows its errors and changes nothing of the indexer.
SaveEvent(w, e) ==
    /\ range[w].pc = "event" /\ IsNext(w, e)
    /\ IF e \notin events /\ (ledger[e.seq] = NoRow \/ e \notin txs)
       THEN Throw(w) /\ UNCHANGED events
       ELSE /\ events' = events \cup {e}
            /\ IF e.seq \in DOMAIN AuthStart
               THEN Goto(w, [range[w] EXCEPT !.pc = "auth"])
               ELSE EventDone(w, e)
            /\ UNCHANGED sync
    /\ UNCHANGED <<network, cursor, ledger, txs, auths, gaps, reorgEvents, budget, observed>>

\* processSessionAuthorization: sessionAuthorization.upsert by event id.
SaveAuth(w, e) ==
    /\ range[w].pc = "auth" /\ IsNext(w, e)
    /\ auths' = auths \cup {e}
    /\ EventDone(w, e)
    /\ UNCHANGED <<network, cursor, ledger, txs, events, gaps, reorgEvents, sync, budget, observed>>

----------------------------------------------------------------------------
(* Failures. *)

\* An RPC call or a statement of a range fails.
FailRange(w) ==
    /\ failures < MaxFailures
    /\ range[w].pc \notin {"free", "done"}
    /\ failures' = failures + 1
    /\ Throw(w)
    /\ UNCHANGED <<network, cursor, tables, reorgs, crashes, observed>>

\* A statement of syncToLatest itself fails.
FailSync ==
    /\ failures < MaxFailures
    /\ sync.pc \in {"read", "gap", "resolve"} \/ AllDone
    /\ failures' = failures + 1
    /\ sync' = IdleSync
    /\ range' = [w \in Slots |-> IF range[w].live THEN NoRange ELSE range[w]]
    /\ UNCHANGED <<network, cursor, tables, reorgs, crashes, observed>>

\* The process dies and is started again: what was in memory is lost.
Crash ==
    /\ crashes < MaxCrashes
    /\ crashes' = crashes + 1
    /\ sync' = IdleSync
    /\ range' = [w \in Slots |-> NoRange]
    /\ notices' = {}
    /\ UNCHANGED <<tip, chain, cursor, tables, reorgs, failures, observed>>

----------------------------------------------------------------------------
\* One step of the processLedgerRange call in slot w, failures aside.
RangeStep(w) ==
    \/ FetchMeta(w)
    \/ CheckPrev(w)
    \/ RecordReorg(w)
    \/ Rollback(w)
    \/ Rewind(w)
    \/ SaveLedger(w)
    \/ FetchEvents(w)
    \/ \E e \in range[w].todo :
          \/ SaveTransaction(w, e)
          \/ SaveEvent(w, e)
          \/ SaveAuth(w, e)

SyncStep == ReadCursor \/ RecordGap \/ Advance \/ ResolveGap

Next ==
    \/ CloseLedger
    \/ \E h \in 1..tip : Reorg(h)
    \/ Poll
    \/ \E t \in notices : OnLedgerClose(t)
    \/ SyncStep
    \/ \E w \in Slots : RangeStep(w) \/ FailRange(w)
    \/ FailSync
    \/ Crash

(***************************************************************************)
(* Fairness: the network keeps closing ledgers, the polling loop of start()*)
(* never ends, and an operation that has been issued completes or fails.   *)
(* Nothing makes a reorg, a failure, a crash or a websocket message happen.*)
(***************************************************************************)
Fairness ==
    /\ WF_vars(CloseLedger)
    /\ WF_vars(Poll)
    /\ WF_vars(SyncStep)
    /\ \A w \in Slots : WF_vars(RangeStep(w))

Spec == Init /\ [][Next]_vars /\ Fairness

----------------------------------------------------------------------------
(* Properties. *)

RangePcs == {"free", "meta", "check", "reorg", "rollback", "rewind", "save",
             "events", "tx", "event", "auth", "done"}

Ranges == [pc : RangePcs, live : BOOLEAN, from : 0..MaxLedger, to : 0..MaxLedger,
           seq : 0..MaxLedger, hash : Hashes, prev : Hashes, expected : Hashes,
           todo : SUBSET EventIds]

Gaps == [start : Seqs, end : Seqs, resolved : BOOLEAN]

ReorgRows == [seq : Seqs, expected : Hashes, actual : Hashes]

Syncs == [pc : {"idle", "read", "gap", "ranges", "resolve"}, target : 0..MaxLedger,
          from : 0..MaxLedger, to : 0..MaxLedger]

\* The values every variable takes. That the cursor stays within the ledgers the
\* indexer was configured for is not a matter of shape: Rewind subtracts.
TypeOK ==
    /\ tip \in StartLedger..MaxLedger
    /\ chain \in [0..MaxLedger -> Hashes]
    /\ notices \subseteq Seqs
    /\ cursor \in StartLedger..MaxLedger
    /\ ledger \in [Seqs -> Rows \cup {NoRow}]
    /\ txs \subseteq EventIds /\ events \subseteq EventIds /\ auths \subseteq EventIds
    /\ gaps \subseteq Gaps
    /\ reorgEvents \subseteq ReorgRows
    /\ sync \in Syncs
    /\ range \in [Slots -> Ranges]
    /\ reorgs \in 0..MaxReorgs /\ failures \in 0..MaxFailures /\ crashes \in 0..MaxCrashes
    /\ unread \subseteq EventLedgers /\ overwritten \subseteq Seqs

\* Ledger s is missing although the cursor says it was indexed.
Hole(s) == StartLedger < s /\ s <= cursor /\ ledger[s] = NoRow

\* The hash chain of the indexed ledgers is unbroken: what the admin endpoint
\* consistency-check verifies row by row. With one worker, whatever the network,
\* failures and crashes do, no two neighbouring rows ever disagree.
AdjacentLinked ==
    \A s \in Seqs : s < cursor /\ ledger[s] # NoRow /\ ledger[s + 1] # NoRow
                        => ledger[s + 1].prev = ledger[s].hash

\* A ledger can go missing below the cursor only in a rollback that was cut short
\* before setLastIndexedLedger, and then a ReorgEvent row names it.
HolesAreRecorded ==
    \A s \in Seqs : Hole(s) => \E r \in reorgEvents : r.seq = s + 1

\* rollbackLedgers leaves no session authorization of an abandoned fork behind:
\* one without its event is one whose event data declared another start ledger than
\* its own (indexer.ts:48 matches by that number, not by the event's ledger).
AuthsBacked == \A a \in auths : a \in events \/ AuthStart[a.seq] # a.seq

\* What the tables hold of ledger s is what the canonical fork has: its row, its
\* transaction and event unless a call was done with it before reading them, and
\* nothing of an abandoned fork unless its row was replaced in place.
Canonical(s) ==
    /\ ledger[s].hash = chain[s]
    /\ s \in EventLedgers \ unread => [seq |-> s, ver |-> chain[s]] \in events \cap txs
    /\ s \notin overwritten => \A e \in events \cup txs : e.seq = s => e.ver = chain[s]

\* The indexer catches up with the network and, once reorgs, failures and crashes
\* are over, its ledgers, transactions and events are the canonical fork's. Three
\* things stand in the way, and nothing else: a rollback that was interrupted leaves
\* a hole at which the reorg check stops; a ledger saved again over a row of another
\* fork keeps what was stored under that row; a ledger passed over is never read.
Converges ==
    <>[](/\ cursor = MaxLedger
         /\ \/ \A s \in Seqs : s > StartLedger => Canonical(s)
            \/ \E s \in Seqs : Hole(s))

\* What is stored of ledger s: its row, and its transaction and event if any.
Stored(s) ==
    /\ ledger[s] # NoRow
    /\ s \in EventLedgers => \E e \in events \cap txs : e.seq = s

\* The ledger is there, but a full page of events cut its own off (unread).
CutOff(s) == ledger[s] # NoRow /\ s \in unread

\* Every ledger up to the cursor is stored with its events, but for those that a full
\* page cut off without an error: however the rounds of catchUp fail, crash, retry
\* and overlap, as long as the network has no reorg, nothing else goes missing.
Complete == \A s \in Seqs : StartLedger < s /\ s <= cursor => Stored(s) \/ CutOff(s)

\* Without reorgs, no round, retry or late call ever moves the cursor back.
CursorNeverRetreats == [][cursor' >= cursor]_vars

\* A gap is marked resolved only when all of it has been backfilled, as far as the
\* pages of events went: a resolved gap may hide ledgers that were cut off, no others.
ResolvedGapsStored ==
    \A g \in gaps : g.resolved => \A s \in g.start..g.end : Stored(s) \/ CutOff(s)

Index == INSTANCE AbstractIndex WITH
             Start <- StartLedger, Last <- MaxLedger, upto <- cursor, lost <- unread,
             index <- {s \in Seqs : StartLedger < s /\ Stored(s)}

\* Without reorgs the rounds of catchUp, their retries and the calls they leave behind
\* implement an index that only grows and is published in order, over ledgers that
\* are complete or whose events were cut off by a full page.
ImplementsIndex == Index!Spec

\* indexer.ts:244: "the whole round retries safely (upserts are idempotent)":
\* between rounds, whatever happened in them, nothing below the cursor is missing.
RetriesSafely ==
    ~isProcessing /\ free = Slots => Complete

=============================================================================
