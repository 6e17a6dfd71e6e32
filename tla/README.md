# TLA+ verification of the Octraban backend

Octraban indexes a Stellar/Soroban network into Postgres and serves what it has
indexed over REST, GraphQL, websockets and webhooks.  This directory holds TLA+
models of the parts of the system whose correctness depends on the order in
which things happen, TLC configurations that check them on small instances, and
TLAPS proofs for all instances.

    tlc -workers 2 -config indexer_reorg.cfg MCLedgerIndexer
    tlapm LedgerIndexerProofs.tla

`PROJECT.json` lists every run with its module, its configuration and its
expected result, maps every definition to the source lines it models, and lists
mutants: small plausible bugs, each of which makes one property fail.

## The system

There are two programs.  The TypeScript backend (`src/src`) is a single Node
process: an Express API, a ledger indexer (`SorobanEventWorker`), a webhook
dispatcher, live feeds and several periodic jobs; it may run in several
replicas over one database.  The JavaScript daemon (`src/indexer/src`) is an
older indexer with its own main loop, API, Redis leader election and rate
limiters.  Both are single-threaded event loops: two pieces of code interleave
only at an `await`, a timer or a callback, but any await is such a point, and
every replica has its own loop.

| Component | State it keeps | Operations | What is hard | Module |
|---|---|---|---|---|
| Ledger indexer `indexer/indexer.ts` | `IndexerState.lastLedger`; tables Ledger, Transaction, Event, SessionAuthorization, LedgerGap, ReorgEvent; `isProcessing` | poll, websocket notice, `syncToLatest`, `catchUp`, `processLedgerRange`, `rollbackLedgers` | reorgs, parallel workers of which one fails, crash between a rollback and the cursor write, calls nobody awaits | `LedgerIndexer`, `AbstractIndex` |
| Webhook dispatcher `webhooks/dispatcher.ts`, `api/webhooks.ts` | WebhookDelivery rows (status, lease, next retry, attempt), `subscription.active` | `dispatchWebhooks`, `retryPendingDeliveries`, `deliverOnce`, PATCH of a subscription | several replicas, leases that run out, crashes in the middle of a delivery, deactivation during one, events that are rolled back | `WebhookDispatcher`, `AbstractDelivery` |
| Leader election `leaderElection.js` | a Redis key with an expiry time; `_isLeader`; two timers | `tryAcquireLock`, `renewLock`, `releaseLock`, `start`, `stop` | overlapping calls, slow or failing Redis, two-call read-then-write | `LeaderElection`, `AbstractLease` |
| Daemon main loop `index.js`, `db.js` | `_cursor`, table events, table daemon_state | resume, rounds of one page, insert, save the cursor, signals | a process that ends within a ledger, a full page that drops the rest of its round, rounds that are run again | `IndexerDaemon` |
| Rate limits of the daemon's API `concurrentLimiter.js`, `tokenBucket.js` | a Redis counter with a TTL, a bucket per client in the process, one shared connection | count in, count out, take a token, connect | hang-ups, failing commands, Redis away for a while, a counter that expires under requests in flight | `RequestGate` |
| Feed delivery `feed/deliveryService.ts`, `feed/orchestrator.ts`, `feed/subscriptionManager.ts` | FeedSubscription rows, batch queues, batch timers | distribute, deliver, batch, flush, change of the subscription, shutdown | the row is read before an await and used after it; timer against full batch; rejections nobody catches | `FeedDelivery`, `AbstractBatches` |
| Feed publisher and sockets `feed/publisher.ts`, `feed/orchestrator.ts`, `feed/websocketServer.ts` | sequence counter, FeedMessage rows, connections | publish, initialize, broadcast, connect, replay | the counter is read again after an await; the indexer publishes before the counter is set; live messages overtake a replay; a replay reads a replica that lags behind | `FeedStream` |
| Websocket broadcaster `ws/eventBroadcaster.ts` | client set, connections per IP, heartbeat | upgrade (async authentication), pong, close, error, heartbeat, shutdown | a client is removed by several events in any order; authentications end in any order; shutdown during one; the feed's server answers the same upgrades | `EventBroadcaster` |
| Archiver `archival/archiver.ts`, `indexer/dataPruner.ts` | Transaction.rawXdr, S3 objects | find a batch, upload it in parallel, empty the column | overlapping runs, failing uploads, a crash between the two stores, a cursor whose row no longer matches | `Archiver` |
| RPC client, websocket reconnect, repair, cron engine, caches, authentication, build queue, bridge tracker, dead letter queue, provider pool, lifecycle | see `PROJECT.json` | | | left out, see "Not modelled" |
| Decoders, analytics, read-only API, sandbox | none, or data only | | pure computation | left out |

Interactions.  The indexer writes the tables that everything else reads, and
rolls back or prunes events that a pending delivery still refers to (`DropEvent`
in `WebhookDispatcher`).  Nothing in the repository calls `dispatchWebhooks` or
`retryPendingDeliveries`: the module has both at the disposal of a caller and
does not assume that there is one.  The indexer publishes to the feed whether or
not the feed is initialized (`early` in `FeedStream`), and stores the
transactions the archiver empties.  Feeds and websockets are told of new events
by callbacks, and both listen for upgrades on the one HTTP server
(`FeedAttached` in `EventBroadcaster`).  A rejection nobody handles in any of
them reaches `unhandledRejection` and shuts the whole backend down
(`gracefulShutdown`), which stops the feed and the websockets in turn.

Conventions.  An await of the code is the border between two actions; what runs
without one is a single action.  Mutants stand beside the definition they
mutate.  Constants named `Max...` bound what would otherwise go on for ever
(faults, crashes, messages) and appear only in guards.  Time is counted in ticks
that are left until a timer fires or a lease ends.

## LedgerIndexer

State.  The network (`tip`, `chain`, websocket `notices`), the six tables, the
cursor, and the memory of the process: at most one `syncToLatest` (`sync`; its
presence is `isProcessing`) and the calls of `processLedgerRange` in flight
(`range`, one record per slot).  A hash is the number of the reorg that made
the ledger; an event is identified by its ledger and that hash, and a ledger has
at most one event.  `unread` and `overwritten` observe: ledgers whose events a
call did not get to, and ledgers whose row another fork's replaced in place.  The
model has one `SorobanEventWorker`; the repository's compose file and README run
two over the same `singleton` row of IndexerState, which is not modelled.

Actions.  `Poll` and `OnLedgerClose` start a sync; `ReadCursor` is its loop
head (done, gap, or the live ledger); `RecordGap` writes the gap row and starts
one call, or one call per chunk (`chunkRange`); `FetchMeta`, `CheckPrev`,
`RecordReorg`, `Rollback`, `Rewind`, `SaveLedger`, `FetchEvents`,
`SaveTransaction`, `SaveEvent`, `SaveAuth` are the awaits of
`processLedgerRange`; `Advance` and `ResolveGap` end a round.  A failing call
(`FailRange`, `FailSync`) or a detected reorg rejects `Promise.all`: the sync
ends, but the other calls go on unawaited (`Orphan`).  `Crash` loses the memory.
Horizon and the RPC node answer with what the network holds at that moment, or
fail, but `FetchEvents` gets one page of `EVENT_PAGE` at most: the response of
the pinned SDK has no paging token, so that the loop of `fetchEvents`
(`rpc.ts:77-125`) ends after a full page without an error.

| Run | Bounds | Shows |
|---|---|---|
| indexer_reorg | 3 ledgers, 1 worker, 2 reorgs, 1 failure, 1 crash, authorizations in two ledgers of which one declares another start ledger | `AdjacentLinked`: the stored chain never contradicts itself; `HolesAreRecorded`; `AuthsBacked`; `Converges`: ledgers, transactions and events become the canonical fork's, but for the exceptions below |
| indexer_catchup | 4 ledgers, 2 workers, 3 slots, pages of one event, 1 failure, no reorg | `Complete`: nothing below the cursor is missing but events that a full page cut off, although calls of failed rounds are still writing; `ResolvedGapsStored`; `ImplementsIndex` |
| indexer_retry | 5 ledgers, 2 workers, 1 reorg (violation) | `RetriesSafely`: a call left over from a failed round rolls a ledger back behind the retry |

Two reorgs over three ledgers give every combination of a fork detected at,
below and above the cursor, including a second reorg during the repair of the
first; two workers and a third slot are enough for one unawaited call next to a
full round.  A page of one event is exceeded by two ledgers with events in one
call.  A call that meets a reorg in its third ledger or later moves the cursor past
ledgers it had saved without their events; four ledgers are the fewest for that,
and `Converges` passes with `MaxLedger` 4, one reorg, one failure and no crash as
well.  Fairness: ledgers close, the polling loop runs, and an awaited call
answers or fails.  The websocket is not assumed to deliver anything.

The abstract specification.  `AbstractIndex` is what a reader of the tables may
rely on while the network does not change its fork: ledgers are added in any
order and never removed, and `lastLedger` moves forward only over ledgers that
are there with their transactions and events, or whose events were given up when
a response did not reach them.  `ImplementsIndex` maps `upto` to the cursor,
`index` to the ledgers that are stored completely and `lost` to `unread`; a round
of parallel calls is a number of `Store` and `GiveUp` steps in any order and one
`Publish`.

Proved (`LedgerIndexerProofs`), for all chain lengths, worker counts, batch
sizes, failures and crashes:

* `TypeCorrect`: `Spec => []TypeOK`, in particular the cursor stays between the
  configured start and the tip.  `TypeOK` alone is not inductive (a rollback
  subtracts from the position of the call); `BoundsInv` adds that every call
  works inside its range, above the start ledger and not above the tip.
* `CatchUpComplete`: without reorgs, `Spec => []Complete`: every ledger up to the
  cursor is stored, with its event unless a full page cut it off.  The inductive
  invariant `CompleteInv` says what a call has stored at each await
  (`ProgressOK`), that the calls awaited by a round cover it (`Covered`), and
  that all below the cursor is kept (`Kept`).  It needs `ChunksCover`, the lemma
  that the chunks of `chunkRange` leave no ledger out.
* `CatchUpImplementsIndex`: without reorgs, `Spec => ImplementsIndex`.  Under
  `CompleteInv` every step is a `Store`, a `GiveUp`, a `Publish` or a stutter
  (`IndexStep`); a step that writes rows of one ledger changes no other
  (`StoreOne`).
* `CatchUpAdvances`: without reorgs the cursor never moves back.
* `GapsAreFilled`: without reorgs, `Spec => []ResolvedGapsStored`.  `GapInv` adds to
  `CompleteInv` that the gap which is about to be marked lies below the cursor.
* `ChainLinked` (`AdjacentLinked`), `HolesRecorded` (`HolesAreRecorded`) and
  `AuthsRolledBack` (`AuthsBacked`), with one worker and one call in flight at a
  time, for any number of reorgs.  The inductive invariant `AloneInv`: the call is
  the running sync's and begins right behind the cursor (`OneCall`), the ledgers it
  has walked are stored and linked, and the reorg it is about to roll back has its
  row (`WalkOK`), and it stores an authorization only after its event (`TodoOK`).
  A rollback therefore never leaves a row above the one it removes that the
  cursor still counts.

Both assumptions are needed.  indexer_retry shows what two workers and one reorg
do: a call left over from a failed round rolls back a ledger that the retry has
just stored, below a cursor that has moved on.

What the conditions in the properties say of the code.  `AuthsBacked` excepts
authorizations whose event data declare another start ledger than their own:
`rollbackLedgers` matches by that number (`indexer.ts:48`), so that these
survive the rollback of their ledger.  `Complete`, `ResolvedGapsStored` and
`ImplementsIndex` except ledgers in `unread`: a range with more events than a
page loses the rest, the cursor moves over it and its gap is resolved.
`Converges` and `HolesAreRecorded` allow the hole that a crash between
`rollbackLedgers` and `setLastIndexedLedger` leaves.  `Converges` excepts two
more cases: the events of ledgers in `unread`, and abandoned events under a
ledger in `overwritten` (a call that had stored events dies before the cursor is
written, the fork changes, and the repeated call replaces the ledger's row
without a rollback).  A worker that meets a reorg moves the cursor although its
round then fails; and a gap whose backfill failed is tried again with a larger
target, so that the update which resolves it no longer matches the row of the
first attempt.

## WebhookDispatcher

State.  The delivery rows of one subscription, `active`, the claiming
transaction of each replica (`retry`) and the `deliverOnce` calls in flight
(`task`); `leaseExpiresAt` and `nextRetryAt` are the ticks that are left,
`Never` is NULL.  `FindDue` and `ClaimRows` are the two halves of the claiming
transaction under READ COMMITTED; `Lookup` (or `EventMissing`), `UnsafeUrl` or
`MarkAttempt`, `Post` and `Record` are the awaits of `deliverOnce`, so that an
event lost after its lookup is still sent; `WriteFails` follows its try/catch;
`Deactivate` and `CancelPending` are the two statements of the PATCH handler.

`Timely` says that a call ends before its lease does and that no two claims of a
row carry the same millisecond.  Without it the same delivery is made twice: the
lease runs from the claim of the batch, a request from its turn in the queue of
the process, and the claim recognises its rows by their lease timestamp alone.

| Run | Bounds | Shows |
|---|---|---|
| webhook_delivery | 2 deliveries, 2 replicas, 2 slots, 2 attempts, 2 changes of the subscription, 2 faults (crash, failing write or lost event), `Timely` | `ExclusiveDelivery`, `AttemptsBounded`, `ImplementsDelivery`; `StrandedOnlyAfterMark`: only a crash or failing write after line 285 leaves a pending row where no claim finds it; `CancelledStays`; `LostIsNotSent` |
| webhook_crash | 1 delivery, 1 fault, replicas that keep calling `retryPendingDeliveries` (violation) | `ExpiredLeaseReclaimed`: a crash during the request leaves a row nobody claims |

Two replicas are the fewest that compete for a row, two deliveries the fewest
for which a claim wins one and loses the other; with two attempts a delivery can
fail, be retried and fail for good.  Fairness: a started call, claim or
cancellation goes on unless its replica dies, and time passes.  That anybody calls
`retryPendingDeliveries` is not assumed, since the repository does not: there is no
liveness property of retries, and only `PeriodicSpec`, the contract of
`dispatcher.ts:139` ("Call this on a periodic schedule") with which webhook_crash
is run, has it called again and again.  The system may stop when all is delivered,
so deadlock is not checked.

The abstract specification.  `AbstractDelivery` is what subscribers and the table
show of each delivery: one call at a time works on one that is not settled and
sends at most one request; success needs a request that was sent, a delivery is
put back only if another request is allowed, and settled is for good.  A call may
be lost, and a delivery may be cancelled under it and be brought back by it.
`ImplementsDelivery` maps `open` and `sent` to the calls of `deliverOnce` before and
after their request; it implies `SettledIsFinal`.

What the conditions say.  `CancelledStays` speaks of deliveries no call works
on: a call that was in flight when the subscription was deactivated writes its
outcome over "cancelled", so that a cancelled delivery may be pending again.
`LostIsNotSent` speaks of deliveries whose payload no call holds: an event that
goes between its lookup (line 237) and the request is still sent.  Nor does it say
that the row comes to rest: `deliverOnce` returns without an update when the event
is gone (line 238), and the row is claimed again after each lease, as often as
`retryPendingDeliveries` is called.  A write of the outcome that was committed but
whose answer was lost is not modelled (the catch at lines 338-358 would then
schedule a retry of a settled delivery); a failing write is one that was not made.

Proved (`WebhookDispatcherProofs`), for any number of deliveries, replicas,
calls, faults and changes and any lease, back-off and MAX_ATTEMPTS:

* `TypeCorrect` (`TypeInv`), timely or not.
* `DeliveryIsExclusive`, `RequestsBounded` and `SettledForGood`, while calls are
  timely.  The inductive invariant `DispatchInv` holds the exclusion together
  with what it needs: what a row says while a call works on it and while none
  does (`RowInv`), what each call may assume of its row at each await
  (`TaskInv`), and what a claim between its two statements still knows of the
  rows it has found (`ClaimInv`).  Exclusion and the lease depend on each other:
  a call keeps its row because the lease has not ended, and the lease is renewed
  only by a claim, which excludes the call.
* `DispatcherImplementsDelivery` (`Spec => ImplementsDelivery`), while calls are
  timely. `AbstractSteps` reads the abstract steps in the state of the
  dispatcher; under `DispatchInv` every step is, for each delivery, one of them:
  a claim begins all the deliveries it takes, a crash abandons those of its
  replica, and only the owner's call sends, puts back or settles
  (`CallImplements`).
* `CancelledForGood` and `LostNotSent`, timely or not, from `OrderInv`.
* `StrandedOnlyByFaults` (`Spec => StrandedOnlyAfterMark`), while calls are timely,
  from `DispatchInv`.

## LeaderElection

State.  The Redis key (`holder`, `ttl`), and per instance its phase, `_isLeader`,
the last callback (`told`) and its two timers; `call` holds the Redis calls in
flight, with a step for the server's execution and one for the reply.  A tick
that passes while a call is in flight or a timer is due is a stall, counted by
`stalls`; `stalls = 0` therefore says that so far calls and timers were short
against a tick.  `vacant` counts the ticks without a leader.

| Run | Bounds | Shows |
|---|---|---|
| leader_lease | 2 instances, 2 calls, 2 stalls, 1 error, 1 departure | `ImplementsLease`, `LeaseEndsByOwner`, `LossReportedUnlessStalled`, `FailoverBounded` (lease + one poll); `LeaderAgain`: there is a leader again and again, stalls or not |

LEASE = 2, RENEW = 1, POLL = 2 keep the order of the defaults (10 s, 4 s, 5 s) as
far as it matters: a renewal comes before the lease ends, a poll not before a
renewal.  Two stalls are enough to let a lease expire unnoticed.  Fairness:
instances are started, timers fire, Redis answers, time passes.

The abstract specification.  `AbstractLease` is what the program that runs only on
the leader relies on: a lease is granted to one instance at a time, only its
holder leads, and it is freed only when nobody leads by it; after something was
late it promises nothing.  `ImplementsLease` maps its `leaders` to the instances
that run with `_isLeader` set and `late` to `stalls > 0`.  It implies
`OneLeaderUnlessStalled`.

Proved (`LeaderElectionProofs`), for any number of instances and any RENEW <
LEASE: `TypeCorrect`; `OneLeader` (`Spec => []OneLeaderUnlessStalled`);
`LeaseSafe` (the action property `LeaseEndsByOwner`); `LossReported`.  The
inductive invariant `PromptInv` is `LeaderInv` until the first stall: a leader
holds the key and the key outlives its renewal timer unless a renewal is in
flight (`LeaderHolds`), a won election and an executed renewal are backed by the
full lease (`WonHolds`, `RenewedHolds`), and `releaseLock` deletes only what it
has read (`ReleaseOwn`).  `FailoverInTime` (`FailoverBounded`): until the first
stall, while time without a leader is counted a running instance is to follow
(`Followed`): it leads, has won an election it does not know of yet, waits for a
lease that ends in time, or polls a free key in time.  It rests on `TellInv`
(only a leader prolongs a lease) and on `StopsQuiet` (an instance that stops has
one call of `releaseLock` under way).  `ElectionImplementsLease` (`Spec =>
ImplementsLease`): under `LeaderInv` before and after it, a step that keeps the
holder is `Lead`, `StepDown` or a stutter, and the holder changes only by `Set`
on a free key or to nobody while nobody leads (`LeaseStep`).

The condition is needed.  After a stall longer than the lease `_isLeader` of the
old leader is still set while another instance leads.  And the loss of a stolen
lease is not reported: `renewLock` clears `_isLeader` before the timer of
`start` tests it, so that `onLoseLeadership` is not called.  A failover takes up
to the rest of the lease and one poll, not one poll alone.


## IndexerDaemon

State.  The latest closed ledger (`tip`), the number of rows each event has
(`rows`), the cursor in the table daemon_state (`saved`), and the process: where
it is (`pc`), `_cursor`, the page that is being inserted (`next`, `end`,
`latest`) and the signal.  `origin`, `dirty`, `cuts` and `dropped` observe: where
the table begins, whether the current round is unfinished, which ledgers a process
left half inserted, and which events a full page left out.

Actions.  `Resume` is the start of `run()`; `FetchRefused`, `FetchPage`,
`InsertEvent` and `EndRound` are `indexLedger`.  A round has one page: the loop of
`indexLedger` goes on with `res.cursor` (`index.js:200`), which `getEvents` of the
pinned stellar-sdk 12.3 does not return, so that a full page ends the round like
any other and `EndRound` moves the cursor past what it left out (`Rest`).
`SaveCursor`, `FailRound`, `NextRound` and `Exit` are the loop around it; `Signal`
and `Crash` end a process within a round or between two.  `CloseLedger` is the
network.

| Run | Bounds | Shows |
|---|---|---|
| daemon_loop | 5 ledgers, one of them empty, pages of 2 that end within a ledger, 2 failures, 3 stops | `MissedOnlyAtCut`, `RepeatedOnlyByRetry`; `Indexed`: in the end all is there but the cuts and what full pages dropped |

A stop within a ledger, one between two ledgers and one after a failed round can
all happen in one behaviour, and the third process still starts over what two
others left.  Fairness: ledgers close, a stopped daemon is started again, the
loop goes on.

Proved (`IndexerDaemonProofs`), for any ledgers, pages, failures and stops:
`TypeCorrect`; `NothingMissedButCuts` (`MissedOnlyAtCut`), `TableHasNoHoles`
(`NoHoles`) and `RestartKeepsRows` (`RestartsBehind`), from `DaemonInv`;
`RepeatsCounted` (`RepeatedOnlyByRetry`), from `RepeatInv`.  `DaemonInv` says where
the page that is being inserted stands (`Writing`), that between two rounds nothing
is stored ahead of the cursor (`Clean`), and that the highest ledger a stopped
daemon has rows of is settled (`Closed`), so that the restart may go on behind it.

What the conditions say of the code.  `index.js:199` means to "follow the
cursor" of a full page and cannot: the rest of the round is `dropped`.
`index.js:235` resumes "from the highest indexed ledger so no events are
missed", but `getMaxLedger() + 1` goes on behind a ledger of which only some
events were inserted: these are the `cuts`.  The cursor that `saveCursor` writes
is never read back.  The INSERT of an event names no conflict target and its
table has no unique key, so that a round that is run again repeats the rows of
its first attempt.

## RequestGate

State.  Whether Redis is there (`up`), the shared connection (`conn`), where each
request is (`pc`, `waiting`), which requests hold a unit (`units`) and what INCR
told them (`seen`), the counter with its TTL (`count`, `ttl`) and the fallback
`bucket` of the process.  What CL.THROTTLE answers from the bucket in Redis is a
choice.  `leaked`, `lost` and `debt` observe: units that
nobody gives back, units in flight when the counter expired, and the tokens taken
in a window.

Actions.  A request goes through the connection (`StartConnect`, `Connected`,
`ErrorEvent`, `NoClient`, `PassThrough`), is counted (`Incr`, `Decide`, `Expire`,
`Reject`), takes a token (`clThrottle`, `UseFallback`, `ThrottleFails`), is handled
and counted out (`Handle`, `Finish`, `Decr`); `Abort` is a client that hangs up
before its response and `Leak` the unit it leaves; each Redis command has a failing
variant.  `Tick` is the time of the TTL and of the buckets.  Redis may go away and
come back with its keys (`GoesAway`, `ComesBack`); while it is away a command fails
or waits, and the `connect()` of node-redis, which retries for ever, neither
resolves nor rejects: the request that awaits it hangs.  `NoClient` is the null that
`getRedisClient` answers while another request is connecting: the limiter then lets
a request pass uncounted, the bucket falls back, and the listener of 'finish' drops
its DECR without an error (`DecrSkipped`).

| Run | Bounds | Shows |
|---|---|---|
| gate_chain | 2 requests, limit 1, TTL 2, burst 1, 2 ticks for a token, 1 hang-up, 1 outage or error | `Bounded`, `NoSpuriousRefusal`, `FallbackBounded`; `LeakGoesWhenQuiet`: a leaked unit goes if no request comes and no command fails; `Answered`: while Redis is there every request ends |

A request may come again, so that two of them are enough for every order of a
refused, an abandoned and a served request; a TTL of 2 can run out under a
request in flight.  Errors that come with an outage do not count against the bound,
so that one outage is enough for any number of them.  Fairness: time passes, and
what a request waits for is answered if Redis is there; nothing makes Redis come
back.

Proved (`RequestGateProofs`), for any number of requests, limit, TTL and rate:
`TypeCorrect`; `LimitHolds` (`Bounded`) and `RefusalsCaused` (`NoSpuriousRefusal`)
from `CountInv`, which balances the counter against the
units in flight, leaked and lost; `FallbackHolds` (`FallbackBounded`) from
`BucketInv`.

What the conditions say of the code.  A leaked unit ends with the counter, and
the counter expires only when no request comes for a whole TTL, because every
INCR, a refused request's too, is followed by an EXPIRE.  `LeakGoesWhenQuiet`
therefore ends at any request that is counted: under steady traffic a leak
stays, although `constants.js:65-68` and `concurrentLimiter.js:26-27` present
the TTL as the guard against permanent leaks.  `Answered` says nothing of the
time Redis is away, when a request that connects hangs, although
`concurrentLimiter.js:28` says that the middleware passes through if Redis is
unavailable.  A counter that expires under requests in flight goes below zero by
their DECRs and then has no TTL.

## FeedDelivery

State.  One FeedSubscription row (`sub`: status, batch size, webhook or another
type), and per message its `stage` and the row that `deliverMessage` has read for
it (`seen`).  `queue` and `timer` are the entries of `deliveryQueues` and
`batchTimers`; the timer keeps the row its callback has closed over.  `posts` are
the calls of `deliverWebhook` in flight, with who waits for them: the promise of
`distributeMessage`, or nobody (the timer's callback).  `sends`, `wait` and
`unhandled` observe.

Actions.  `Emit`, `Distribute`, `GetSubscription`, `DeliverMessage` are a message
on its way through two database reads; `DeliverMessage` includes the whole of
`addToBatch` and `deliverBatch`, which run without an await up to the request.
`TimerFires` is the callback.  `Answered` and `UpdateDeliveryStats` follow
`deliverWebhook` through its try and catch, and through the catches of its
callers; what nobody catches shuts the process down.  `Resize`, `PauseOrResume`
and `Delete` are the owner's requests, `Shutdown` and `Exit` the process.

| Run | Bounds | Shows |
|---|---|---|
| feed_delivery | 3 messages, batches of 3, sizes 1 and 2 after a change, timer of 1 tick, 1 change, 1 database failure | `ImplementsBatches`; `EventuallySettled` |

The abstract specification.  `AbstractBatches` is what the publisher and the
subscriber may rely on: a message that comes is dropped, sent alone or put at the
end of a line; the line is sent from its front; a batch that a message completes is
full, one that the timer sends may be shorter; a message waits only in a line too
short for a request; the messages of a request are settled together; and the line
is lost only by a shutdown, once.  `Batches` maps the stages before
`deliverMessage` has decided to one (`Fate`), and the requests to the calls of
`deliverWebhook` without an answer; database reads, statistics and the owner's
changes are steps it does not see.

Three messages with a batch size of three reach a full batch, a batch the timer
sends and, after a change to two, a batch that is taken in part.  Fairness:
database calls and requests are answered (requests have a timeout), time passes
and timers fire; nobody has to publish or to change anything.  Nothing has to
happen when all is delivered, so deadlock is not checked.

Proved (`FeedDeliveryProofs`), for every number of messages, batch size, length
of the timer, changes and failures:

* `TypeCorrect`, and `AtMostOnce` (`Spec => []SentOnce`).  The inductive
  invariant `PlaceInv`: a message is in the queue at most once, what is in the
  queue is not out, and it counts as sent exactly when it is out.  It rests on
  `HalvesDisjoint`: the part of a queue that `splice` takes and the part it
  leaves share no message.
* `FeedImplementsBatches` (`Spec => ImplementsBatches`).  Beside `PlaceInv` it needs
  `PostInv`: two requests share no message, and the messages of a request without
  an answer are where its sending has put them.  There is one lemma per step that
  is seen (`MessageImplements`, `TimerImplements`, `AnswerImplements`,
  `StopImplements`), and `BatchImplements` for `deliverBatch`, which two of them
  share.
* `Guarded` (`Spec => []TimerGuardsQueue`: while the batch size is unchanged, a
  queue that is not empty has a timer).  `GuardInv`: until the size changes, every
  copy of the row that a call or the timer holds has the same size, and the queue
  is never full between two steps.
* `WaitsBounded` (`Spec => []WaitBounded`).  `WaitInv`: the message at position i
  has waited, with what is left of the timer, for at most one period for itself
  and one for every message behind it.

What the conditions say of the code.  `TimerGuardsQueue` and `EventuallySettled`
except changes of the batch size: after it was lowered, a full batch takes only
`batchSize` messages and clears the timer, and the rest waits until another
message comes.  The comment at `deliveryService.ts:83` says of the wait "max 5
seconds", one period; since each message that joins a batch restarts the timer,
what the code keeps is `WaitBounded`, a period for each later message.  It is
proved and no run checks it.  When the statistics of a batch that
the timer sent cannot be written (the subscription is deleted, or the database
fails), nobody catches the rejection (`deliveryService.ts:85`) and the process
stops.

## FeedStream

State.  The process (`proc`), the publisher's `counter` and what `initialize` has
read (`lastRead`), the messages (`published`, and for each its `stage`, its stored
number `seq` and the number it is sent under, `label`), the FeedMessage `rows`; one
client that comes back: `connected`, where its `replay` stands and its `batch`,
`from`, `last` and `first` number, and what it `got`.  `early`, `overlapped` and
`cut` observe: messages published before `initialize` was done, messages whose
sending overlapped another publish, and replays that were not complete.  One
process publishes: the counters of two that share the table would give out the
same numbers.

Actions.  `Start`, `ReadLast`, `Initialize`, `InitializeFails` and `Stop` are the
life of the process; `Publish`, `Commit`, `CreateFails`, `Emit`, `Broadcast` and
`DistributeFails` the way of a message from the indexer to the sockets; `Connect`,
`Disconnect`, `ReplayRead`, `ReplaySend` and `ReplayFails` the client.  `publish`
writes to the primary database and a replay reads its replica
(`websocketServer.ts:210`, `db.ts:14`), which may lag behind: `ReplayRead` takes
its page from any subset of the rows (`shown`, `Missed`), and `cut` is set when the
replica lacks one whose broadcast is over (`Unseen`), which nothing will bring to
the client any more.

| Run | Bounds | Shows |
|---|---|---|
| feed_stream | 3 messages, pages of 1, 1 fault, 1 stop, 2 lost connections | `NumbersUnique`, `ResumesComplete`; `Received`: under the same conditions the client gets what is stored |

Three messages are the fewest for a replay of one that is overtaken by another
while a third is published; a page of 1 reaches the truncation that the code has
at 100 rows.  Fairness: the server goes on, the client reconnects, a published
message is delivered.  The indexer may stop publishing, so deadlock is not
checked.

Proved (`FeedStreamProofs`), for any number of messages, page, faults, stops and
lost connections: `TypeCorrect`; `NumbersAreUnique` (`NumbersUnique`);
`LabelsAhead` (`LabelsRunAhead`: a message is never sent under a lower number than
it is stored with, and under another one only if publishes overlapped);
`ResumeLosesNothing` (`ResumesComplete`).  They follow from `StreamInv`: which calls
are in flight (`Calls`), how the numbers handed out relate to the counter and the
rows (`Numbers`), the labels (`Labels`), and what a client has or is about to get at
each point of its replay (`Resuming`).

What the conditions say of the code.  Publishes that overlap are sent under the
same number, because the counter is read again after the insert.  Messages the
indexer publishes before `initialize` has read the highest number start again at
1.  A replay ends after 100 rows without a sign to the client, and what a replica
that lags behind does not show yet is lost to it: the next live message takes the
client's number past it.  A live message
that arrives before the replay moves the client's last number past what it has
not seen.  A distribution that fails hides its message from every socket.

## EventBroadcaster

State.  `state` and remote address of each connection, `clients`, `connsByIp`,
`isAlive`, whether a ping is unanswered, whether the peer still answers, and
`wss` (null after the shutdown).  `Upgrade` starts `authenticate`; the
continuation tests the limits and registers the client in one step (`Reject`,
`LimitReached`, `Accept`, `SocketEnded`).  `OnClose`, `OnError`, `Heartbeat` and
`Shutdown` all remove clients; `terminate` and `error` are followed by a close
event.  `Hang` is an authentication that ends after the shutdown: `wss!` is null
in the continuation and in its catch, so the socket is not answered and the
rejection forces the exit of the graceful shutdown.

In the program this endpoint never gets a client.  `feed/websocketServer.ts:22`
attaches a second ws server, with another path, to the same HTTP server; its
listener answers 400 to every upgrade of `/ws/events` and ends the socket before
`authenticate` has resolved.  `FeedAttached` says which of the two is looked at.
With TRUE only `SocketEnded` follows an `Upgrade` and the properties hold for want
of clients; the run has FALSE, the broadcaster on a server of its own, as its tests
start it.  The proofs are for both.

| Run | Bounds | Shows |
|---|---|---|
| ws_clients | 3 connections, 3 addresses, limits 2 and 1, no feed server | `WithinLimits` (for the sockets that are open, not only the counted ones), `OnlySilentReaped`; `ZombiesLeave` while the server runs |

Each connection has any of the three addresses, so that a second one from the
same address meets the limit per address and a third from another address the
global one, and a place may be free again before the last request is decided.
Fairness: authentications answer, the heartbeat timer fires, responsive peers
answer pings within an interval, closing sockets close.  After the shutdown
nothing happens, so deadlock is not checked.

Proved (`EventBroadcasterProofs`), for any number of connections and addresses
and any limits: `TypeCorrect`, `CountsCorrect` (`CountsAgree`: `connsByIp`
counts the clients of each address), `LimitsKept` (`WithinLimits`) and
`ResponsiveKept` (`OnlySilentReaped`).  The inductive invariant `CountInv` adds
to the counts that every open socket is a client, so that removing a client
always goes with the end of its socket; `BeatInv` adds that an open client of a
responsive peer which has not been heard of since the last heartbeat has a ping
unanswered, so that its pong comes before the next heartbeat.

Seen while modelling: `WS_IDLE_TIMEOUT_MS`, which the header of
`eventBroadcaster.ts` (line 11) names as a feature, is not used by it.

## Archiver

State.  Per transaction row its `rawXdr` and its S3 `object`, the rows that are
still too `young`, and per process the `run` of `archiveRawXdr` with its batch,
cursor and counts.

Actions.  `Store` is the indexer, `Age` the time; `Begin`, `FindBatch`, `Upload`,
`UploadFails`, `Nullify` and `ReturnResult` are the run; `Abandon` is a run that a
rejected query or the end of its process cuts off.  The uploads of a batch run in
parallel and finish in any order.

| Run | Bounds | Shows |
|---|---|---|
| archive_run | 4 rows, batches of 2, 1 row without an envelope, 1 that ages later, 2 processes, 1 fault | `XdrKept`: an envelope is never in neither place; `FewLeftBehind`; `AllArchived` |

Four rows in batches of two give a run with a later batch, where the cursor
matters; two processes reach every overlap of two runs on the same rows.
Fairness: rows age, runs begin again, and a run goes on.

Proved (last section of `LedgerIndexerProofs`, which extends `Archiver` too: the
rows are the transactions the indexer stores), for any rows, batch size,
number of overlapping runs and faults: `EnvelopesKept` (`XdrKept`) and `FewAreLeft`
(`FewLeftBehind`).  `EnvelopeInv` says that a row collected for `updateMany` has its
object, in every run, whatever the others empty meanwhile, and that between two
batches nothing is under way.  `LeftInv` bounds the rows that were due when the run
began, lie behind its cursor and are not in its batch by the failures it has
counted and one for each batch after the first; it needs to know what `take` returns
(`FirstOfIds`: no row of a batch has a smaller one left out) and that with `skip: 1`
at most one row is dropped (`OneMore`).

What the conditions say of the code.  `FewLeftBehind` allows one row per later
batch: the cursor's row has just been emptied and no longer matches the query, so
that `skip: 1` drops a row that is still to be archived.  The next day's run gets
it.

## Only model-checked

* Liveness (`Converges`, `EventuallySettled`, `LeaderAgain`, `Received`, `Indexed`,
  `ZombiesLeave`, `LeakGoesWhenQuiet`, `Answered`, `AllArchived`): TLAPS does not
  reason about fairness.
* `AdjacentLinked`, `HolesAreRecorded` and `AuthsBacked` with more than one worker,
  where they need not hold, and `ResolvedGapsStored` with reorgs.

Proved without a run of their own: the type invariants, `CursorNeverRetreats`,
`TimerGuardsQueue`, `OneLeaderUnlessStalled`, `SettledIsFinal`,
`SentOnce`, `WaitBounded`, `LabelsRunAhead`, `CountsAgree`, `NoHoles` and
`RestartsBehind`.

## Known hazards without a property

* `dispatcher.ts:118`: a process that dies between reading the subscriptions and
  creating the delivery row loses the delivery.  Nothing records that it was due,
  so there is no state a property could speak of.
* `deliveryService.ts:85`: the unhandled rejection described under FeedDelivery.
* `deliveryService.ts:73`: a batch waits longer than its comment says; `WaitBounded`
  is proved instead.
* `feed/websocketServer.ts:22`: the upgrades of `/ws/events` described under
  EventBroadcaster.
* `eventBroadcaster.ts:212`: an authentication that ends after the shutdown leaves
  its request unanswered (`Hang`).

## What is left

Abstract specifications of the indexer daemon (a table that is only appended to, in
the order of the ledgers) and of the feed stream (a reader that sees every message
once), with the components shown to implement them; an action theorem for
`Archiver` (an object, once written, keeps its envelope).

## Not modelled

`PROJECT.json` gives the reason for each component.  They are of four kinds.

* Code without behaviour of its own: read-only endpoints, decoders, scores,
  analytics and code generators compute an answer from the tables and keep
  nothing.  They are by far the largest part of the repository, so that the
  modelled part is a small share of its lines, though it is most of the code in
  which the order of steps matters.
* Code nothing reaches: the error queue, the build queue, the bridge tracker, the
  settlement compactor, the Kafka bus and several modules of the daemon are
  imported by nothing or never fed; the repair tool imports a file that is not in
  the repository.
* Code whose effect is within an action of a module: the RPC client and its
  retries (a call answers or fails; that it may answer with one page only is in
  `FetchEvents` and `FetchPage`), the websocket connection to the RPC node (a
  notice comes at any time or never), start-up and shutdown.
* Code whose steps touch one row or one counter at a time: authentication, API
  keys, the backend's rate limits, the response cache, retention.
