----------------------------- MODULE RequestGate -----------------------------
(***************************************************************************)
(* The rate limiting chain of the daemon's API, for the requests of one    *)
(* client: src/indexer/src/rateLimit/concurrentLimiter.js, which counts    *)
(* the requests in flight with INCR and DECR on a Redis key that expires,  *)
(* and tokenBucket.js, which takes a token from a bucket kept in Redis     *)
(* (CL.THROTTLE) or, when Redis fails, from one in the process.  api.js    *)
(* mounts them in this order.                                              *)
(*                                                                         *)
(* Redis may be away for a while: a request that connects then waits until *)
(* it is back, since node-redis retries connect() for ever, and a command  *)
(* on a client that is already known fails or waits in its queue.          *)
(*                                                                         *)
(* Data: Redis keeps its keys while it is away; an INCR or DECR is one     *)
(* step, what CL.THROTTLE answers is a choice; time is a tick, and a token *)
(* of the fallback takes RATE ticks (refillRateMs) to come back.  The      *)
(* middleware and handlers behind the bucket are one step that ends the    *)
(* response.                                                               *)
(***************************************************************************)
EXTENDS Integers, FiniteSets

CONSTANTS
    Requests,       \* bound: how many requests may be in flight
    LIMIT,          \* getConcLimit: concurrent requests of the client's tier
    TTL,            \* TTL_CONC_SAFETY, in ticks
    BURST,          \* burst of the client's tier
    RATE,           \* 60_000 / rpm: ticks per token
    MaxAborts,      \* bound: connections that die before their response is sent
    MaxErrors       \* bound: outages of Redis; connections and commands that fail without one

ASSUME GateAssumption ==
    /\ IsFiniteSet(Requests)
    /\ LIMIT \in Nat \ {0} /\ TTL \in Nat \ {0} /\ BURST \in Nat \ {0} /\ RATE \in Nat \ {0}
    /\ MaxAborts \in Nat /\ MaxErrors \in Nat

\* The TTL of a key that never expires, and of a key that is not there.
NoTTL == -1
NoKey == -2

NoBucket == [tokens |-> 0, elapsed |-> -1]

VARIABLES
    up,             \* Redis is there
    conn,           \* the shared client: _redis and _redisConnecting
    pc,             \* where each request is
    waiting,        \* the requests that await client.connect()
    units,          \* the requests whose INCR was answered and not yet undone
    seen,           \* the value INCR returned to each request, until it is tested
    count,          \* Redis: the counter conc:{clientId}, 0 when there is no key
    ttl,            \* Redis: ticks until the counter expires, NoTTL or NoKey
    bucket,         \* _fallbackBuckets: tokens, and ticks since lastRefill
    \* Observations, for the properties.
    leaked,         \* units of the present counter that nobody will give back
    lost,           \* units in flight that expired with their counter
    debt,           \* tokens taken from the fallback, in ticks, less the time passed
    \* What was spent of the bounds.
    aborts, errors

redis == <<count, ttl>>
observed == <<leaked, lost, debt>>
budget == <<aborts, errors>>
vars == <<up, conn, pc, waiting, units, seen, redis, bucket, observed, budget>>

Init ==
    /\ up = TRUE /\ conn = "none"
    /\ pc = [r \in Requests |-> "idle"]
    /\ waiting = {}
    /\ units = {}
    /\ seen = [r \in Requests |-> 0]
    /\ count = 0 /\ ttl = NoKey
    /\ bucket = NoBucket
    /\ leaked = 0 /\ lost = 0 /\ debt = 0
    /\ aborts = 0 /\ errors = 0

Goto(r, l) == pc' = [pc EXCEPT ![r] = l]

\* A request reaches the chain.
Arrive(r) ==
    /\ pc[r] = "idle"
    /\ Goto(r, "limiter")
    /\ UNCHANGED <<up, conn, waiting, units, seen, redis, bucket, observed, budget>>

----------------------------------------------------------------------------
(* Redis. *)

GoesAway ==
    /\ up /\ errors < MaxErrors
    /\ up' = FALSE
    /\ errors' = errors + 1
    /\ UNCHANGED <<conn, pc, waiting, units, seen, redis, bucket, observed, aborts>>

ComesBack ==
    /\ ~up
    /\ up' = TRUE
    /\ UNCHANGED <<conn, pc, waiting, units, seen, redis, bucket, observed, budget>>

\* A connection or a command fails: at will while Redis is away, within the bound while
\* it is there.
Failure ==
    \/ ~up /\ errors' = errors
    \/ up /\ errors < MaxErrors /\ errors' = errors + 1

\* A command that fails may have been performed, if Redis is there.
Performed == IF up THEN {0, 1} ELSE {0}

----------------------------------------------------------------------------
(* getRedisClient. *)

\* The places at which a request asks for the client.
Asking == {"limiter", "bucket", "decr"}

Asks(r, l) == pc[r] = l /\ r \notin waiting

\* No client and nobody connecting: this request connects.
StartConnect(r) ==
    /\ pc[r] \in Asking /\ r \notin waiting /\ conn = "none"
    /\ conn' = "connecting"
    /\ waiting' = waiting \cup {r}
    /\ UNCHANGED <<up, pc, units, seen, redis, bucket, observed, budget>>

\* Mutant: the handler of 'error' gives up the client that is connecting as well, and the
\* connect() that a request awaits never settles.
ConnectedOnce(r) ==
    /\ r \in waiting /\ up /\ conn = "connecting"
    /\ conn' = "ready"
    /\ waiting' = waiting \ {r}
    /\ UNCHANGED <<up, pc, units, seen, redis, bucket, observed, budget>>

\* client.connect() resolves, which it does only when Redis is there; the request goes
\* on with the client.
Connected(r) ==
    /\ r \in waiting /\ up
    /\ conn' = "ready"
    /\ waiting' = waiting \ {r}
    /\ UNCHANGED <<up, pc, units, seen, redis, bucket, observed, budget>>

\* The handler of 'error': the client is forgotten, and nobody connects any more although
\* the connect() that failed once goes on trying. While Redis is away every try fails.
ErrorEvent ==
    /\ conn # "none"
    /\ Failure
    /\ conn' = "none"
    /\ UNCHANGED <<up, pc, waiting, units, seen, redis, bucket, observed, aborts>>

\* getRedisClient answers null at once: another request is connecting.
NoClient(r) == r \notin waiting /\ conn = "connecting"

----------------------------------------------------------------------------
(* concurrentRequestLimiter. *)

\* No client: the request passes uncounted.
PassThrough(r) ==
    /\ pc[r] = "limiter"
    /\ NoClient(r)
    /\ Goto(r, "bucket")
    /\ UNCHANGED <<up, conn, waiting, units, seen, redis, bucket, observed, budget>>

\* INCR and DECR create the key, without a TTL, if it is not there.
Touched == IF ttl = NoKey THEN NoTTL ELSE ttl

\* INCR: increment and read.
Incr(r) ==
    /\ Asks(r, "limiter") /\ conn = "ready" /\ up
    /\ count' = count + 1
    /\ ttl' = Touched
    /\ seen' = [seen EXCEPT ![r] = count + 1]
    /\ units' = units \cup {r}
    /\ Goto(r, "expire")
    /\ UNCHANGED <<up, conn, waiting, bucket, observed, budget>>

\* INCR fails: fail open.
IncrFails(r) ==
    /\ Asks(r, "limiter") /\ conn = "ready" /\ Failure
    /\ \E done \in Performed :
          /\ count' = count + done
          /\ leaked' = leaked + done
          /\ ttl' = IF done = 1 THEN Touched ELSE ttl
    /\ Goto(r, "bucket")
    /\ UNCHANGED <<up, conn, waiting, units, seen, bucket, lost, debt, aborts>>

\* The test on the value INCR returned, made after EXPIRE.
Decide(r) ==
    /\ Goto(r, IF seen[r] > LIMIT THEN "reject" ELSE "bucket")
    /\ seen' = [seen EXCEPT ![r] = 0]

\* Mutant: the TTL is set only on an INCR that finds the key there.
ExpireExisting(r) ==
    /\ pc[r] = "expire" /\ up
    /\ ttl' = IF ttl = NoKey \/ seen[r] = 1 THEN ttl ELSE TTL
    /\ Decide(r)
    /\ UNCHANGED <<up, conn, waiting, units, count, bucket, observed, budget>>

\* EXPIRE starts the safety TTL again, unless the key has just expired.
Expire(r) ==
    /\ pc[r] = "expire" /\ up
    /\ ttl' = IF ttl = NoKey THEN NoKey ELSE TTL
    /\ Decide(r)
    /\ UNCHANGED <<up, conn, waiting, units, count, bucket, observed, budget>>

\* EXPIRE fails: fail open. The INCR is never undone.
ExpireFails(r) ==
    /\ pc[r] = "expire" /\ Failure
    /\ \E done \in Performed : ttl' = IF done = 1 /\ ttl # NoKey THEN TTL ELSE ttl
    /\ units' = units \ {r}
    /\ leaked' = leaked + 1
    /\ seen' = [seen EXCEPT ![r] = 0]
    /\ Goto(r, "bucket")
    /\ UNCHANGED <<up, conn, waiting, count, bucket, lost, debt, aborts>>

\* DECR on behalf of r, which is done.
Decrement(r) ==
    /\ count' = count - 1
    /\ ttl' = Touched
    /\ units' = units \ {r}
    /\ Goto(r, "idle")

\* Mutant: a refused request is answered without the DECR.
RejectKeeps(r) ==
    /\ pc[r] = "reject" /\ up
    /\ units' = units \ {r}
    /\ Goto(r, "idle")
    /\ UNCHANGED <<up, conn, waiting, seen, redis, bucket, observed, budget>>

\* Mutant: the 'finish' listener is registered before the test, and answers the 503 too.
RejectThenFinish(r) ==
    /\ pc[r] = "reject" /\ up
    /\ count' = count - 1
    /\ ttl' = Touched
    /\ Goto(r, "respond")
    /\ UNCHANGED <<up, conn, waiting, units, seen, bucket, observed, budget>>

\* Too many: DECR, then 503.
Reject(r) ==
    /\ pc[r] = "reject" /\ up
    /\ Decrement(r)
    /\ UNCHANGED <<up, conn, waiting, seen, bucket, observed, budget>>

\* The response is sent, the DECR is not done: its unit stays in the counter.
Leak(r) ==
    /\ leaked' = leaked + (IF r \in units THEN 1 ELSE 0)
    /\ units' = units \ {r}
    /\ Goto(r, "idle")

\* The DECR of a refused request fails; it is answered 503 all the same.
RejectFails(r) ==
    /\ pc[r] = "reject" /\ Failure
    /\ Leak(r)
    /\ UNCHANGED <<up, conn, waiting, seen, redis, bucket, lost, debt, aborts>>

----------------------------------------------------------------------------
(* tokenBucketMiddleware. *)

\* next(), or 429.
Admit(r, allowed) == Goto(r, IF allowed THEN "work" ELSE "respond")

\* CL.THROTTLE: the bucket that Redis keeps answers as it likes.
clThrottle(r) ==
    /\ Asks(r, "bucket") /\ conn = "ready" /\ up
    /\ \E allowed \in BOOLEAN : Admit(r, allowed)
    /\ UNCHANGED <<up, conn, waiting, units, seen, redis, bucket, observed, budget>>

\* Mutant: lastRefill is left where it was, so the same time refills again.
RefilledForgetful ==
    LET b == IF bucket = NoBucket THEN [tokens |-> BURST, elapsed |-> 0] ELSE bucket
        tokensToAdd == b.elapsed \div RATE
    IN  [tokens |-> IF b.tokens + tokensToAdd > BURST THEN BURST ELSE b.tokens + tokensToAdd,
         elapsed |-> b.elapsed]

\* The bucket of fallbackConsume after its refill: whole tokens, and lastRefill
\* moved by what they took.
Refilled ==
    LET b == IF bucket = NoBucket THEN [tokens |-> BURST, elapsed |-> 0] ELSE bucket
        tokensToAdd == b.elapsed \div RATE
    IN  [tokens |-> IF b.tokens + tokensToAdd > BURST THEN BURST ELSE b.tokens + tokensToAdd,
         elapsed |-> b.elapsed - tokensToAdd * RATE]

fallbackConsume(r) ==
    LET allowed == Refilled.tokens >= 1
    IN  /\ bucket' = IF allowed THEN [Refilled EXCEPT !.tokens = @ - 1] ELSE Refilled
        /\ debt' = IF allowed THEN debt + RATE ELSE debt
        /\ Admit(r, allowed)

\* No client: the bucket of the process.
UseFallback(r) ==
    /\ pc[r] = "bucket"
    /\ NoClient(r)
    /\ fallbackConsume(r)
    /\ UNCHANGED <<up, conn, waiting, units, seen, redis, leaked, lost, budget>>

\* CL.THROTTLE fails: the bucket of the process.
ThrottleFails(r) ==
    /\ Asks(r, "bucket") /\ conn = "ready" /\ Failure
    /\ fallbackConsume(r)
    /\ UNCHANGED <<up, conn, waiting, units, seen, redis, leaked, lost, aborts>>

----------------------------------------------------------------------------
(* The response. *)

\* The rest of the chain and the handler.
Handle(r) ==
    /\ pc[r] = "work"
    /\ Goto(r, "respond")
    /\ UNCHANGED <<up, conn, waiting, units, seen, redis, bucket, observed, budget>>

\* 'finish' is emitted; its listener, if the limiter registered one, asks for a client.
Finish(r) ==
    /\ pc[r] = "respond"
    /\ Goto(r, IF r \in units THEN "decr" ELSE "idle")
    /\ UNCHANGED <<up, conn, waiting, units, seen, redis, bucket, observed, budget>>

\* The client has hung up: 'finish' is never emitted.
Abort(r) ==
    /\ pc[r] = "respond" /\ aborts < MaxAborts
    /\ aborts' = aborts + 1
    /\ Leak(r)
    /\ UNCHANGED <<up, conn, waiting, seen, redis, bucket, lost, debt, errors>>

Decr(r) ==
    /\ Asks(r, "decr") /\ conn = "ready" /\ up
    /\ Decrement(r)
    /\ UNCHANGED <<up, conn, waiting, seen, bucket, observed, budget>>

\* No client: the listener does nothing, and nobody tries again.
DecrSkipped(r) ==
    /\ pc[r] = "decr"
    /\ NoClient(r)
    /\ Leak(r)
    /\ UNCHANGED <<up, conn, waiting, seen, redis, bucket, lost, debt, budget>>

\* The DECR is rejected: ignored as well.
DecrFails(r) ==
    /\ Asks(r, "decr") /\ conn = "ready" /\ Failure
    /\ Leak(r)
    /\ UNCHANGED <<up, conn, waiting, seen, redis, bucket, lost, debt, aborts>>

----------------------------------------------------------------------------
(* Time. *)

Down(n) == IF n > 0 THEN n - 1 ELSE 0

\* Past BURST tokens only the remainder of the time since lastRefill matters.
Age(b) ==
    IF b = NoBucket THEN b
    ELSE [b EXCEPT !.elapsed = IF @ + 1 = (BURST + 1) * RATE THEN BURST * RATE ELSE @ + 1]

\* The counter expires with its leaked units, and with the units in flight.
Tick ==
    /\ \/ /\ ttl = 1
          /\ ttl' = NoKey /\ count' = 0
          /\ leaked' = 0 /\ lost' = Cardinality(units)
       \/ /\ ttl # 1
          /\ ttl' = IF ttl > 1 THEN ttl - 1 ELSE ttl
          /\ UNCHANGED <<count, leaked, lost>>
    /\ bucket' = Age(bucket)
    /\ debt' = Down(debt)
    /\ UNCHANGED <<up, conn, pc, waiting, units, seen, budget>>

----------------------------------------------------------------------------
Progress(r) ==
    \/ StartConnect(r) \/ Connected(r)
    \/ PassThrough(r) \/ Incr(r) \/ Expire(r) \/ Reject(r)
    \/ clThrottle(r) \/ UseFallback(r)
    \/ Handle(r) \/ Finish(r) \/ Decr(r) \/ DecrSkipped(r)

Fault(r) ==
    \/ IncrFails(r) \/ ExpireFails(r) \/ RejectFails(r) \/ ThrottleFails(r)
    \/ Abort(r) \/ DecrFails(r)

Next ==
    \/ \E r \in Requests : Arrive(r) \/ Progress(r) \/ Fault(r)
    \/ ErrorEvent \/ GoesAway \/ ComesBack
    \/ Tick

\* Time passes, and what a request awaits of Redis is answered if Redis is there. Nothing
\* makes requests arrive, or Redis come back.
Fairness == WF_vars(Tick) /\ \A r \in Requests : WF_vars(Progress(r))

Spec == Init /\ [][Next]_vars /\ Fairness

----------------------------------------------------------------------------
(* Properties. *)

Pcs == {"idle", "limiter", "expire", "reject", "bucket", "work", "respond", "decr"}

\* The values every variable takes. The counter may well be negative.
TypeOK ==
    /\ up \in BOOLEAN /\ conn \in {"none", "connecting", "ready"}
    /\ pc \in [Requests -> Pcs]
    /\ waiting \subseteq {r \in Requests : pc[r] \in Asking}
    /\ units \subseteq Requests
    /\ seen \in [Requests -> Int]
    /\ count \in Int /\ ttl \in {NoTTL, NoKey} \cup 1..TTL
    /\ leaked \in Nat /\ lost \in Nat

\* The requests that were let in on a count within the limit.
Holders == {r \in units : pc[r] # "reject" /\ seen[r] <= LIMIT}

\* The requests that were counted and let in never exceed the limit by more than the
\* units in flight when the counter last expired: whatever fails, hangs up or is
\* refused, DECRs never run ahead of INCRs in any other way.
Bounded == Cardinality(Holders) <= LIMIT + lost

\* The counter holds no more than the requests in flight and the units that an abort or
\* a failure left behind since it last expired, so a 503 always has one of these causes.
NoSpuriousRefusal == count <= Cardinality(units) + leaked

\* A counter above the requests in flight comes down in the end, if no command fails and
\* no further request of the client is counted: each INCR, a refused one's too, starts
\* the TTL again.
LeakGoesWhenQuiet ==
    count > Cardinality(units) /\ errors = 0
        ~> \/ count <= Cardinality(units)
           \/ errors > 0 \/ \E r \in Requests : pc[r] = "expire"

\* The fallback bucket lets no window of t ticks have more than its BURST, the tokens
\* that come back in t ticks, and one more begun before it: `debt' is RATE times the
\* tokens taken in a window less its length, at its largest.
FallbackBounded == debt < (BURST + 1) * RATE

\* While Redis is there every request is answered and its unit is dealt with, those that
\* have been waiting in connect() since Redis was away included.
Answered == \A r \in Requests : up /\ pc[r] # "idle" ~> pc[r] = "idle" \/ ~up
=============================================================================
