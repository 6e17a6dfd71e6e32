-------------------------- MODULE RequestGateProofs --------------------------
(***************************************************************************)
(* For every limit, TTL, bucket and number of requests, aborts and errors: *)
(* the limit holds but for expired units, refusals have a cause, and the   *)
(* fallback bucket keeps its rate.                                         *)
(***************************************************************************)
EXTENDS RequestGate, FiniteSetTheorems, TLAPS

\* Where a request that has been counted is, and which requests have been.
UnitPcs ==
    /\ \A r \in units : pc[r] \in {"expire", "reject", "bucket", "work", "respond", "decr"}
    /\ \A r \in Requests : pc[r] \in {"expire", "reject", "decr"} => r \in units
    /\ \A r \in Requests : pc[r] # "expire" => seen[r] = 0

\* The counter lies between the requests in flight less the expired ones, and the
\* requests in flight plus the leaked ones; a key that is not there counts nothing.
CountInv ==
    /\ TypeOK
    /\ UnitPcs
    /\ ttl = NoKey => count = 0
    /\ Cardinality(units) <= count + lost
    /\ NoSpuriousRefusal
    /\ Bounded

\* Sets of requests are finite, and their parts are not larger.
LEMMA Sizes ==
    ASSUME NEW S \in SUBSET Requests, NEW T \in SUBSET S
    PROVE  /\ IsFiniteSet(S) /\ Cardinality(S) \in Nat
           /\ IsFiniteSet(T) /\ Cardinality(T) \in Nat
           /\ Cardinality(T) <= Cardinality(S)
<1>1. IsFiniteSet(S)
  BY FS_Subset, GateAssumption
<1>2. QED
  BY <1>1, FS_Subset, FS_CardinalityType

\* The units are a finite set, and the holders are some of them.
LEMMA UnitsFinite ==
    ASSUME TypeOK
    PROVE  /\ IsFiniteSet(units) /\ Cardinality(units) \in Nat
           /\ IsFiniteSet(Holders) /\ Cardinality(Holders) \in Nat
           /\ Cardinality(Holders) <= Cardinality(units)
<1>1. units \in SUBSET Requests /\ Holders \in SUBSET units
  BY DEF Holders, TypeOK
<1>2. QED
  BY <1>1, Sizes

\* Initially nothing is counted.
LEMMA CountInit == Init => CountInv
<1> SUFFICES ASSUME Init
             PROVE  CountInv
  OBVIOUS
<1>1. TypeOK /\ UnitPcs
  BY GateAssumption DEF Init, TypeOK, UnitPcs, Pcs, NoKey, NoTTL
<1>2. Cardinality(units) = 0 /\ units = {}
  BY FS_EmptySet DEF Init
<1>3. Holders = {}
  BY <1>2 DEF Holders
<1>4. Cardinality(Holders) = 0
  BY <1>3, FS_EmptySet
<1>5. NoSpuriousRefusal /\ Bounded
  BY <1>2, <1>4, GateAssumption DEF Init, NoSpuriousRefusal, Bounded
<1>6. QED
  BY <1>1, <1>2, <1>5 DEF CountInv, Init

\* A step that moves a request without touching the counter: its connections, buckets
\* and the rest of the chain.
Moved(r) ==
    /\ UNCHANGED <<units, seen, count, ttl, leaked, lost>>
    /\ pc' \in [Requests -> Pcs] /\ \A x \in Requests \ {r} : pc'[x] = pc[x]
    /\ pc[r] \notin {"expire", "reject"} /\ pc'[r] \notin {"expire", "reject"}
    /\ pc'[r] = "decr" => r \in units
    /\ r \in units => pc'[r] \in {"bucket", "work", "respond", "decr"}
    /\ waiting' \subseteq {x \in Requests : pc'[x] \in Asking}
    /\ up' \in BOOLEAN /\ conn' \in {"none", "connecting", "ready"}

LEMMA MovedKeeps ==
    ASSUME CountInv, NEW r \in Requests, Moved(r)
    PROVE  CountInv'
<1>1. TypeOK' /\ UnitPcs'
  BY DEF CountInv, Moved, TypeOK, UnitPcs, Pcs
<1>2. Holders' = Holders
  BY DEF Holders, Moved, CountInv, TypeOK
<1>4. NoSpuriousRefusal' /\ Bounded' /\ (ttl = NoKey => count = 0)' /\ (Cardinality(units) <= count + lost)'
  BY <1>2 DEF NoSpuriousRefusal, Bounded, Moved, CountInv
<1>5. QED
  BY <1>1, <1>4 DEF CountInv

\* Which steps only move a request.
LEMMA Moves ==
    ASSUME CountInv, NEW r \in Requests,
           \/ Arrive(r) \/ StartConnect(r) \/ Connected(r) \/ PassThrough(r)
           \/ clThrottle(r) \/ UseFallback(r) \/ ThrottleFails(r) \/ Handle(r) \/ Finish(r)
    PROVE  Moved(r)
<1> USE DEF CountInv, TypeOK, UnitPcs, Goto, redis, observed, budget, Pcs, Asking
<1>1. CASE Arrive(r)
  BY <1>1 DEF Arrive, Moved
<1>2. CASE StartConnect(r)
  BY <1>2 DEF StartConnect, Moved
<1>3. CASE Connected(r)
  BY <1>3 DEF Connected, Moved
<1>4. CASE PassThrough(r)
  BY <1>4 DEF PassThrough, NoClient, Moved
<1>5. CASE clThrottle(r)
  BY <1>5 DEF clThrottle, Admit, Asks, Moved
<1>6. CASE UseFallback(r)
  <2>1. pc' = [pc EXCEPT ![r] = "work"] \/ pc' = [pc EXCEPT ![r] = "respond"]
    BY <1>6 DEF UseFallback, fallbackConsume, Admit
  <2>2. QED
    BY <1>6, <2>1 DEF UseFallback, NoClient, Moved
<1>7. CASE ThrottleFails(r)
  <2>1. pc' = [pc EXCEPT ![r] = "work"] \/ pc' = [pc EXCEPT ![r] = "respond"]
    BY <1>7 DEF ThrottleFails, fallbackConsume, Admit
  <2>2. QED
    BY <1>7, <2>1 DEF ThrottleFails, Asks, Moved
<1>8. CASE Handle(r)
  BY <1>8 DEF Handle, Moved
<1>9. CASE Finish(r)
  BY <1>9 DEF Finish, Moved
<1>10. QED
  BY <1>1, <1>2, <1>3, <1>4, <1>5, <1>6, <1>7, <1>8, <1>9

\* INCR counts the request, and lets it in only if all units are within the limit.
LEMMA IncrKeeps ==
    ASSUME CountInv, NEW r \in Requests, Incr(r)
    PROVE  CountInv'
<1> USE DEF Incr, Asks, Goto, observed, budget
<1>1. r \notin units /\ units' = units \cup {r} /\ pc[r] = "limiter"
  BY DEF CountInv, UnitPcs
<1>2. Cardinality(units') = Cardinality(units) + 1 /\ Cardinality(units) \in Nat
  BY <1>1, UnitsFinite, FS_AddElement DEF CountInv
<1>3. TypeOK' /\ UnitPcs'
  BY <1>1 DEF CountInv, TypeOK, UnitPcs, Pcs, Asking, Touched, NoKey, NoTTL
<1>4. count' = count + 1 /\ count \in Int /\ lost' = lost /\ lost \in Nat /\ leaked' = leaked /\ leaked \in Nat
  BY DEF CountInv, TypeOK
<1>5. NoSpuriousRefusal' /\ (Cardinality(units) <= count + lost)'
  BY <1>2, <1>4 DEF CountInv, NoSpuriousRefusal
<1>6. (ttl = NoKey => count = 0)'
  BY DEF CountInv, TypeOK, Touched, NoKey, NoTTL
<1>7. Bounded'
  <2>1. Cardinality(Holders') <= Cardinality(units') /\ Cardinality(Holders') \in Nat
    <3>1. units' \in SUBSET Requests /\ Holders' \in SUBSET units'
      BY <1>3 DEF TypeOK, Holders
    <3>2. QED
      BY <3>1, Sizes
  <2>2. CASE count + 1 <= LIMIT
    BY <1>2, <1>4, <1>5, <2>1, <2>2, GateAssumption DEF Bounded
  <2>3. CASE count + 1 > LIMIT
    <3>1. Holders' = Holders
      BY <1>1, <1>4, <2>3, GateAssumption DEF Holders, CountInv, TypeOK
    <3>2. QED
      BY <1>4, <3>1 DEF Bounded, CountInv
  <2>4. QED
    BY <1>4, <2>2, <2>3, GateAssumption
<1>8. QED
  BY <1>3, <1>5, <1>6, <1>7 DEF CountInv

\* EXPIRE and the test after it.
LEMMA ExpireKeeps ==
    ASSUME CountInv, NEW r \in Requests, Expire(r)
    PROVE  CountInv'
<1> USE DEF Expire, Decide, Goto, observed, budget
<1>1. TypeOK' /\ UnitPcs'
  BY GateAssumption DEF CountInv, TypeOK, UnitPcs, Pcs, Asking, NoKey, NoTTL
<1>2. Holders' = Holders
  BY GateAssumption DEF Holders, CountInv, TypeOK
<1>3. (ttl = NoKey => count = 0)'
  BY GateAssumption DEF CountInv, TypeOK, NoKey, NoTTL
<1>4. NoSpuriousRefusal' /\ Bounded' /\ (Cardinality(units) <= count + lost)'
  BY <1>2 DEF NoSpuriousRefusal, Bounded, CountInv
<1>5. QED
  BY <1>1, <1>3, <1>4 DEF CountInv

\* A unit is given up: by the DECR it owes, or never.
Given(r) ==
    /\ r \in units => \/ count' = count - 1 /\ leaked' = leaked
                      \/ count' = count /\ leaked' = leaked + 1
    /\ r \notin units => count' = count /\ leaked' = leaked
    /\ units' = units \ {r} /\ lost' = lost
    /\ pc' \in [Requests -> Pcs] /\ \A x \in Requests \ {r} : pc'[x] = pc[x]
    /\ pc'[r] \in {"idle", "bucket"}
    /\ seen' \in [Requests -> Int] /\ \A x \in Requests \ {r} : seen'[x] = seen[x]
    /\ seen'[r] = 0
    /\ waiting' \subseteq {x \in Requests : pc'[x] \in Asking}
    /\ up' \in BOOLEAN /\ conn' \in {"none", "connecting", "ready"}
    /\ ttl' \in {NoTTL, NoKey} \cup 1..TTL
    /\ ttl' = NoKey => count' = 0

LEMMA GivenKeeps ==
    ASSUME CountInv, NEW r \in Requests, Given(r)
    PROVE  CountInv'
<1>1. TypeOK'
  BY DEF CountInv, Given, TypeOK
<1>2. UnitPcs'
  BY DEF CountInv, Given, UnitPcs, TypeOK
<1>3. Cardinality(units') = IF r \in units THEN Cardinality(units) - 1 ELSE Cardinality(units)
  BY UnitsFinite, FS_RemoveElement DEF CountInv, Given
<1>4. Cardinality(units) \in Nat /\ count \in Int /\ lost \in Nat /\ leaked \in Nat
  BY UnitsFinite DEF CountInv, TypeOK
<1>5. NoSpuriousRefusal' /\ (Cardinality(units) <= count + lost)'
  BY <1>3, <1>4 DEF CountInv, NoSpuriousRefusal, Given
<1>6. Bounded'
  <2>1. Holders' \in SUBSET Holders
    BY DEF Holders, Given, CountInv, TypeOK
  <2>2. Holders \in SUBSET Requests
    BY DEF Holders, CountInv, TypeOK
  <2>3. /\ Cardinality(Holders') <= Cardinality(Holders)
        /\ Cardinality(Holders) \in Nat /\ Cardinality(Holders') \in Nat
    BY <2>1, <2>2, Sizes
  <2>4. QED
    BY <1>4, <2>3, GateAssumption DEF Bounded, CountInv, Given
<1>7. QED
  BY <1>1, <1>2, <1>5, <1>6 DEF CountInv, Given

\* Which steps give a unit up.
LEMMA Gives ==
    ASSUME CountInv, NEW r \in Requests,
           Reject(r) \/ RejectFails(r) \/ Decr(r) \/ DecrSkipped(r) \/ DecrFails(r) \/ Abort(r) \/ ExpireFails(r)
    PROVE  Given(r)
<1> USE DEF CountInv, TypeOK, UnitPcs, Goto, redis, observed, budget, Pcs, Asking, Touched, NoKey, NoTTL
<1>1. CASE Reject(r)
  BY <1>1 DEF Reject, Decrement, Given
<1>2. CASE RejectFails(r)
  BY <1>2 DEF RejectFails, Leak, Given
<1>3. CASE Decr(r)
  BY <1>3 DEF Decr, Asks, Decrement, Given
<1>4. CASE DecrFails(r)
  BY <1>4 DEF DecrFails, Asks, Leak, Given
<1>5. CASE Abort(r)
  BY <1>5 DEF Abort, Leak, Given
<1>6. CASE ExpireFails(r)
  BY <1>6, GateAssumption DEF ExpireFails, Performed, Given
<1>7. CASE DecrSkipped(r)
  BY <1>7 DEF DecrSkipped, NoClient, Leak, Given
<1>8. QED
  BY <1>1, <1>2, <1>3, <1>4, <1>5, <1>6, <1>7

\* An INCR whose answer is lost can only raise the counter.
LEMMA IncrFailsKeeps ==
    ASSUME CountInv, NEW r \in Requests, IncrFails(r)
    PROVE  CountInv'
<1> USE DEF IncrFails, Asks, Goto
<1>1. PICK done \in {0, 1} : count' = count + done /\ leaked' = leaked + done
                             /\ ttl' = IF done = 1 THEN Touched ELSE ttl
  BY DEF Performed
<1>2. TypeOK'
  BY <1>1 DEF CountInv, TypeOK, Pcs, Asking, Touched, NoKey, NoTTL
<1>3. UnitPcs'
  BY DEF CountInv, UnitPcs, TypeOK
<1>4. Holders' = Holders
  BY DEF Holders, CountInv, TypeOK
<1>5. Cardinality(units) \in Nat /\ count \in Int /\ lost \in Nat /\ leaked \in Nat
  BY UnitsFinite DEF CountInv, TypeOK
<1>6. NoSpuriousRefusal' /\ (Cardinality(units) <= count + lost)' /\ Bounded'
  BY <1>1, <1>4, <1>5 DEF CountInv, NoSpuriousRefusal, Bounded
<1>7. (ttl = NoKey => count = 0)'
  BY <1>1 DEF CountInv, TypeOK, Touched, NoKey, NoTTL
<1>8. QED
  BY <1>2, <1>3, <1>6, <1>7 DEF CountInv

\* Time: a counter that expires leaves its units in flight to be lost.
LEMMA TimeKeeps ==
    ASSUME CountInv, Tick
    PROVE  CountInv'
<1> USE DEF Tick, budget
<1>1. Cardinality(units) \in Nat /\ Cardinality(Holders) \in Nat /\ Cardinality(Holders) <= Cardinality(units)
  BY UnitsFinite DEF CountInv
<1>2. TypeOK'
  BY <1>1, GateAssumption DEF CountInv, TypeOK, NoKey, NoTTL
<1>3. UnitPcs' /\ Holders' = Holders
  BY DEF CountInv, UnitPcs, Holders
<1>4. NoSpuriousRefusal' /\ (Cardinality(units) <= count + lost)' /\ Bounded'
  BY <1>1, <1>3, GateAssumption DEF CountInv, TypeOK, NoSpuriousRefusal, Bounded
<1>5. (ttl = NoKey => count = 0)'
  BY GateAssumption DEF CountInv, TypeOK, NoKey, NoTTL
<1>6. QED
  BY <1>2, <1>3, <1>4, <1>5 DEF CountInv

\* A connection lost, Redis gone or back: no request moves and nothing is counted.
LEMMA RedisKeeps ==
    ASSUME CountInv, ErrorEvent \/ GoesAway \/ ComesBack
    PROVE  CountInv'
<1> USE DEF ErrorEvent, GoesAway, ComesBack, redis, observed
<1>1. TypeOK' /\ UnitPcs'
  BY DEF CountInv, TypeOK, UnitPcs
<1>2. Holders' = Holders
  BY DEF Holders
<1>3. QED
  BY <1>1, <1>2 DEF CountInv, NoSpuriousRefusal, Bounded

\* Every step keeps the count.
LEMMA CountNext == CountInv /\ [Next]_vars => CountInv'
<1> SUFFICES ASSUME CountInv, [Next]_vars
             PROVE  CountInv'
  OBVIOUS
<1>1. ASSUME NEW r \in Requests, Arrive(r) \/ Progress(r)
      PROVE  CountInv'
  BY <1>1, Moves, MovedKeeps, IncrKeeps, ExpireKeeps, Gives, GivenKeeps DEF Progress
<1>2. ASSUME NEW r \in Requests, Fault(r)
      PROVE  CountInv'
  BY <1>2, Moves, MovedKeeps, IncrFailsKeeps, Gives, GivenKeeps DEF Fault
<1>3. CASE UNCHANGED vars
  <2>1. TypeOK' /\ UnitPcs' /\ Holders' = Holders
    BY <1>3 DEF vars, redis, observed, budget, CountInv, TypeOK, UnitPcs, Holders
  <2>2. QED
    BY <1>3, <2>1 DEF vars, redis, observed, budget, CountInv, NoSpuriousRefusal, Bounded
<1>4. QED
  BY <1>1, <1>2, <1>3, TimeKeeps, RedisKeeps DEF Next

\* The types are kept: no TTL runs to zero and no request waits for nothing.
THEOREM TypeCorrect == Spec => []TypeOK
<1>1. CountInv => TypeOK
  BY DEF CountInv
<1>2. QED
  BY <1>1, CountInit, CountNext, PTL DEF Spec

\* The requests let in are within the limit, but for the units in flight when the counter
\* last expired.
THEOREM LimitHolds == Spec => []Bounded
<1>1. CountInv => Bounded
  BY DEF CountInv
<1>2. QED
  BY <1>1, CountInit, CountNext, PTL DEF Spec

\* A 503 has a cause: the requests in flight, or a unit that was left behind.
THEOREM RefusalsCaused == Spec => []NoSpuriousRefusal
<1>1. CountInv => NoSpuriousRefusal
  BY DEF CountInv
<1>2. QED
  BY <1>1, CountInit, CountNext, PTL DEF Spec

----------------------------------------------------------------------------
(* The fallback bucket. *)

Least(a, b) == IF a > b THEN b ELSE a

\* A quotient is what its remainder says it is.
LEMMA QuotientUnique ==
    ASSUME NEW q \in Nat, NEW m \in 0..(RATE - 1)
    PROVE  (q * RATE + m) \div RATE = q
<1> DEFINE e == q * RATE + m
           p == e \div RATE
<1>1. RATE \in Nat \ {0} /\ e \in Nat
  BY GateAssumption
<1>2. p \in Nat /\ p * RATE <= e /\ e < p * RATE + RATE
  BY <1>1, SMT
<1> HIDE DEF p
<1>3. p * RATE \in Int /\ q * RATE \in Int
  BY <1>1, <1>2
<1>4. ~(p >= q + 1)
  <2> SUFFICES ASSUME p >= q + 1
               PROVE  FALSE
    OBVIOUS
  <2>1. p * RATE >= (q + 1) * RATE
    BY <1>1, <1>2
  <2>2. (q + 1) * RATE = q * RATE + RATE
    BY <1>1
  <2>3. QED
    BY <1>1, <1>2, <1>3, <2>1, <2>2
<1>5. ~(q >= p + 1)
  <2> SUFFICES ASSUME q >= p + 1
               PROVE  FALSE
    OBVIOUS
  <2>1. q * RATE >= (p + 1) * RATE
    BY <1>1, <1>2
  <2>2. (p + 1) * RATE = p * RATE + RATE
    BY <1>1, <1>2
  <2>3. QED
    BY <1>1, <1>2, <1>3, <2>1, <2>2
<1>6. p = q
  BY <1>2, <1>4, <1>5
<1>7. QED
  BY <1>6 DEF p

\* The bucket b has q whole tokens and m ticks to come: with them it could fill up, and
\* what it has given away in advance is at most what is then missing.
Owes(b, d, q, m) ==
    /\ q \in Nat /\ m \in 0..(RATE - 1)
    /\ b.elapsed = q * RATE + m
    /\ Least(b.tokens + q, BURST) * RATE + m + d < BURST * RATE + RATE

Buckets == [tokens : 0..BURST, elapsed : Nat]

BucketInv ==
    /\ debt \in Nat
    /\ \/ bucket = NoBucket /\ debt = 0
       \/ bucket \in Buckets /\ \E q, m \in Nat : Owes(bucket, debt, q, m)

\* fallbackConsume takes the whole tokens into the bucket and one out of it.
LEMMA ConsumeOwes ==
    ASSUME BucketInv, NEW r \in Requests, fallbackConsume(r)
    PROVE  BucketInv'
<1> DEFINE b == IF bucket = NoBucket THEN [tokens |-> BURST, elapsed |-> 0] ELSE bucket
<1>0. RATE \in Nat \ {0} /\ BURST \in Nat \ {0} /\ debt \in Nat
  BY GateAssumption DEF BucketInv
<1>1. b \in Buckets /\ \E q, m \in Nat : Owes(b, debt, q, m)
  <2>1. CASE bucket = NoBucket
    <3>1. b = [tokens |-> BURST, elapsed |-> 0] /\ debt = 0
      BY <2>1 DEF BucketInv, Buckets, NoBucket
    <3>2. Least(BURST + 0, BURST) = BURST /\ 0 * RATE = 0 /\ BURST * RATE \in Nat
      BY <1>0 DEF Least
    <3>3. Owes(b, debt, 0, 0)
      BY <1>0, <3>1, <3>2 DEF Owes
    <3>4. QED
      BY <1>0, <3>1, <3>3 DEF Buckets
  <2>2. CASE bucket # NoBucket
    BY <2>2 DEF BucketInv
  <2>3. QED
    BY <2>1, <2>2
<1>2. PICK q \in Nat, m \in Nat : Owes(b, debt, q, m)
  BY <1>1
<1> DEFINE t == Least(b.tokens + q, BURST)
<1>3. q \in Nat /\ m \in 0..(RATE - 1) /\ b.elapsed = q * RATE + m
  BY <1>2 DEF Owes
<1>4. b.elapsed \div RATE = q /\ b.elapsed - q * RATE = m /\ b.tokens \in 0..BURST
  BY <1>0, <1>1, <1>3, QuotientUnique DEF Buckets
<1>5. Refilled = [tokens |-> t, elapsed |-> m]
  BY <1>4 DEF Refilled, Least
<1>6. t \in 0..BURST /\ t * RATE + m + debt < BURST * RATE + RATE
  BY <1>0, <1>2, <1>3, <1>4 DEF Owes, Least
<1> HIDE DEF t, b
<1>7. CASE t >= 1
  <2>1. bucket' = [tokens |-> t - 1, elapsed |-> m] /\ debt' = debt + RATE
    BY <1>5, <1>6, <1>7 DEF fallbackConsume
  <2>2. Least((t - 1) + 0, BURST) = t - 1 /\ (t - 1) * RATE = t * RATE - RATE /\ t * RATE \in Nat
    BY <1>0, <1>6, <1>7 DEF Least
  <2>3. Owes(bucket', debt', 0, m)
    <3>1. m = 0 * RATE + m /\ BURST * RATE \in Nat
      BY <1>0, <1>3
    <3>2. (t - 1) * RATE + m + (debt + RATE) < BURST * RATE + RATE
      BY <1>0, <1>3, <1>6, <2>2, <3>1
    <3>3. QED
      BY <1>0, <1>3, <2>1, <2>2, <3>1, <3>2 DEF Owes
  <2>4. bucket' \in Buckets /\ debt' \in Nat
    BY <1>0, <1>3, <1>6, <1>7, <2>1 DEF Buckets
  <2>5. QED
    BY <1>0, <1>3, <2>3, <2>4 DEF BucketInv
<1>8. CASE ~(t >= 1)
  <2>1. bucket' = [tokens |-> t, elapsed |-> m] /\ debt' = debt /\ t = 0
    BY <1>5, <1>6, <1>8 DEF fallbackConsume
  <2>2. Least(0 + 0, BURST) = 0
    BY <1>0 DEF Least
  <2>3. Owes(bucket', debt', 0, m)
    <3>1. m = 0 * RATE + m /\ 0 * RATE = 0
      BY <1>0, <1>3
    <3>2. QED
      BY <1>0, <1>3, <1>6, <2>1, <2>2, <3>1 DEF Owes
  <2>4. bucket' \in Buckets /\ debt' \in Nat
    BY <1>0, <1>3, <1>6, <2>1 DEF Buckets
  <2>5. QED
    BY <1>0, <1>3, <2>3, <2>4 DEF BucketInv
<1>9. QED
  BY <1>7, <1>8

\* Time brings the bucket one tick nearer to its next token and pays one tick back.
LEMMA AgeOwes ==
    ASSUME BucketInv, Tick
    PROVE  BucketInv'
<1>0. RATE \in Nat \ {0} /\ BURST \in Nat \ {0} /\ debt \in Nat /\ BURST * RATE \in Nat
  BY GateAssumption DEF BucketInv
<1>1. debt' = Down(debt) /\ bucket' = Age(bucket) /\ debt' \in Nat
  BY <1>0 DEF Tick, Down
<1>2. CASE bucket = NoBucket /\ debt = 0
  BY <1>1, <1>2 DEF Age, Down, BucketInv
<1>3. CASE bucket \in Buckets /\ \E q, m \in Nat : Owes(bucket, debt, q, m)
  <2>1. PICK q \in Nat, m \in Nat : Owes(bucket, debt, q, m)
    BY <1>3
  <2>2. m \in 0..(RATE - 1) /\ bucket.elapsed = q * RATE + m /\ bucket.tokens \in 0..BURST
    BY <1>3, <2>1 DEF Owes, Buckets
  <2> DEFINE t == Least(bucket.tokens + q, BURST)
  <2>3. t \in 0..BURST /\ t * RATE + m + debt < BURST * RATE + RATE
    BY <1>0, <2>1, <2>2 DEF Owes, Least
  <2>4. bucket # NoBucket
    BY <1>3 DEF Buckets, NoBucket
  <2>5. (BURST + 1) * RATE = BURST * RATE + RATE /\ q * RATE \in Nat /\ t * RATE \in Nat /\ t * RATE <= BURST * RATE
    BY <1>0, <2>3
  <2>6. bucket' \in Buckets
    BY <1>0, <1>1, <1>3, <2>2, <2>4 DEF Age, Buckets
  <2>7. CASE bucket.elapsed + 1 = (BURST + 1) * RATE
    <3>1. bucket'.elapsed = BURST * RATE + 0 /\ bucket'.tokens = bucket.tokens
      BY <1>0, <1>1, <1>3, <2>4, <2>7 DEF Age, Buckets
    <3>2. q = BURST /\ m = RATE - 1
      <4>1. q * RATE + m = BURST * RATE + (RATE - 1)
        BY <1>0, <2>2, <2>5, <2>7
      <4>2. RATE - 1 \in 0..(RATE - 1)
        BY <1>0
      <4>3. (q * RATE + m) \div RATE = q /\ (BURST * RATE + (RATE - 1)) \div RATE = BURST
        BY <1>0, <2>2, <4>2, QuotientUnique
      <4>4. q = BURST
        BY <4>1, <4>3
      <4>5. QED
        BY <1>0, <2>2, <2>5, <4>1, <4>4
    <3>3. t = BURST /\ Least(bucket.tokens + BURST, BURST) = BURST
      BY <1>0, <2>2, <3>2 DEF Least
    <3>4. debt = 0
      BY <1>0, <2>3, <3>2, <3>3
    <3>5. debt' = 0
      BY <1>1, <3>4 DEF Down
    <3>6. Owes(bucket', debt', BURST, 0)
      BY <1>0, <3>1, <3>3, <3>5 DEF Owes
    <3>7. QED
      BY <1>0, <1>1, <2>6, <3>6 DEF BucketInv
  <2>8. CASE bucket.elapsed + 1 # (BURST + 1) * RATE
    <3>1. bucket'.elapsed = q * RATE + m + 1 /\ bucket'.tokens = bucket.tokens
      BY <1>0, <1>1, <1>3, <2>2, <2>4, <2>8 DEF Age, Buckets
    <3>2. CASE m + 1 < RATE
      <4>1. t * RATE + (m + 1) + debt' < BURST * RATE + RATE
        BY <1>0, <1>1, <2>2, <2>3, <2>5, <3>2 DEF Down
      <4>2. Owes(bucket', debt', q, m + 1)
        BY <1>0, <2>2, <2>5, <3>1, <3>2, <4>1 DEF Owes
      <4>3. QED
        BY <1>1, <2>6, <4>2 DEF BucketInv
    <3>3. CASE m + 1 = RATE
      <4> DEFINE u == Least(bucket.tokens + (q + 1), BURST)
      <4>1. (q + 1) * RATE = q * RATE + RATE
        BY <1>0
      <4>2. u * RATE + debt' < BURST * RATE + RATE
        <5>1. CASE bucket.tokens + q < BURST
          <6>1. u = t + 1
            BY <1>0, <2>2, <5>1 DEF Least
          <6>2. (t + 1) * RATE = t * RATE + RATE
            BY <1>0, <2>3
          <6>3. (t + 1) * RATE <= BURST * RATE
            BY <1>0, <2>2, <5>1 DEF Least
          <6>4. QED
            BY <1>0, <1>1, <2>3, <2>5, <3>3, <6>1, <6>2, <6>3 DEF Down
        <5>2. CASE bucket.tokens + q >= BURST
          <6>1. u = BURST /\ t = BURST
            BY <1>0, <2>2, <5>2 DEF Least
          <6>2. QED
            BY <1>0, <1>1, <2>3, <3>3, <6>1 DEF Down
        <5>3. QED
          BY <1>0, <2>2, <5>1, <5>2
      <4>3. bucket'.elapsed = (q + 1) * RATE + 0
        BY <1>0, <2>5, <3>1, <3>3, <4>1
      <4>4. u * RATE \in Int
        BY <1>0, <2>2 DEF Least
      <4>5. Owes(bucket', debt', q + 1, 0)
        BY <1>0, <1>1, <3>1, <4>2, <4>3, <4>4 DEF Owes
      <4>6. QED
        BY <1>1, <2>6, <4>5 DEF BucketInv
    <3>4. QED
      BY <1>0, <2>2, <3>2, <3>3
  <2>9. QED
    BY <2>7, <2>8
<1>4. QED
  BY <1>2, <1>3 DEF BucketInv

\* Every step keeps the bucket honest.
LEMMA BucketNext == BucketInv /\ [Next]_vars => BucketInv'
<1> SUFFICES ASSUME BucketInv, [Next]_vars
             PROVE  BucketInv'
  OBVIOUS
<1>1. ASSUME UNCHANGED <<bucket, debt>>
      PROVE  BucketInv'
  BY <1>1 DEF BucketInv
<1>2. ASSUME NEW r \in Requests, Arrive(r) \/ Progress(r)
      PROVE  BucketInv'
  BY <1>1, <1>2, ConsumeOwes
     DEF Progress, Arrive, StartConnect, Connected, PassThrough, Incr, Expire, Reject, clThrottle,
         UseFallback, Handle, Finish, Decr, DecrSkipped, observed
<1>3. ASSUME NEW r \in Requests, Fault(r)
      PROVE  BucketInv'
  BY <1>1, <1>3, ConsumeOwes
     DEF Fault, IncrFails, ExpireFails, RejectFails, ThrottleFails, Abort, DecrFails
<1>4. CASE ErrorEvent \/ GoesAway \/ ComesBack \/ UNCHANGED vars
  BY <1>1, <1>4 DEF ErrorEvent, GoesAway, ComesBack, vars, observed
<1>5. QED
  BY <1>2, <1>3, <1>4, AgeOwes DEF Next

\* Whatever the burst and the rate, no window has more than the burst, the tokens that
\* come back in it, and one more.
THEOREM FallbackHolds == Spec => []FallbackBounded
<1>1. Init => BucketInv
  BY DEF Init, BucketInv
<1>2. BucketInv => FallbackBounded
  <2> SUFFICES ASSUME BucketInv
               PROVE  debt < (BURST + 1) * RATE
    BY DEF FallbackBounded
  <2>0. RATE \in Nat \ {0} /\ BURST \in Nat \ {0} /\ debt \in Nat /\ BURST * RATE \in Nat
    BY GateAssumption DEF BucketInv
  <2>1. (BURST + 1) * RATE = BURST * RATE + RATE
    BY <2>0
  <2>2. CASE debt = 0
    BY <2>0, <2>1, <2>2
  <2>3. CASE debt # 0
    <3>1. PICK q \in Nat, m \in Nat : Owes(bucket, debt, q, m)
      BY <2>3 DEF BucketInv
    <3>2. bucket.tokens \in 0..BURST
      BY <2>3 DEF BucketInv, Buckets
    <3>3. Least(bucket.tokens + q, BURST) * RATE \in Nat
      BY <2>0, <3>1, <3>2 DEF Least
    <3>4. QED
      BY <2>0, <2>1, <3>1, <3>3 DEF Owes
  <2>4. QED
    BY <2>2, <2>3
<1>3. QED
  BY <1>1, <1>2, BucketNext, PTL DEF Spec
=============================================================================
