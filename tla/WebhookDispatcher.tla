------------------------- MODULE WebhookDispatcher -------------------------
(***************************************************************************)
(* Webhook delivery: src/src/webhooks/dispatcher.ts, and the deactivation  *)
(* of a subscription in src/src/api/webhooks.ts.                           *)
(*                                                                         *)
(* dispatchWebhooks makes the first attempt to deliver an event to a       *)
(* subscription and creates the WebhookDelivery row;                       *)
(* retryPendingDeliveries, which any replica of the service may call at    *)
(* any time, claims the rows that are due under a lease and tries them     *)
(* again.  Both are exported and the repository calls neither, so the      *)
(* specification does not promise that they are called.  The model has one *)
(* subscription, so a delivery is an event.                                *)
(*                                                                         *)
(* Time: leaseExpiresAt and nextRetryAt are kept as the number of ticks    *)
(* that are left; 0 is "not later than now", Never is NULL.  The claiming  *)
(* transaction is short against a tick (Prisma aborts it after 5 s).       *)
(***************************************************************************)
EXTENDS Integers

CONSTANTS
    Deliveries,     \* the events to deliver
    Replicas,       \* the running copies of the service
    Slots,          \* bound: how many deliverOnce calls may be in flight
    MAX_ATTEMPTS,
    LEASE,          \* LEASE_DURATION_MS in ticks
    BACKOFF,        \* backoffMs in ticks
    Timely,         \* every call ends before its lease does, and no two claims
                    \* of a row are made in the same millisecond
    MaxPatches,     \* bound: changes of the subscription's `active' flag
    MaxFaults       \* bound: crashes of replicas, deleted events, failing database calls

ASSUME DispatcherAssumption ==
    /\ MAX_ATTEMPTS \in Nat \ {0} /\ LEASE \in Nat \ {0} /\ BACKOFF \in Nat \ {0}
    /\ Timely \in BOOLEAN
    /\ MaxPatches \in Nat /\ MaxFaults \in Nat

Never == -1

VARIABLES
    row,            \* table WebhookDelivery
    stored,         \* the events still in table Event
    active,         \* WebhookSubscription.active
    patch,          \* the PATCH handler: "idle" or about to "cancel"
    undispatched,   \* events nobody has handed to dispatchWebhooks
    retry,          \* the claiming transaction of each replica
    task,           \* the deliverOnce calls in flight
    sends,          \* how often a request was sent for a delivery
    patches, faults

db == <<row, stored, active>>
budget == <<patches, faults>>
vars == <<db, patch, undispatched, retry, task, sends, budget>>

Row(status, proc, lease, next, attempt) ==
    [status |-> status, proc |-> proc, lease |-> lease, next |-> next, attempt |-> attempt]

NoDelivery == Row("none", "none", Never, Never, 0)

NoTask == [pc |-> "free"]

Task(r, d, attempt, isNew, act) ==
    [pc |-> IF isNew THEN "check" ELSE "start", owner |-> r, d |-> d, attempt |-> attempt,
     isNew |-> isNew, active |-> act, outcome |-> "none"]

NoRetry == [pc |-> "idle", ids |-> {}]

Init ==
    /\ row = [d \in Deliveries |-> NoDelivery]
    /\ stored = Deliveries
    /\ active = TRUE
    /\ patch = "idle"
    /\ undispatched = Deliveries
    /\ retry = [r \in Replicas |-> NoRetry]
    /\ task = [t \in Slots |-> NoTask]
    /\ sends = [d \in Deliveries |-> 0]
    /\ patches = 0 /\ faults = 0

free == {t \in Slots : task[t].pc = "free"}
live == Slots \ free

Fault == faults < MaxFaults /\ faults' = faults + 1

----------------------------------------------------------------------------
\* dispatchWebhooks: fan out to the active subscription.
Dispatch(r, d) ==
    /\ d \in undispatched
    /\ undispatched' = undispatched \ {d}
    /\ IF active
       THEN /\ free # {}
            /\ task' = [task EXCEPT ![CHOOSE t \in free : TRUE] = Task(r, d, 1, TRUE, TRUE)]
       ELSE UNCHANGED task
    /\ UNCHANGED <<db, patch, retry, sends, budget>>

\* Nobody holds the row: idle, or processing under a lease that has expired.
Claimable(w) ==
    \/ w.proc = "idle"
    \/ w.proc = "processing" /\ w.lease = 0

Due(w) == w.status = "pending" /\ w.next = 0 /\ Claimable(w)

\* retryPendingDeliveries, first statement of the transaction.
FindDue(r) ==
    LET ids == {d \in Deliveries : Due(row[d])}
    IN  /\ retry[r].pc = "idle"
        /\ ids # {}
        /\ retry' = [retry EXCEPT ![r] = [pc |-> "claim", ids |-> ids]]
        /\ UNCHANGED <<db, patch, undispatched, task, sends, budget>>

\* One deliverOnce per claimed row, with the values read by the transaction.
StartTasks(r, claimed) ==
    LET Injective(f) == \A c, d \in claimed : f[c] = f[d] => c = d
        slot == CHOOSE f \in [claimed -> free] : Injective(f)
    IN  /\ \E f \in [claimed -> free] : Injective(f)
        /\ task' = [t \in Slots |->
                      IF \E d \in claimed : slot[d] = t
                      THEN LET d == CHOOSE c \in claimed : slot[c] = t
                           IN  Task(r, d, row[d].attempt, FALSE, active)
                      ELSE task[t]]

\* Mutant: updateMany does not repeat the test on processingStatus.
ClaimRowsUnchecked(r) ==
    /\ retry[r].pc = "claim"
    /\ row' = [d \in Deliveries |->
                 IF d \in retry[r].ids
                 THEN [row[d] EXCEPT !.proc = "processing", !.lease = LEASE] ELSE row[d]]
    /\ StartTasks(r, retry[r].ids)
    /\ retry' = [retry EXCEPT ![r] = NoRetry]
    /\ UNCHANGED <<stored, active, patch, undispatched, sends, budget>>

\* The rest of the transaction: updateMany rechecks, under the row locks, that
\* nobody holds the row; the last findMany returns the rows that carry this
\* claim's lease timestamp, also if another claim wrote the same one.
ClaimRows(r) ==
    LET ids == retry[r].ids
        updated == {d \in ids : Claimable(row[d])}
        twin == {d \in ids \ updated : row[d].proc = "processing" /\ row[d].lease = LEASE}
    IN  /\ retry[r].pc = "claim"
        /\ row' = [d \in Deliveries |->
                     IF d \in updated
                     THEN [row[d] EXCEPT !.proc = "processing", !.lease = LEASE] ELSE row[d]]
        /\ StartTasks(r, updated \cup (IF Timely THEN {} ELSE twin))
        /\ retry' = [retry EXCEPT ![r] = NoRetry]
        /\ UNCHANGED <<stored, active, patch, undispatched, sends, budget>>

----------------------------------------------------------------------------
(* deliverOnce. *)

End(t) == task' = [task EXCEPT ![t] = NoTask]

Update(d, w) == row' = [row EXCEPT ![d] = w]

\* The claimed row belonged to an inactive subscription.
SkipInactive(t) ==
    /\ task[t].pc = "start" /\ ~task[t].isNew /\ ~task[t].active
    /\ Update(task[t].d, [row[task[t].d] EXCEPT !.status = "cancelled", !.proc = "done", !.lease = Never])
    /\ End(t)
    /\ UNCHANGED <<stored, active, patch, undispatched, retry, sends, budget>>

\* The event to deliver is gone: return and leave the row as it is.
EventMissing(t) ==
    /\ task[t].pc = "start" /\ ~task[t].isNew /\ task[t].active
    /\ task[t].d \notin stored
    /\ End(t)
    /\ UNCHANGED <<db, patch, undispatched, retry, sends, budget>>

\* Mutant: the retry does not look the event up again.
LookupUnchecked(t) ==
    /\ task[t].pc = "start" /\ ~task[t].isNew /\ task[t].active
    /\ task' = [task EXCEPT ![t].pc = "check"]
    /\ UNCHANGED <<db, patch, undispatched, retry, sends, budget>>

\* The event is read into the payload of the retry (a new delivery has its
\* payload and starts after this).  What is lost from now on is still sent: the
\* URL is checked, and the row marked, without another look at the event.
Lookup(t) ==
    /\ task[t].pc = "start" /\ ~task[t].isNew /\ task[t].active
    /\ task[t].d \in stored
    /\ task' = [task EXCEPT ![t].pc = "check"]
    /\ UNCHANGED <<db, patch, undispatched, retry, sends, budget>>

\* The row of a delivery that has failed for good.
Failed(w) == [w EXCEPT !.status = "failed", !.proc = "done", !.lease = Never, !.next = Never]

\* assertSafeUrl refuses the URL; a new delivery leaves no row behind.
UnsafeUrl(t) ==
    /\ task[t].pc = "check"
    /\ IF task[t].isNew THEN UNCHANGED row ELSE Update(task[t].d, Failed(row[task[t].d]))
    /\ End(t)
    /\ UNCHANGED <<stored, active, patch, undispatched, retry, sends, budget>>

\* Create the row, or mark the attempt on the existing one.
MarkAttempt(t) ==
    /\ task[t].pc = "check"
    /\ Update(task[t].d,
              IF task[t].isNew
              THEN Row("pending", "processing", LEASE, Never, task[t].attempt)
              ELSE [row[task[t].d] EXCEPT !.attempt = task[t].attempt, !.status = "pending",
                                          !.next = Never])
    /\ task' = [task EXCEPT ![t].pc = "post"]
    /\ UNCHANGED <<stored, active, patch, undispatched, retry, sends, budget>>

\* safePost: 2xx, anything else, or a redirect to an unsafe address.
Post(t, outcome) ==
    /\ task[t].pc = "post"
    /\ sends' = [sends EXCEPT ![task[t].d] = @ + 1]
    /\ task' = [task EXCEPT ![t].pc = "record", ![t].outcome = outcome]
    /\ UNCHANGED <<db, patch, undispatched, retry, budget>>

\* Mutant: the retry is scheduled but the row is not released.
RetryKeepsProcessing(w, attempt) ==
    IF attempt + 1 > MAX_ATTEMPTS THEN Failed(w)
    ELSE Row("pending", "processing", Never, BACKOFF, attempt + 1)

\* Mutant: one attempt too many.
RetryOnceMore(w, attempt) ==
    IF attempt > MAX_ATTEMPTS THEN Failed(w)
    ELSE Row("pending", "idle", Never, BACKOFF, attempt + 1)

scheduleRetryOrFail(w, attempt) ==
    IF attempt + 1 > MAX_ATTEMPTS THEN Failed(w)
    ELSE Row("pending", "idle", Never, BACKOFF, attempt + 1)

\* The outcome of the request is written to the row.
Record(t) ==
    LET w == row[task[t].d]
    IN  /\ task[t].pc = "record"
        /\ Update(task[t].d,
                  CASE task[t].outcome = "ok" ->
                         [w EXCEPT !.status = "success", !.proc = "done", !.lease = Never]
                    [] task[t].outcome = "unsafe" -> Failed(w)
                    [] task[t].outcome = "error" -> scheduleRetryOrFail(w, task[t].attempt))
        /\ End(t)
        /\ UNCHANGED <<stored, active, patch, undispatched, retry, sends, budget>>

\* A database call of deliverOnce fails.  runWithConcurrency swallows the error
\* and the row stays as it is, unless the call was made inside the try block:
\* its catch block then schedules a retry, even of a request that succeeded.
WriteFails(t) ==
    /\ task[t].pc \in {"start", "check", "record"}
    /\ Fault
    /\ \/ task[t].outcome \in {"none", "error", "unsafe"} /\ End(t)
       \/ /\ task[t].outcome \in {"ok", "error"}
          /\ task' = [task EXCEPT ![t].outcome = "error"]
    /\ UNCHANGED <<db, patch, undispatched, retry, sends, patches>>

\* The claiming transaction fails and is rolled back.
ClaimFails(r) ==
    /\ retry[r].pc = "claim"
    /\ Fault
    /\ retry' = [retry EXCEPT ![r] = NoRetry]
    /\ UNCHANGED <<db, patch, undispatched, task, sends, patches>>

----------------------------------------------------------------------------
(* PATCH /webhooks/:id. *)

Deactivate ==
    /\ patch = "idle" /\ patches < MaxPatches
    /\ active' = FALSE
    /\ patch' = "cancel"
    /\ patches' = patches + 1
    /\ UNCHANGED <<row, stored, undispatched, retry, task, sends, faults>>

\* Mutant: the rows are cancelled but stay claimable.
CancelKeepsIdle ==
    /\ patch = "cancel"
    /\ row' = [d \in Deliveries |->
                 IF row[d].status = "pending" THEN [row[d] EXCEPT !.status = "cancelled"] ELSE row[d]]
    /\ patch' = "idle"
    /\ UNCHANGED <<stored, active, undispatched, retry, task, sends, budget>>

\* Mutant: the update is not restricted to pending rows.
CancelEverything ==
    /\ patch = "cancel"
    /\ row' = [d \in Deliveries |->
                 [row[d] EXCEPT !.status = "cancelled", !.proc = "done", !.lease = Never, !.next = Never]]
    /\ patch' = "idle"
    /\ UNCHANGED <<stored, active, undispatched, retry, task, sends, budget>>

CancelPending ==
    /\ patch = "cancel"
    /\ row' = [d \in Deliveries |->
                 IF row[d].status = "pending"
                 THEN [row[d] EXCEPT !.status = "cancelled", !.proc = "done",
                                     !.lease = Never, !.next = Never]
                 ELSE row[d]]
    /\ patch' = "idle"
    /\ UNCHANGED <<stored, active, undispatched, retry, task, sends, budget>>

Reactivate ==
    /\ patches < MaxPatches /\ ~active
    /\ active' = TRUE
    /\ patches' = patches + 1
    /\ UNCHANGED <<row, stored, patch, undispatched, retry, task, sends, faults>>

----------------------------------------------------------------------------
(* The environment. *)

\* The event is pruned or rolled back by the indexer.
DropEvent(d) ==
    /\ Fault
    /\ d \in stored
    /\ stored' = stored \ {d}
    /\ UNCHANGED <<row, active, patch, undispatched, retry, task, sends, patches>>

\* A replica dies and is restarted; its calls and its transaction are gone.
Crash(r) ==
    /\ Fault
    /\ retry' = [retry EXCEPT ![r] = NoRetry]
    /\ task' = [t \in Slots |-> IF t \in live /\ task[t].owner = r THEN NoTask ELSE task[t]]
    /\ UNCHANGED <<db, patch, undispatched, sends, patches>>

Less(n) == IF n > 0 THEN n - 1 ELSE n

\* Time passes. Under Timely no call outlives its lease: the queue of
\* runWithConcurrency is short and requests end within REQUEST_TIMEOUT_MS.  (A
\* call whose row was cancelled under it, and so has no lease, ends within a tick.)
Tick ==
    /\ \A r \in Replicas : retry[r].pc = "idle"
    /\ Timely => \A t \in live : (task[t].isNew /\ task[t].pc = "check") \/ row[task[t].d].lease > 1
    /\ \E d \in Deliveries : row[d].lease > 0 \/ row[d].next > 0
    /\ row' = [d \in Deliveries |-> [row[d] EXCEPT !.lease = Less(@), !.next = Less(@)]]
    /\ UNCHANGED <<stored, active, patch, undispatched, retry, task, sends, budget>>

TaskStep(t) ==
    \/ SkipInactive(t)
    \/ EventMissing(t)
    \/ Lookup(t)
    \/ UnsafeUrl(t)
    \/ MarkAttempt(t)
    \/ \E outcome \in {"ok", "error", "unsafe"} : Post(t, outcome)
    \/ Record(t)
    \/ WriteFails(t)

RetryStep(r) == FindDue(r) \/ ClaimRows(r) \/ ClaimFails(r)

Next ==
    \/ \E r \in Replicas, d \in Deliveries : Dispatch(r, d)
    \/ \E r \in Replicas : RetryStep(r) \/ Crash(r)
    \/ \E t \in Slots : TaskStep(t)
    \/ Deactivate \/ CancelPending \/ Reactivate
    \/ \E d \in Deliveries : DropEvent(d)
    \/ Tick

(***************************************************************************)
(* Fairness: what has begun (a call, a claim, a deactivation) goes on      *)
(* unless its replica dies, and time passes.  Nothing is said of how often *)
(* retryPendingDeliveries is called.                                       *)
(***************************************************************************)
Fairness ==
    /\ WF_vars(Tick)
    /\ WF_vars(CancelPending)
    /\ \A r \in Replicas : WF_vars(ClaimRows(r))
    /\ \A t \in Slots : WF_vars(TaskStep(t))

Spec == Init /\ [][Next]_vars /\ Fairness

\* dispatcher.ts:139: "Call this on a periodic schedule": a caller that does.
PeriodicSpec == Spec /\ \A r \in Replicas : WF_vars(FindDue(r))

----------------------------------------------------------------------------
Statuses == {"none", "pending", "success", "failed", "cancelled"}

Tasks == [pc : {"start", "check", "post", "record"}, owner : Replicas, d : Deliveries,
          attempt : 1..MAX_ATTEMPTS, isNew : BOOLEAN, active : BOOLEAN,
          outcome : {"none", "ok", "error", "unsafe"}]

\* The values every variable takes; no delivery gets an attempt number above
\* MAX_ATTEMPTS.
TypeOK ==
    /\ row \in [Deliveries -> [status : Statuses, proc : {"none", "idle", "processing", "done"},
                               lease : Never..LEASE, next : Never..BACKOFF,
                               attempt : 0..MAX_ATTEMPTS]]
    /\ stored \subseteq Deliveries /\ undispatched \subseteq Deliveries
    /\ active \in BOOLEAN /\ patch \in {"idle", "cancel"}
    /\ retry \in [Replicas -> [pc : {"idle", "claim"}, ids : SUBSET Deliveries]]
    /\ task \in [Slots -> Tasks \cup {NoTask}]
    /\ sends \in [Deliveries -> Nat]
    /\ patches \in 0..MaxPatches /\ faults \in 0..MaxFaults

\* dispatcher.ts:134: "Rows are claimed atomically with a processing lease so that
\* concurrent service replicas cannot pick up the same delivery twice": no two
\* calls in flight work on the same delivery.
ExclusiveDelivery ==
    \A t, u \in live : task[t].d = task[u].d => t = u

\* A subscriber is sent at most MAX_ATTEMPTS requests for one event, crashes,
\* reclaims and reactivations included.
AttemptsBounded == \A d \in Deliveries : sends[d] <= MAX_ATTEMPTS

\* A delivery that succeeded or failed for good is never touched again: no late
\* call, retry or deactivation changes its status.
SettledIsFinal ==
    [][\A d \in Deliveries : row[d].status \in {"success", "failed"}
            => row'[d].status = row[d].status]_vars

\* dispatcher.ts:152: "Re-claim rows whose lease has expired (e.g. the previous
\* worker crashed)": no pending row is left with an expired lease, if replicas keep
\* calling retryPendingDeliveries.
ExpiredLeaseReclaimed ==
    \A d \in Deliveries :
        (row[d].status = "pending" /\ row[d].proc = "processing" /\ row[d].lease = 0)
            ~> ~(row[d].status = "pending" /\ row[d].proc = "processing" /\ row[d].lease = 0)

InFlight(d) == {t \in live : task[t].d = d}

\* api/webhooks.ts:227: "When deactivating, immediately cancel all pending
\* deliveries so the retry loop doesn't attempt them before it notices": only a
\* call that was in flight when the delivery was cancelled can bring it back.
\* Once cancelled and at rest, a delivery is never claimed or sent again, not even
\* by a claim whose first query still saw it pending, or after a reactivation.
CancelledStays ==
    [][\A d \in Deliveries : row[d].status = "cancelled" /\ InFlight(d) = {}
            => row'[d].status = "cancelled" /\ InFlight(d)' = {}]_vars

\* The calls that have sent their request.
Sent(d) == {t \in InFlight(d) : task[t].pc = "record"}

\* The deliveries as the subscriber and the table show them.
Delivery == INSTANCE AbstractDelivery WITH
    Calls <- Slots,
    status <- [d \in Deliveries |-> row[d].status],
    open <- [d \in Deliveries |-> InFlight(d) \ Sent(d)],
    sent <- [d \in Deliveries |-> Sent(d)]

\* dispatcher.ts:134: while calls end within their lease, crashes, reclaims, late
\* writes and deactivations leave every delivery to one call at a time; it
\* succeeds only by a request of that call, is put back only if another request
\* is allowed, and once settled is not worked on again.
ImplementsDelivery == Delivery!Spec

\* A claim, now or later, finds the row.
Waiting(w) == w.next # Never /\ w.proc \in {"idle", "processing"} /\ (w.proc = "processing" => w.lease # Never)

\* dispatcher.ts:285 takes the row out of the reach of every claim and only the
\* writes after the request put it back.  Whatever a call runs into (a subscription
\* deactivated or activated again, an event gone, a crash or a failing write before
\* line 285), it leaves a pending row where a later claim finds it; only a crash or
\* a failing write after line 285 strands the row.
StrandedOnlyAfterMark ==
    [][\A d \in Deliveries :
          row'[d].status = "pending" /\ InFlight(d)' = {} /\ ~Waiting(row[d])' =>
              \/ row[d].status = "pending" /\ InFlight(d) = {} /\ ~Waiting(row[d])
              \/ faults' > faults /\ \E t \in InFlight(d) : task[t].pc \in {"post", "record"}]_vars

\* Some call holds the payload of the delivery, or will be handed it.
PayloadHeld(d) ==
    d \in undispatched \/ \E t \in InFlight(d) : task[t].isNew \/ task[t].pc # "start"

\* dispatcher.ts:238: the event of a pending delivery was rolled back or pruned.
\* Its row is claimed again after every lease, but no claim sends anything: once
\* no call holds the payload, the subscriber gets no further request.
LostIsNotSent ==
    [][\A d \in Deliveries : d \notin stored /\ ~PayloadHeld(d)
            => sends'[d] = sends[d] /\ ~PayloadHeld(d)']_vars

=============================================================================
