---------------------------- MODULE FeedDelivery ----------------------------
(***************************************************************************)
(* Delivery of feed messages to a subscription: distributeMessage in       *)
(* src/src/feed/orchestrator.ts, src/src/feed/deliveryService.ts, and the  *)
(* requests of src/src/api/feed.ts that change the subscription.           *)
(*                                                                         *)
(* A message goes through two database reads, nobody waits for it, and it  *)
(* is then sent at once or put into the batch of the subscription, which   *)
(* is sent when it is full or when its timer fires.  Subscriptions share   *)
(* nothing, so the model has one; a message that its filter rejects ends   *)
(* without an effect and is not in Messages.                               *)
(***************************************************************************)
EXTENDS Integers, Sequences, FiniteSets

CONSTANTS
    Messages,       \* what feedPublisher emits on the channel
    BatchSize,      \* batchSize of the subscription when it is created
    Sizes,          \* the batch sizes that PUT /subscriptions/:id may set
    WAIT,           \* the 5000 ms of the batch timer, in ticks
    MaxChanges,     \* bound: changes of the subscription by its owner
    MaxFaults       \* bound: failing database calls

ASSUME FeedAssumption ==
    /\ BatchSize \in Nat \ {0} /\ Sizes \subseteq Nat \ {0}
    /\ WAIT \in Nat \ {0} /\ MaxChanges \in Nat /\ MaxFaults \in Nat

MaxWait == (BatchSize - 1) * WAIT

Row(status, size, type) == [status |-> status, size |-> size, type |-> type]

Deleted == Row("deleted", 1, "webhook")

Rows == [status : {"active", "paused", "deleted"}, size : Sizes \cup {1, BatchSize},
         type : {"webhook", "websocket"}]

Stages == {"new", "find", "get", "got", "queued", "posting",
           "sent", "failed", "skipped", "lost"}

Settled == {"sent", "failed", "skipped", "lost"}

VARIABLES
    sub,        \* the FeedSubscription row
    stage,      \* how far each message has come
    seen,       \* the row that deliverMessage has read for a message
    queue,      \* deliveryQueues
    timer,      \* batchTimers: ticks left, the row the callback holds
    posts,      \* the calls of deliverWebhook in flight
    sends,      \* how often a message was put into a request
    wait,       \* ticks a message has been in the queue, up to MaxWait + 1
    process,    \* "up", "stopping" (gracefulShutdown) or "exited"
    unhandled,  \* a promise was rejected and nobody handled it
    changes, resizes, faults

batch == <<queue, timer, wait>>
budget == <<changes, resizes, faults>>
vars == <<sub, stage, seen, batch, posts, sends, process, unhandled, budget>>

Off == [on |-> FALSE, left |-> 0, row |-> Deleted]

Init ==
    /\ sub \in {Row("active", BatchSize, type) : type \in {"webhook", "websocket"}}
    /\ stage = [m \in Messages |-> "new"]
    /\ seen = [m \in Messages |-> Deleted]
    /\ queue = <<>> /\ timer = Off
    /\ posts = {}
    /\ sends = [m \in Messages |-> 0] /\ wait = [m \in Messages |-> 0]
    /\ process = "up" /\ unhandled = FALSE
    /\ changes = 0 /\ resizes = 0 /\ faults = 0

Running == process # "exited"

In(s) == {s[i] : i \in DOMAIN s}

\* A database call fails.
Fault ==
    /\ faults < MaxFaults
    /\ faults' = faults + 1
    /\ UNCHANGED <<changes, resizes>>

NoFault == UNCHANGED budget

To(ms, st) == stage' = [m \in Messages |-> IF m \in ms THEN st ELSE stage[m]]

----------------------------------------------------------------------------
(* From the publisher to deliverMessage. *)

\* feedPublisher emits the message; distributeMessage asks for the subscriptions.
Emit(m) ==
    /\ Running /\ stage[m] = "new"
    /\ To({m}, "find")
    /\ UNCHANGED <<sub, seen, batch, posts, sends, process, unhandled, budget>>

\* getActiveSubscriptions answers; deliverMessage is called and not awaited.
Distribute(m) ==
    /\ Running /\ stage[m] = "find"
    /\ \/ NoFault /\ To({m}, IF sub.status = "active" THEN "get" ELSE "skipped")
       \/ Fault /\ To({m}, "lost")
    /\ UNCHANGED <<sub, seen, batch, posts, sends, process, unhandled>>

\* The database reads the row for getSubscription.  If it fails, deliverMessage ends
\* in its catch.
GetSubscription(m) ==
    /\ Running /\ stage[m] = "get"
    /\ \/ NoFault /\ To({m}, "got") /\ seen' = [seen EXCEPT ![m] = sub]
       \/ Fault /\ To({m}, "lost") /\ seen' = seen
    /\ UNCHANGED <<sub, batch, posts, sends, process, unhandled>>

----------------------------------------------------------------------------
(* Sending. *)

\* Where a message is when deliverSingle has handed it over.
Handed(row) == IF row.type = "webhook" THEN "posting" ELSE "sent"

\* deliverSingle: a request to the webhook, or an event that is handed over at
\* once to the connection, whether or not it is still open.  The messages of rest
\* stay in the queue.
DeliverSingle(row, ms, rest, by) ==
    /\ sends' = [m \in Messages |-> IF m \in In(ms) THEN sends[m] + 1 ELSE sends[m]]
    /\ stage' = [m \in Messages |->
                   CASE m \in In(ms)               -> Handed(row)
                     [] m \in In(rest) \ In(ms)    -> "queued"
                     [] OTHER                      -> stage[m]]
    /\ posts' = IF row.type = "webhook"
                THEN posts \cup {[msgs |-> In(ms), by |-> by, pc |-> "post"]}
                ELSE posts

\* queue.splice(0, batchSize) takes so many.
Taken(q, row) == IF row.size < Len(q) THEN row.size ELSE Len(q)

\* A mutated DeliverBatch, which forgets to take the messages off the queue.
DeliverBatchKept(q, row, by) ==
    /\ queue' = q /\ timer' = Off /\ wait' = wait
    /\ DeliverSingle(row, SubSeq(q, 1, Taken(q, row)), queue', by)

\* deliverBatch on the queue q, which is not empty.
DeliverBatch(q, row, by) ==
    /\ queue' = SubSeq(q, Taken(q, row) + 1, Len(q))
    /\ timer' = Off
    /\ wait' = [m \in Messages |-> IF m \in In(queue') THEN wait[m] ELSE 0]
    /\ DeliverSingle(row, SubSeq(q, 1, Taken(q, row)), queue', by)

\* A mutated AddToBatch, which clears the timer of the batch and sets no new one
\* when there was one.
AddToBatchOnce(m) ==
    LET q == Append(queue, m) IN
    IF Len(q) >= seen[m].size
    THEN DeliverBatch(q, seen[m], "message")
    ELSE /\ queue' = q
         /\ timer' = IF timer.on THEN Off ELSE [on |-> TRUE, left |-> WAIT, row |-> seen[m]]
         /\ To({m}, "queued")
         /\ UNCHANGED <<posts, sends, wait>>

\* addToBatch: a full batch is sent, otherwise the timer starts again.
AddToBatch(m) ==
    LET q == Append(queue, m) IN
    IF Len(q) >= seen[m].size
    THEN DeliverBatch(q, seen[m], "message")
    ELSE /\ queue' = q
         /\ timer' = [on |-> TRUE, left |-> WAIT, row |-> seen[m]]
         /\ To({m}, "queued")
         /\ UNCHANGED <<posts, sends, wait>>

\* deliverMessage goes on with the row it has read.
DeliverMessage(m) ==
    /\ Running /\ stage[m] = "got"
    /\ \/ /\ seen[m].status # "active"
          /\ To({m}, "skipped")
          /\ UNCHANGED <<batch, posts, sends>>
       \/ /\ seen[m].status = "active" /\ seen[m].size > 1
          /\ AddToBatch(m)
       \/ /\ seen[m].status = "active" /\ seen[m].size <= 1
          /\ DeliverSingle(seen[m], <<m>>, <<>>, "message")
          /\ UNCHANGED batch
    /\ UNCHANGED <<sub, seen, process, unhandled, budget>>

TimerFires ==
    /\ Running /\ timer.on /\ timer.left = 0
    /\ IF queue = <<>>
       THEN timer' = Off /\ UNCHANGED <<queue, wait, stage, posts, sends>>
       ELSE DeliverBatch(queue, timer.row, "timer")
    /\ UNCHANGED <<sub, seen, process, unhandled, budget>>

----------------------------------------------------------------------------
(* deliverWebhook: the answer, then updateDeliveryStats, which rejects when *)
(* the database fails or the row is gone.                                   *)

Goto(p, pc) == posts' = (posts \ {p}) \cup {[p EXCEPT !.pc = pc]}

Answered(p) ==
    /\ Running /\ p.pc = "post"
    /\ \/ To(p.msgs, "sent") /\ Goto(p, "delivered")
       \/ To(p.msgs, "failed") /\ Goto(p, "failed")
    /\ UNCHANGED <<sub, seen, batch, sends, process, unhandled, budget>>

\* Whether updateDeliveryStats can do its update.
StatsUpdated(p) == sub.status # "deleted" /\ NoFault /\ posts' = posts \ {p}

StatsRejected == (sub.status = "deleted" /\ NoFault) \/ Fault

\* gracefulShutdown, up to its first await: deliveryService.shutdown drops the batch.
StopDelivery ==
    /\ process' = "stopping"
    /\ queue' = <<>> /\ timer' = Off
    /\ stage' = [m \in Messages |-> IF stage[m] = "queued" THEN "lost" ELSE stage[m]]
    /\ wait' = [m \in Messages |-> 0]

\* The rejection of a call made by the timer's callback has no handler: the process
\* shuts down, and exits at once if it already does.
Unhandled(p) ==
    /\ p.by = "timer" /\ p.pc = "failed"
    /\ posts' = posts \ {p}
    /\ unhandled' = TRUE
    /\ IF process = "up"
       THEN StopDelivery
       ELSE process' = "exited" /\ UNCHANGED <<batch, stage>>

\* A rejection in the try of deliverWebhook leads to its catch, one in that catch to
\* the catch of deliverMessage, and one in that to the catch in distributeMessage.
Caught(p) ==
    /\ \/ p.pc = "delivered" /\ Goto(p, "failed")
       \/ p.by = "message" /\ p.pc = "failed" /\ Goto(p, "catch")
       \/ p.pc = "catch" /\ posts' = posts \ {p}
    /\ UNCHANGED <<process, unhandled, batch, stage>>

UpdateDeliveryStats(p) ==
    /\ Running /\ p.pc # "post"
    /\ \/ StatsUpdated(p) /\ UNCHANGED <<process, unhandled, batch, stage>>
       \/ StatsRejected /\ (Caught(p) \/ Unhandled(p))
    /\ UNCHANGED <<sub, seen, sends>>

----------------------------------------------------------------------------
(* The owner of the subscription, and the process. *)

Change ==
    /\ Running /\ sub.status # "deleted" /\ changes < MaxChanges
    /\ changes' = changes + 1
    /\ UNCHANGED <<stage, seen, batch, posts, sends, process, unhandled, faults>>

Resize(n) ==
    /\ Change
    /\ sub' = [sub EXCEPT !.size = n]
    /\ resizes' = resizes + 1

PauseOrResume ==
    /\ Change
    /\ sub' = [sub EXCEPT !.status = IF @ = "active" THEN "paused" ELSE "active"]
    /\ resizes' = resizes

Delete ==
    /\ Change
    /\ sub' = [sub EXCEPT !.status = "deleted"]
    /\ resizes' = resizes

Shutdown ==
    /\ process = "up"
    /\ StopDelivery
    /\ UNCHANGED <<sub, seen, posts, sends, unhandled, budget>>

\* The shutdown ends, its timeout expires, or a second signal arrives.
Exit ==
    /\ process = "stopping"
    /\ process' = "exited"
    /\ UNCHANGED <<sub, stage, seen, batch, posts, sends, unhandled, budget>>

\* Timers fire on time: time does not pass while one is due.
Tick ==
    /\ Running /\ timer.on /\ timer.left > 0
    /\ timer' = [timer EXCEPT !.left = @ - 1]
    /\ wait' = [m \in Messages |-> IF m \in In(queue) /\ wait[m] <= MaxWait
                                   THEN wait[m] + 1 ELSE wait[m]]
    /\ UNCHANGED <<sub, stage, seen, queue, posts, sends, process, unhandled, budget>>

----------------------------------------------------------------------------

MessageStep(m) == Distribute(m) \/ GetSubscription(m) \/ DeliverMessage(m)

PostStep(p) == Answered(p) \/ UpdateDeliveryStats(p)

Next ==
    \/ \E m \in Messages : Emit(m) \/ MessageStep(m)
    \/ \E p \in posts : PostStep(p)
    \/ TimerFires \/ Tick
    \/ \E n \in Sizes : Resize(n)
    \/ PauseOrResume \/ Delete
    \/ Shutdown \/ Exit

(***************************************************************************)
(* Fairness: database calls and requests are answered (requests have a     *)
(* timeout of 10 s), time passes and timers fire.  Nobody has to publish,  *)
(* to change the subscription or to stop the process.                      *)
(***************************************************************************)
Fairness ==
    /\ \A m \in Messages : WF_vars(MessageStep(m))
    /\ WF_vars(\E p \in posts : PostStep(p))
    /\ WF_vars(TimerFires) /\ WF_vars(Tick)

Spec == Init /\ [][Next]_vars /\ Fairness

----------------------------------------------------------------------------
(* Properties. *)

TypeOK ==
    /\ sub \in Rows
    /\ stage \in [Messages -> Stages]
    /\ seen \in [Messages -> Rows]
    /\ queue \in Seq(Messages)
    /\ timer \in [on : BOOLEAN, left : 0..WAIT, row : Rows]
    /\ posts \subseteq [msgs : SUBSET Messages, by : {"message", "timer"},
                        pc : {"post", "delivered", "failed", "catch"}]
    /\ sends \in [Messages -> Nat]
    /\ wait \in [Messages -> 0..MaxWait + 1]
    /\ process \in {"up", "stopping", "exited"} /\ unhandled \in BOOLEAN
    /\ changes \in 0..MaxChanges /\ resizes \in 0..changes /\ faults \in 0..MaxFaults

\* A message goes out at most once.
SentOnce == \A m \in Messages : sends[m] <= 1

\* Where a message is for its publisher: all that precedes deliverSingle and addToBatch
\* is one stage.
Fate(st) ==
    CASE st \in {"new", "find", "get", "got"} -> "coming"
      [] st = "queued"                        -> "waiting"
      [] st = "posting"                       -> "out"
      [] OTHER                                -> st

\* The requests the webhook has not answered.
Unanswered == {p \in posts : p.pc = "post"}

Batches == INSTANCE AbstractBatches WITH
    Limits <- Sizes \cup {1, BatchSize},
    fate <- [m \in Messages |-> Fate(stage[m])],
    line <- queue,
    requests <- {p.msgs : p \in Unanswered},
    stopped <- process # "up"

\* deliveryService.ts:63: whichever of the full batch, the timer and a batch size that
\* changes in between takes messages off the queue, they leave it from its front, in
\* the order they came, into one request each, a batch that a message completes is
\* full, the messages of a request are settled together by its answer, and only a
\* shutdown loses what is queued.
ImplementsBatches == Batches!Spec

\* A batch that waits has a timer, however the messages, the timer, a pause and a
\* shutdown interleave, as long as nobody changes the batch size.
TimerGuardsQueue == resizes = 0 /\ queue # <<>> => timer.on

\* Every message that is published is eventually sent, refused by the receiver or
\* skipped, unless the batch size changes or the process stops.
EventuallySettled ==
    \A m \in Messages :
        stage[m] = "find" ~> (stage[m] \in Settled \/ resizes > 0 \/ process # "up")

\* Each message that joins a batch starts its timer again. So the partial batch is not
\* delivered within "max 5 seconds", as deliveryService.ts:83 says: a message may wait for
\* as many periods as the batch size less one. It does not wait longer, as long as the
\* batch size is not changed.
WaitBounded == resizes = 0 => \A m \in Messages : wait[m] <= MaxWait
=============================================================================
