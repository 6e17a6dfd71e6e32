------------------------- MODULE FeedDeliveryProofs -------------------------
(***************************************************************************)
(* For every number of messages, batch size, timer length, and any changes *)
(* of the subscription and failures of the database: the types of          *)
(* FeedDelivery, that no message goes out twice, that the delivery service *)
(* implements AbstractBatches, and, as long as the batch size is not       *)
(* changed, that a batch which waits has a timer and how long a message    *)
(* may wait in it.                                                         *)
(***************************************************************************)
EXTENDS FeedDelivery, TLAPS

\* The bound on the waiting time is a number.
LEMMA MaxWaitNat == MaxWait \in Nat
  BY FeedAssumption DEF MaxWait

\* The value of a full update of stage.
LEMMA ToType ==
    ASSUME TypeOK, NEW ms, NEW st \in Stages, To(ms, st)
    PROVE  stage' \in [Messages -> Stages]
  BY DEF TypeOK, To

\* In(s) is a set of messages when s is a sequence of messages.
LEMMA InMessages ==
    ASSUME NEW s \in Seq(Messages)
    PROVE  In(s) \subseteq Messages
  BY DEF In

\* deliverSingle keeps the types of what it changes.
LEMMA DeliverSingleType ==
    ASSUME TypeOK, NEW row \in Rows, NEW ms \in Seq(Messages), NEW rest,
           NEW by \in {"message", "timer"}, DeliverSingle(row, ms, rest, by)
    PROVE  /\ stage' \in [Messages -> Stages]
           /\ sends' \in [Messages -> Nat]
           /\ posts' \subseteq [msgs : SUBSET Messages, by : {"message", "timer"},
                                pc : {"post", "delivered", "failed", "catch"}]
<1>1. In(ms) \subseteq Messages
  BY InMessages
<1>2. stage' \in [Messages -> Stages]
  BY DEF DeliverSingle, Handed, Stages, TypeOK
<1>3. sends' \in [Messages -> Nat]
  BY DEF DeliverSingle, TypeOK
<1>4. [msgs |-> In(ms), by |-> by, pc |-> "post"]
        \in [msgs : SUBSET Messages, by : {"message", "timer"},
             pc : {"post", "delivered", "failed", "catch"}]
  BY <1>1
<1>5. QED
  BY <1>2, <1>3, <1>4 DEF DeliverSingle, TypeOK

\* What deliverBatch takes off a queue, and what it leaves there.
LEMMA TakenSplits ==
    ASSUME NEW q \in Seq(Messages), NEW row \in Rows
    PROVE  /\ Taken(q, row) \in Nat /\ Taken(q, row) <= Len(q)
           /\ SubSeq(q, 1, Taken(q, row)) \in Seq(Messages)
           /\ SubSeq(q, Taken(q, row) + 1, Len(q)) \in Seq(Messages)
           /\ Len(q) <= row.size => SubSeq(q, Taken(q, row) + 1, Len(q)) = <<>>
<1>1. row.size \in Nat
  <2>1. row.size \in Sizes \cup {1, BatchSize}
    BY DEF Rows
  <2>2. Sizes \subseteq Nat /\ BatchSize \in Nat /\ 1 \in Nat
    BY FeedAssumption
  <2>3. QED
    BY <2>1, <2>2, Zenon
<1>2. Len(q) \in Nat /\ Taken(q, row) \in Nat /\ Taken(q, row) <= Len(q)
  BY <1>1 DEF Taken
<1>3. /\ SubSeq(q, 1, Taken(q, row)) \in Seq(Messages)
      /\ SubSeq(q, Taken(q, row) + 1, Len(q)) \in Seq(Messages)
  BY <1>2
<1>4. ASSUME Len(q) <= row.size
      PROVE  SubSeq(q, Taken(q, row) + 1, Len(q)) = <<>>
  BY <1>1, <1>2, <1>4 DEF Taken
<1>5. QED
  BY <1>2, <1>3, <1>4

\* deliverBatch keeps the types of what it changes.
LEMMA DeliverBatchType ==
    ASSUME TypeOK, NEW q \in Seq(Messages), NEW row \in Rows, NEW by \in {"message", "timer"},
           DeliverBatch(q, row, by)
    PROVE  /\ stage' \in [Messages -> Stages]
           /\ sends' \in [Messages -> Nat]
           /\ posts' \subseteq [msgs : SUBSET Messages, by : {"message", "timer"},
                                pc : {"post", "delivered", "failed", "catch"}]
           /\ queue' \in Seq(Messages)
           /\ timer' \in [on : BOOLEAN, left : 0..WAIT, row : Rows]
           /\ wait' \in [Messages -> 0..MaxWait + 1]
<1>1. /\ SubSeq(q, 1, Taken(q, row)) \in Seq(Messages)
      /\ SubSeq(q, Taken(q, row) + 1, Len(q)) \in Seq(Messages)
  BY TakenSplits
<1>2. DeliverSingle(row, SubSeq(q, 1, Taken(q, row)), queue', by)
  BY DEF DeliverBatch
<1>3. queue' \in Seq(Messages)
  BY <1>1 DEF DeliverBatch
<1>4. timer' \in [on : BOOLEAN, left : 0..WAIT, row : Rows]
  BY FeedAssumption DEF DeliverBatch, Off, Deleted, Row, Rows
<1>5. wait' \in [Messages -> 0..MaxWait + 1]
  BY MaxWaitNat DEF DeliverBatch, TypeOK
<1>6. /\ stage' \in [Messages -> Stages]
      /\ sends' \in [Messages -> Nat]
      /\ posts' \subseteq [msgs : SUBSET Messages, by : {"message", "timer"},
                           pc : {"post", "delivered", "failed", "catch"}]
  BY <1>1, <1>2, DeliverSingleType, Zenon
<1>7. QED
  BY <1>3, <1>4, <1>5, <1>6

\* Stopping the delivery service keeps the types.
LEMMA StopDeliveryType ==
    ASSUME TypeOK, StopDelivery
    PROVE  /\ stage' \in [Messages -> Stages]
           /\ queue' \in Seq(Messages)
           /\ timer' \in [on : BOOLEAN, left : 0..WAIT, row : Rows]
           /\ wait' \in [Messages -> 0..MaxWait + 1]
           /\ process' \in {"up", "stopping", "exited"}
  BY FeedAssumption, MaxWaitNat DEF StopDelivery, TypeOK, Off, Deleted, Row, Rows, Stages

----------------------------------------------------------------------------
(* Types. *)

\* The initial state has the types.
LEMMA TypeInit == Init => TypeOK
<1> SUFFICES ASSUME Init
             PROVE  TypeOK
  OBVIOUS
<1>1. sub \in Rows
  BY FeedAssumption DEF Init, Rows, Row
<1>2. Deleted \in Rows
  BY FeedAssumption DEF Deleted, Rows, Row
<1>3. timer \in [on : BOOLEAN, left : 0..WAIT, row : Rows]
  BY <1>2, FeedAssumption DEF Init, Off
<1>4. stage \in [Messages -> Stages] /\ seen \in [Messages -> Rows] /\ queue \in Seq(Messages)
  BY <1>2 DEF Init, Stages
<1>5. sends \in [Messages -> Nat] /\ wait \in [Messages -> 0..MaxWait + 1]
  BY MaxWaitNat DEF Init
<1>6. changes \in 0..MaxChanges /\ resizes \in 0..changes /\ faults \in 0..MaxFaults
  BY FeedAssumption DEF Init
<1>7. QED
  BY <1>1, <1>3, <1>4, <1>5, <1>6 DEF Init, TypeOK

\* The bounded counters under each way of spending them.
LEMMA FaultType ==
    ASSUME TypeOK, Fault \/ NoFault
    PROVE  changes' \in 0..MaxChanges /\ resizes' \in 0..changes' /\ faults' \in 0..MaxFaults
  BY FeedAssumption DEF TypeOK, Fault, NoFault, budget

\* A call of deliverWebhook moves on and keeps its type.
LEMMA GotoType ==
    ASSUME TypeOK, NEW p \in posts, NEW pc \in {"post", "delivered", "failed", "catch"}, Goto(p, pc)
    PROVE  posts' \subseteq [msgs : SUBSET Messages, by : {"message", "timer"},
                            pc : {"post", "delivered", "failed", "catch"}]
  BY DEF TypeOK, Goto

\* Every step keeps the types.
LEMMA TypeNext == TypeOK /\ [Next]_vars => TypeOK'
<1> SUFFICES ASSUME TypeOK, [Next]_vars
             PROVE  TypeOK'
  OBVIOUS
<1> USE DEF batch, budget
<1>1. ASSUME NEW m \in Messages, Emit(m)
      PROVE  TypeOK'
  BY <1>1, ToType DEF Emit, TypeOK, Stages
<1>2. ASSUME NEW m \in Messages, Distribute(m)
      PROVE  TypeOK'
  BY <1>2, ToType, FaultType DEF Distribute, TypeOK, Stages
<1>3. ASSUME NEW m \in Messages, GetSubscription(m)
      PROVE  TypeOK'
  BY <1>3, ToType, FaultType DEF GetSubscription, TypeOK, Stages
<1>4. ASSUME NEW m \in Messages, DeliverMessage(m)
      PROVE  TypeOK'
  <2>1. /\ seen[m] \in Rows /\ Append(queue, m) \in Seq(Messages) /\ <<m>> \in Seq(Messages)
    BY DEF TypeOK
  <2>2. CASE /\ To({m}, "skipped")
             /\ UNCHANGED <<batch, posts, sends>>
    BY <1>4, <2>2, ToType DEF DeliverMessage, TypeOK, Stages
  <2>3. CASE DeliverBatch(Append(queue, m), seen[m], "message")
    BY <1>4, <2>1, <2>3, DeliverBatchType DEF DeliverMessage, TypeOK
  <2>4. CASE /\ queue' = Append(queue, m)
             /\ timer' = [on |-> TRUE, left |-> WAIT, row |-> seen[m]]
             /\ To({m}, "queued")
             /\ UNCHANGED <<posts, sends, wait>>
    <3>1. timer' \in [on : BOOLEAN, left : 0..WAIT, row : Rows]
      BY <2>1, <2>4, FeedAssumption
    <3>2. QED
      BY <1>4, <2>1, <2>4, <3>1, ToType DEF DeliverMessage, TypeOK, Stages
  <2>5. CASE DeliverSingle(seen[m], <<m>>, <<>>, "message") /\ UNCHANGED batch
    BY <1>4, <2>1, <2>5, DeliverSingleType DEF DeliverMessage, TypeOK
  <2>6. QED
    BY <1>4, <2>2, <2>3, <2>4, <2>5 DEF DeliverMessage, AddToBatch
<1>5. ASSUME TimerFires
      PROVE  TypeOK'
  <2>1. CASE queue = <<>>
    <3>1. Off \in [on : BOOLEAN, left : 0..WAIT, row : Rows]
      BY FeedAssumption DEF Off, Deleted, Row, Rows
    <3>2. QED
      BY <1>5, <2>1, <3>1 DEF TimerFires, TypeOK
  <2>2. CASE queue # <<>>
    <3>1. DeliverBatch(queue, timer.row, "timer") /\ timer.row \in Rows /\ queue \in Seq(Messages)
      BY <1>5, <2>2 DEF TimerFires, TypeOK
    <3>2. QED
      BY <1>5, <3>1, DeliverBatchType DEF TimerFires, TypeOK
  <2>3. QED
    BY <2>1, <2>2
<1>6. ASSUME NEW p \in posts, Answered(p)
      PROVE  TypeOK'
  BY <1>6, ToType, GotoType DEF Answered, TypeOK, Stages
<1>7. ASSUME NEW p \in posts, UpdateDeliveryStats(p)
      PROVE  TypeOK'
  <2>1. /\ changes' \in 0..MaxChanges /\ resizes' \in 0..changes' /\ faults' \in 0..MaxFaults
        /\ sub' = sub /\ seen' = seen /\ sends' = sends
    BY <1>7, FaultType DEF UpdateDeliveryStats, StatsUpdated, StatsRejected
  <2>2. posts' \subseteq [msgs : SUBSET Messages, by : {"message", "timer"},
                         pc : {"post", "delivered", "failed", "catch"}]
    <3>1. posts \ {p} \subseteq [msgs : SUBSET Messages, by : {"message", "timer"},
                                 pc : {"post", "delivered", "failed", "catch"}]
      BY DEF TypeOK
    <3>2. QED
      BY <1>7, <3>1, GotoType DEF UpdateDeliveryStats, StatsUpdated, Caught, Unhandled
  <2>3. CASE UNCHANGED <<process, unhandled, batch, stage>>
    BY <2>1, <2>2, <2>3 DEF TypeOK
  <2>4. CASE Unhandled(p)
    <3>1. CASE StopDelivery
      BY <2>1, <2>2, <2>4, <3>1, StopDeliveryType DEF TypeOK, Unhandled
    <3>2. CASE process' = "exited" /\ UNCHANGED <<batch, stage>>
      BY <2>1, <2>2, <2>4, <3>2 DEF TypeOK, Unhandled
    <3>3. QED
      BY <2>4, <3>1, <3>2 DEF Unhandled
  <2>5. QED
    BY <1>7, <2>3, <2>4 DEF UpdateDeliveryStats, Caught
<1>8. ASSUME NEW n \in Sizes, Resize(n)
      PROVE  TypeOK'
  <2>1. sub' \in Rows
    BY <1>8 DEF Resize, TypeOK, Rows
  <2>2. changes' \in 0..MaxChanges /\ resizes' \in 0..changes' /\ faults' \in 0..MaxFaults
    BY <1>8, FeedAssumption DEF Resize, Change, TypeOK
  <2>3. UNCHANGED <<stage, seen, batch, posts, sends, process, unhandled>>
    BY <1>8 DEF Resize, Change
  <2>4. QED
    BY <2>1, <2>2, <2>3 DEF TypeOK
<1>9. ASSUME PauseOrResume \/ Delete
      PROVE  TypeOK'
  <2>1. sub' \in Rows
    BY <1>9 DEF PauseOrResume, Delete, TypeOK, Rows
  <2>2. QED
    BY <1>9, <2>1, FeedAssumption DEF PauseOrResume, Delete, Change, TypeOK
<1>10. ASSUME Shutdown
       PROVE  TypeOK'
  BY <1>10, StopDeliveryType DEF Shutdown, TypeOK
<1>11. ASSUME Exit
       PROVE  TypeOK'
  BY <1>11 DEF Exit, TypeOK
<1>12. ASSUME Tick
       PROVE  TypeOK'
  <2>1. timer' \in [on : BOOLEAN, left : 0..WAIT, row : Rows]
    <3>1. /\ timer.left \in 0..WAIT /\ timer.left > 0 /\ WAIT \in Nat
          /\ timer \in [on : BOOLEAN, left : 0..WAIT, row : Rows]
          /\ timer' = [timer EXCEPT !.left = @ - 1]
      BY <1>12, FeedAssumption DEF Tick, TypeOK
    <3>2. timer.left - 1 \in 0..WAIT
      BY <3>1
    <3>3. QED
      BY <3>1, <3>2
  <2>2. wait' \in [Messages -> 0..MaxWait + 1]
    BY <1>12, MaxWaitNat DEF Tick, TypeOK
  <2>3. QED
    BY <1>12, <2>1, <2>2 DEF Tick, TypeOK
<1>13. ASSUME UNCHANGED vars
       PROVE  TypeOK'
  BY <1>13 DEF vars, TypeOK
<1>14. QED
  BY <1>1, <1>2, <1>3, <1>4, <1>5, <1>6, <1>7, <1>8, <1>9, <1>10, <1>11, <1>12, <1>13
     DEF Next, MessageStep, PostStep

\* The subscription, the batch, its timer and the requests keep their types: in
\* particular a timer never holds a row that was not a subscription.
THEOREM TypeCorrect == Spec => []TypeOK
<1>1. QED
  BY TypeInit, TypeNext, PTL DEF Spec

----------------------------------------------------------------------------
(* The batch and its timer. *)

\* Until the batch size is changed, every copy of the subscription that a call or
\* the timer holds has the size the batch is filled to, the batch is not full
\* between two steps, and it has a timer.
BatchInv ==
    /\ sub.size = BatchSize
    /\ \A m \in Messages : stage[m] = "got" => seen[m].size = BatchSize
    /\ timer.on => timer.row.size = BatchSize
    /\ queue # <<>> => timer.on /\ Len(queue) < BatchSize

\* The inductive invariant.
GuardInv == TypeOK /\ (resizes = 0 => BatchInv)

\* Messages only come to the stage "got" by reading the row.
LEMMA ToGot ==
    ASSUME BatchInv, NEW ms, NEW st, st # "got", To(ms, st), seen' = seen
    PROVE  \A m \in Messages : stage'[m] = "got" => seen'[m].size = BatchSize
  BY DEF BatchInv, To

\* deliverSingle brings no message to the stage "got".
LEMMA SingleGot ==
    ASSUME BatchInv, NEW row, NEW ms, NEW rest, NEW by, DeliverSingle(row, ms, rest, by),
           seen' = seen
    PROVE  \A m \in Messages : stage'[m] = "got" => seen'[m].size = BatchSize
  BY DEF BatchInv, DeliverSingle, Handed

\* After deliverBatch on a queue that is at most full nothing is left to guard.
LEMMA DeliverBatchEmpties ==
    ASSUME TypeOK, BatchInv, NEW q \in Seq(Messages), NEW row \in Rows, NEW by,
           DeliverBatch(q, row, by), row.size = BatchSize, Len(q) <= BatchSize,
           sub' = sub, seen' = seen
    PROVE  BatchInv'
<1>1. queue' = <<>>
  BY TakenSplits DEF DeliverBatch
<1>2. timer' = Off
  BY DEF DeliverBatch
<1>3. \A m \in Messages : stage'[m] = "got" => seen'[m].size = BatchSize
  BY SingleGot DEF DeliverBatch
<1>4. QED
  BY <1>1, <1>2, <1>3 DEF BatchInv, Off

\* Every step keeps the inductive invariant.
LEMMA GuardNext == GuardInv /\ [Next]_vars => GuardInv'
<1> SUFFICES ASSUME TypeOK, resizes = 0 => BatchInv, [Next]_vars, resizes' = 0
             PROVE  BatchInv'
  BY TypeNext DEF GuardInv
<1> USE DEF batch, budget
<1>0. resizes = 0 /\ BatchInv
  <2>1. resizes' = resizes \/ resizes' = resizes + 1
    BY DEF Next, MessageStep, PostStep, Emit, Distribute, GetSubscription, DeliverMessage,
           Fault, NoFault, TimerFires, Answered, UpdateDeliveryStats, StatsUpdated,
           StatsRejected, Resize, PauseOrResume, Delete, Shutdown, Exit, Tick, vars
  <2>2. QED
    BY <2>1, FeedAssumption DEF TypeOK
<1>1. ASSUME NEW m \in Messages, Emit(m) \/ Distribute(m)
      PROVE  BatchInv'
  <2>1. \A x \in Messages : stage'[x] = "got" => seen'[x].size = BatchSize
    BY <1>0, <1>1, ToGot DEF Emit, Distribute
  <2>2. UNCHANGED <<sub, batch>>
    BY <1>1 DEF Emit, Distribute
  <2>3. QED
    BY <1>0, <2>1, <2>2 DEF BatchInv
<1>2. ASSUME NEW m \in Messages, GetSubscription(m)
      PROVE  BatchInv'
  <2>1. \A x \in Messages : stage'[x] = "got" => seen'[x].size = BatchSize
    BY <1>0, <1>2 DEF GetSubscription, To, BatchInv, TypeOK
  <2>2. QED
    BY <1>0, <1>2, <2>1 DEF GetSubscription, BatchInv
<1>3. ASSUME NEW m \in Messages, DeliverMessage(m)
      PROVE  BatchInv'
  <2>1. /\ seen[m] \in Rows /\ seen[m].size = BatchSize /\ queue \in Seq(Messages)
        /\ sub' = sub /\ seen' = seen
    BY <1>0, <1>3 DEF DeliverMessage, BatchInv, TypeOK
  <2>2. CASE (To({m}, "skipped") \/ DeliverSingle(seen[m], <<m>>, <<>>, "message")) /\ UNCHANGED batch
    <3>1. \A x \in Messages : stage'[x] = "got" => seen'[x].size = BatchSize
      BY <1>0, <2>1, <2>2, ToGot, SingleGot
    <3>2. QED
      BY <1>0, <2>1, <2>2, <3>1 DEF BatchInv
  <2>3. CASE seen[m].size > 1 /\ AddToBatch(m)
    <3>1. /\ Append(queue, m) \in Seq(Messages) /\ Len(Append(queue, m)) = Len(queue) + 1
          /\ Len(queue) < BatchSize
      BY <1>0, <2>1, <2>3, FeedAssumption DEF BatchInv
    <3>2. CASE DeliverBatch(Append(queue, m), seen[m], "message")
      <4>1. Len(Append(queue, m)) <= BatchSize
        BY <2>1, <3>1, FeedAssumption
      <4>2. QED
        BY <1>0, <2>1, <3>1, <3>2, <4>1, DeliverBatchEmpties
    <3>3. CASE /\ Len(Append(queue, m)) < BatchSize
               /\ queue' = Append(queue, m)
               /\ timer' = [on |-> TRUE, left |-> WAIT, row |-> seen[m]]
               /\ To({m}, "queued")
      <4>1. \A x \in Messages : stage'[x] = "got" => seen'[x].size = BatchSize
        BY <1>0, <2>1, <3>3, ToGot
      <4>2. QED
        BY <1>0, <2>1, <3>3, <4>1 DEF BatchInv
    <3>4. QED
      BY <2>1, <2>3, <3>1, <3>2, <3>3, FeedAssumption DEF AddToBatch
  <2>4. QED
    BY <1>3, <2>2, <2>3 DEF DeliverMessage
<1>4. ASSUME TimerFires
      PROVE  BatchInv'
  <2>1. CASE queue = <<>>
    BY <1>0, <1>4, <2>1 DEF TimerFires, BatchInv, Off
  <2>2. CASE queue # <<>>
    <3>1. /\ DeliverBatch(queue, timer.row, "timer") /\ timer.row \in Rows
          /\ queue \in Seq(Messages) /\ timer.row.size = BatchSize /\ Len(queue) < BatchSize
          /\ sub' = sub /\ seen' = seen
      BY <1>0, <1>4, <2>2 DEF TimerFires, BatchInv, TypeOK
    <3>2. QED
      BY <1>0, <3>1, DeliverBatchEmpties, FeedAssumption
  <2>3. QED
    BY <2>1, <2>2
<1>5. ASSUME NEW p \in posts, Answered(p)
      PROVE  BatchInv'
  <2>1. \A x \in Messages : stage'[x] = "got" => seen'[x].size = BatchSize
    BY <1>0, <1>5, ToGot DEF Answered
  <2>2. QED
    BY <1>0, <1>5, <2>1 DEF Answered, BatchInv
<1>6. ASSUME StopDelivery, sub' = sub, seen' = seen
      PROVE  BatchInv'
  BY <1>0, <1>6 DEF StopDelivery, BatchInv, Off, TypeOK
<1>7. ASSUME NEW p \in posts, UpdateDeliveryStats(p)
      PROVE  BatchInv'
  <2>1. CASE UNCHANGED <<batch, stage>>
    BY <1>0, <1>7, <2>1 DEF UpdateDeliveryStats, BatchInv
  <2>2. CASE StopDelivery
    BY <1>6, <1>7, <2>2 DEF UpdateDeliveryStats
  <2>3. QED
    BY <1>7, <2>1, <2>2 DEF UpdateDeliveryStats, Caught, Unhandled
<1>8. ASSUME NEW n \in Sizes, Resize(n)
      PROVE  FALSE
  BY <1>0, <1>8 DEF Resize
<1>9. ASSUME PauseOrResume \/ Delete
      PROVE  BatchInv'
  <2>1. sub'.size = sub.size /\ UNCHANGED <<stage, seen, batch>>
    BY <1>9 DEF PauseOrResume, Delete, Change, TypeOK, Rows
  <2>2. QED
    BY <1>0, <2>1 DEF BatchInv
<1>10. ASSUME Shutdown
       PROVE  BatchInv'
  BY <1>6, <1>10 DEF Shutdown
<1>11. ASSUME Exit \/ UNCHANGED vars
       PROVE  BatchInv'
  BY <1>0, <1>11 DEF Exit, vars, BatchInv
<1>12. ASSUME Tick
       PROVE  BatchInv'
  <2>1. timer'.on = timer.on /\ timer'.row = timer.row /\ UNCHANGED <<sub, stage, seen, queue>>
    BY <1>12 DEF Tick, TypeOK
  <2>2. QED
    BY <1>0, <2>1 DEF BatchInv
<1>13. QED
  BY <1>1, <1>2, <1>3, <1>4, <1>5, <1>7, <1>8, <1>9, <1>10, <1>11, <1>12
     DEF Next, MessageStep, PostStep

\* A batch that waits has a timer, for every batch size and any interleaving of
\* messages, timer, pauses, deletion, failures and shutdown.
THEOREM Guarded == Spec => []TimerGuardsQueue
<1>1. Init => GuardInv
  <2>1. ASSUME Init
        PROVE  BatchInv
    BY <2>1 DEF Init, BatchInv, Off, Row
  <2>2. QED
    BY <2>1, TypeInit DEF GuardInv
<1>2. GuardInv => TimerGuardsQueue
  BY DEF GuardInv, BatchInv, TimerGuardsQueue
<1>3. QED
  BY <1>1, <1>2, GuardNext, PTL DEF Spec
----------------------------------------------------------------------------
(* A message goes out at most once. *)

\* The stages of a message that deliverSingle has handed over.
Out == {"posting", "sent", "failed"}

\* A message has one place: once in the queue, or out, and only when it goes out
\* does it count as sent.
PlaceInv ==
    /\ \A i, j \in 1..Len(queue) : queue[i] = queue[j] => i = j
    /\ \A i \in 1..Len(queue) : stage[queue[i]] = "queued"
    /\ \A p \in posts : \A m \in p.msgs : stage[m] \in Out
    /\ \A m \in Messages : sends[m] = IF stage[m] \in Out THEN 1 ELSE 0

\* The two halves into which deliverBatch splits a queue without duplicates share no
\* message, and neither has a duplicate.
LEMMA HalvesDisjoint ==
    ASSUME NEW q \in Seq(Messages), NEW row \in Rows,
           \A i, j \in 1..Len(q) : q[i] = q[j] => i = j
    PROVE  LET ms   == SubSeq(q, 1, Taken(q, row))
               rest == SubSeq(q, Taken(q, row) + 1, Len(q))
           IN  /\ \A i, j \in 1..Len(rest) : rest[i] = rest[j] => i = j
               /\ \A i \in 1..Len(rest) : rest[i] \in In(q) /\ rest[i] \notin In(ms)
               /\ \A m \in In(ms) : m \in In(q)
<1> DEFINE k == Taken(q, row)
           ms == SubSeq(q, 1, k)
           rest == SubSeq(q, k + 1, Len(q))
<1>1. k \in Nat /\ Len(q) \in Nat /\ k <= Len(q)
  BY TakenSplits
<1> HIDE DEF k
<1>2. /\ Len(ms) = k /\ \A i \in 1..k : ms[i] = q[i]
      /\ ms \in Seq(Messages)
  BY <1>1
<1>3. /\ Len(rest) = Len(q) - k /\ \A i \in 1..(Len(q) - k) : rest[i] = q[i + k]
      /\ rest \in Seq(Messages)
  BY <1>1
<1>4. In(ms) = {q[i] : i \in 1..k} /\ In(q) = {q[i] : i \in 1..Len(q)}
  BY <1>2 DEF In
<1> HIDE DEF ms, rest
<1>5. \A i, j \in 1..Len(rest) : rest[i] = rest[j] => i = j
  <2>1. SUFFICES ASSUME NEW i \in 1..Len(rest), NEW j \in 1..Len(rest), rest[i] = rest[j]
                 PROVE  i = j
    OBVIOUS
  <2>2. q[i + k] = q[j + k] /\ i + k \in 1..Len(q) /\ j + k \in 1..Len(q)
    BY <1>1, <1>3, <2>1
  <2>3. i + k = j + k
    BY <2>2
  <2>4. QED
    BY <1>1, <1>3, <2>3
<1>6. ASSUME NEW i \in 1..Len(rest)
      PROVE  rest[i] \in In(q) /\ rest[i] \notin In(ms)
  <2>1. rest[i] = q[i + k] /\ i + k \in 1..Len(q) /\ i + k > k
    BY <1>1, <1>3
  <2>2. \A j \in 1..k : j \in 1..Len(q) /\ j # i + k
    BY <1>1, <1>3
  <2>3. \A j \in 1..k : q[j] # rest[i]
    BY <2>1, <2>2
  <2>4. QED
    BY <1>4, <2>1, <2>3
<1>7. \A m \in In(ms) : m \in In(q)
  BY <1>1, <1>4
<1>8. QED
  BY <1>5, <1>6, <1>7 DEF k, ms, rest

\* deliverSingle on messages that were not out, which leaves the queue it is given.
LEMMA SinglePlaces ==
    ASSUME TypeOK, PlaceInv, NEW row, NEW ms \in Seq(Messages), NEW by,
           DeliverSingle(row, ms, queue', by),
           queue' \in Seq(Messages),
           \A m \in In(ms) : stage[m] \notin Out,
           \A i, j \in 1..Len(queue') : queue'[i] = queue'[j] => i = j,
           \A i \in 1..Len(queue') : queue'[i] \notin In(ms) /\ stage[queue'[i]] \notin Out
    PROVE  PlaceInv'
<1>1. In(ms) \subseteq Messages /\ In(queue') = {queue'[i] : i \in 1..Len(queue')}
  BY InMessages DEF In
<1>2. \A m \in Messages :
        stage'[m] = CASE m \in In(ms)                  -> Handed(row)
                      [] m \in In(queue') \ In(ms)    -> "queued"
                      [] OTHER                         -> stage[m]
  BY DEF DeliverSingle
<1>3. Handed(row) \in Out
  BY DEF Handed, Out
<1>4. \A i \in 1..Len(queue') : stage'[queue'[i]] = "queued"
  <2>1. \A i \in 1..Len(queue') : queue'[i] \in Messages /\ queue'[i] \in In(queue') \ In(ms)
    BY <1>1
  <2>2. QED
    BY <1>2, <2>1
<1>5. \A m \in In(queue') : m \notin In(ms) /\ stage[m] \notin Out
  BY <1>1
<1>6. \A m \in Messages : stage'[m] \in Out <=> m \in In(ms) \/ stage[m] \in Out
  BY <1>2, <1>3, <1>5 DEF Out
<1>7. \A p \in posts' : \A m \in p.msgs : stage'[m] \in Out
  <2>1. \A p \in posts : \A m \in p.msgs : m \in Messages /\ stage[m] \in Out
    BY DEF PlaceInv, TypeOK
  <2>2. posts' \subseteq posts \cup {[msgs |-> In(ms), by |-> by, pc |-> "post"]}
    BY DEF DeliverSingle
  <2>3. QED
    BY <1>1, <1>6, <2>1, <2>2
<1>8. \A m \in Messages : sends'[m] = IF stage'[m] \in Out THEN 1 ELSE 0
  <2>1. \A m \in Messages : sends'[m] = IF m \in In(ms) THEN sends[m] + 1 ELSE sends[m]
    BY DEF DeliverSingle
  <2>2. \A m \in Messages : sends[m] = IF stage[m] \in Out THEN 1 ELSE 0
    BY DEF PlaceInv
  <2>3. QED
    BY <1>6, <2>1, <2>2
<1>9. QED
  BY <1>4, <1>7, <1>8 DEF PlaceInv

\* deliverBatch on a queue without duplicates, none of whose messages is out.
LEMMA BatchPlaces ==
    ASSUME TypeOK, PlaceInv, NEW q \in Seq(Messages), NEW row \in Rows, NEW by,
           DeliverBatch(q, row, by),
           \A i, j \in 1..Len(q) : q[i] = q[j] => i = j,
           \A m \in In(q) : stage[m] \notin Out
    PROVE  PlaceInv'
<1> DEFINE ms == SubSeq(q, 1, Taken(q, row))
           rest == SubSeq(q, Taken(q, row) + 1, Len(q))
<1>1. queue' = rest /\ DeliverSingle(row, ms, queue', by)
  BY DEF DeliverBatch
<1>2. ms \in Seq(Messages) /\ rest \in Seq(Messages)
  BY TakenSplits
<1>3. /\ \A i, j \in 1..Len(rest) : rest[i] = rest[j] => i = j
      /\ \A i \in 1..Len(rest) : rest[i] \in In(q) /\ rest[i] \notin In(ms)
      /\ \A m \in In(ms) : m \in In(q)
  BY HalvesDisjoint
<1> HIDE DEF ms, rest
<1>4. /\ \A i, j \in 1..Len(queue') : queue'[i] = queue'[j] => i = j
      /\ \A i \in 1..Len(queue') : queue'[i] \notin In(ms) /\ stage[queue'[i]] \notin Out
      /\ \A m \in In(ms) : stage[m] \notin Out
  BY <1>1, <1>3
<1>5. QED
  BY <1>1, <1>2, <1>4, SinglePlaces

\* A message whose stage changes, and that is neither queued nor out before, keeps
\* every place when it does not go out.
LEMMA MovePlaces ==
    ASSUME TypeOK, PlaceInv, NEW m \in Messages, NEW st, To({m}, st), st \notin Out,
           stage[m] \notin Out, stage[m] # "queued", UNCHANGED <<queue, posts, sends>>
    PROVE  PlaceInv'
<1>1. \A x \in Messages : x # m => stage'[x] = stage[x]
  BY DEF To
<1>2. stage'[m] = st
  BY DEF To
<1>3. \A i \in 1..Len(queue) : queue[i] \in Messages /\ queue[i] # m
  BY DEF PlaceInv, TypeOK
<1>4. \A p \in posts : \A x \in p.msgs : x \in Messages /\ x # m
  BY DEF PlaceInv, TypeOK
<1>5. QED
  BY <1>1, <1>2, <1>3, <1>4 DEF PlaceInv

\* Every step keeps the places.
LEMMA PlaceNext == TypeOK /\ PlaceInv /\ [Next]_vars => PlaceInv'
<1> SUFFICES ASSUME TypeOK, PlaceInv, [Next]_vars
             PROVE  PlaceInv'
  OBVIOUS
<1> USE DEF batch, budget
<1>1. ASSUME NEW m \in Messages, Emit(m) \/ Distribute(m) \/ GetSubscription(m)
      PROVE  PlaceInv'
  <2>1. /\ stage[m] \in {"new", "find", "get"}
        /\ \E st \in {"find", "get", "skipped", "lost", "got"} : To({m}, st)
        /\ UNCHANGED <<queue, posts, sends>>
    BY <1>1 DEF Emit, Distribute, GetSubscription
  <2>2. QED
    BY <2>1, MovePlaces DEF Out
<1>2. ASSUME NEW m \in Messages, DeliverMessage(m)
      PROVE  PlaceInv'
  <2>1. /\ stage[m] = "got" /\ "got" \notin Out /\ "queued" \notin Out /\ "skipped" \notin Out
        /\ seen[m] \in Rows /\ queue \in Seq(Messages)
    BY <1>2 DEF DeliverMessage, TypeOK, Out
  <2>2. CASE To({m}, "skipped") /\ UNCHANGED <<batch, posts, sends>>
    BY <2>1, <2>2, MovePlaces
  <2>3. CASE DeliverSingle(seen[m], <<m>>, <<>>, "message") /\ UNCHANGED batch
    <3>1. In(<<m>>) = {m} /\ In(<<>>) = {}
      BY DEF In
    <3>2. \A x \in Messages : stage'[x] = IF x = m THEN Handed(seen[m]) ELSE stage[x]
      BY <2>3, <3>1 DEF DeliverSingle
    <3>3. Handed(seen[m]) \in Out
      BY DEF Handed, Out
    <3>4. \A i \in 1..Len(queue) : queue[i] \in Messages /\ queue[i] # m
      BY <2>1 DEF PlaceInv
    <3>5. \A p \in posts' : \A x \in p.msgs : stage'[x] \in Out
      <4>1. posts' \subseteq posts \cup {[msgs |-> {m}, by |-> "message", pc |-> "post"]}
        BY <2>3, <3>1 DEF DeliverSingle
      <4>2. \A p \in posts : \A x \in p.msgs : x \in Messages /\ stage[x] \in Out
        BY DEF PlaceInv, TypeOK
      <4>3. QED
        BY <3>2, <3>3, <4>1, <4>2
    <3>6. \A x \in Messages : sends'[x] = IF x = m THEN sends[x] + 1 ELSE sends[x]
      BY <2>3, <3>1 DEF DeliverSingle
    <3>7. QED
      BY <2>1, <2>3, <3>2, <3>3, <3>4, <3>5, <3>6 DEF PlaceInv
  <2>4. CASE AddToBatch(m)
    <3> DEFINE q == Append(queue, m)
    <3>1. /\ q \in Seq(Messages) /\ Len(q) = Len(queue) + 1 /\ q[Len(queue) + 1] = m
          /\ Len(queue) \in Nat /\ \A i \in 1..Len(queue) : q[i] = queue[i]
      BY <2>1
    <3> HIDE DEF q
    <3>2. \A i \in 1..Len(queue) : queue[i] \in Messages /\ queue[i] # m
      BY <2>1 DEF PlaceInv
    <3>3. \A i, j \in 1..Len(q) : q[i] = q[j] => i = j
      <4>1. \A i \in 1..Len(q) : i \in 1..Len(queue) \/ i = Len(queue) + 1
        BY <3>1
      <4>2. \A i, j \in 1..Len(queue) : queue[i] = queue[j] => i = j
        BY DEF PlaceInv
      <4>3. QED
        BY <3>1, <3>2, <4>1, <4>2
    <3>4. \A i \in 1..Len(q) : q[i] \in Messages /\ stage[q[i]] \in {"queued", "got"}
      BY <2>1, <3>1 DEF PlaceInv
    <3>5. CASE DeliverBatch(q, seen[m], "message")
      <4>1. \A x \in In(q) : stage[x] \notin Out
        BY <3>1, <3>4 DEF In, Out
      <4>2. QED
        BY <2>1, <3>1, <3>3, <3>5, <4>1, BatchPlaces
    <3>6. CASE queue' = q /\ To({m}, "queued") /\ UNCHANGED <<posts, sends>>
      <4>1. \A x \in Messages : stage'[x] = IF x = m THEN "queued" ELSE stage[x]
        BY <3>6 DEF To
      <4>2. \A i \in 1..Len(q) : stage'[q[i]] = "queued"
        <5>1. \A i \in 1..Len(q) : i \in 1..Len(queue) \/ q[i] = m
          BY <3>1
        <5>2. \A i \in 1..Len(queue) : stage[q[i]] = "queued"
          BY <3>1 DEF PlaceInv
        <5>3. QED
          BY <3>4, <4>1, <5>1, <5>2
      <4>3. \A p \in posts : \A x \in p.msgs : x \in Messages /\ stage[x] \in Out
        BY DEF PlaceInv, TypeOK
      <4>4. \A x \in Messages : stage'[x] \in Out <=> stage[x] \in Out
        BY <2>1, <4>1
      <4>5. QED
        BY <3>3, <3>6, <4>2, <4>3, <4>4 DEF PlaceInv
    <3>7. QED
      BY <2>4, <3>5, <3>6 DEF AddToBatch, q
  <2>5. QED
    BY <1>2, <2>2, <2>3, <2>4 DEF DeliverMessage
<1>3. ASSUME TimerFires
      PROVE  PlaceInv'
  <2>1. CASE queue = <<>>
    BY <1>3, <2>1 DEF TimerFires, PlaceInv
  <2>2. CASE queue # <<>>
    <3>1. /\ DeliverBatch(queue, timer.row, "timer") /\ timer.row \in Rows
          /\ queue \in Seq(Messages)
      BY <1>3, <2>2 DEF TimerFires, TypeOK
    <3>2. \A x \in In(queue) : stage[x] \notin Out
      BY <3>1 DEF PlaceInv, In, Out
    <3>3. \A i, j \in 1..Len(queue) : queue[i] = queue[j] => i = j
      BY DEF PlaceInv
    <3>4. QED
      BY <3>1, <3>2, <3>3, BatchPlaces
  <2>3. QED
    BY <2>1, <2>2
<1>4. ASSUME NEW p \in posts, NEW pc, Goto(p, pc) \/ posts' = posts \ {p}
      PROVE  \A x \in posts' : \E y \in posts : x.msgs = y.msgs
  BY <1>4 DEF Goto, TypeOK
<1>5. ASSUME NEW p \in posts, Answered(p)
      PROVE  PlaceInv'
  <2>1. PICK st \in {"sent", "failed"} : To(p.msgs, st)
    BY <1>5 DEF Answered
  <2>2. \A x \in posts' : \E y \in posts : x.msgs = y.msgs
    BY <1>4, <1>5 DEF Answered
  <2>3. \A y \in posts : \A m \in y.msgs : m \in Messages /\ stage[m] \in Out
    BY DEF PlaceInv, TypeOK
  <2>4. st \in Out /\ "queued" \notin Out
    BY DEF Out
  <2>5. \A m \in Messages : /\ stage'[m] \in Out <=> stage[m] \in Out
                            /\ stage[m] = "queued" => stage'[m] = "queued"
    BY <2>1, <2>3, <2>4 DEF To
  <2>6. \A i \in 1..Len(queue) : queue[i] \in Messages
    BY DEF TypeOK
  <2>7. UNCHANGED <<queue, sends>>
    BY <1>5 DEF Answered
  <2>8. QED
    BY <2>2, <2>3, <2>5, <2>6, <2>7 DEF PlaceInv
<1>6. ASSUME StopDelivery, sends' = sends,
             \A x \in posts' : \E y \in posts : x.msgs = y.msgs
      PROVE  PlaceInv'
  <2>1. \A m \in Messages : stage'[m] \in Out <=> stage[m] \in Out
    BY <1>6 DEF StopDelivery, Out
  <2>2. \A y \in posts : \A m \in y.msgs : m \in Messages /\ stage[m] \in Out
    BY DEF PlaceInv, TypeOK
  <2>3. queue' = <<>>
    BY <1>6 DEF StopDelivery
  <2>4. QED
    BY <1>6, <2>1, <2>2, <2>3 DEF PlaceInv
<1>7. ASSUME NEW p \in posts, UpdateDeliveryStats(p)
      PROVE  PlaceInv'
  <2>1. \A x \in posts' : \E y \in posts : x.msgs = y.msgs
    BY <1>4, <1>7 DEF UpdateDeliveryStats, StatsUpdated, Caught, Unhandled
  <2>2. sends' = sends
    BY <1>7 DEF UpdateDeliveryStats
  <2>3. CASE UNCHANGED <<batch, stage>>
    BY <2>1, <2>2, <2>3 DEF PlaceInv
  <2>4. CASE StopDelivery
    BY <1>6, <2>1, <2>2, <2>4
  <2>5. QED
    BY <1>7, <2>3, <2>4 DEF UpdateDeliveryStats, Caught, Unhandled
<1>8. ASSUME Shutdown
      PROVE  PlaceInv'
  BY <1>6, <1>8 DEF Shutdown
<1>9. ASSUME UNCHANGED <<queue, stage, posts, sends>>
      PROVE  PlaceInv'
  BY <1>9 DEF PlaceInv
<1>10. (\E n \in Sizes : Resize(n)) \/ PauseOrResume \/ Delete \/ Exit \/ Tick \/ UNCHANGED vars
         => UNCHANGED <<queue, stage, posts, sends>>
  BY DEF Resize, PauseOrResume, Delete, Change, Exit, Tick, vars
<1>11. QED
  BY <1>1, <1>2, <1>3, <1>5, <1>7, <1>8, <1>9, <1>10 DEF Next, MessageStep, PostStep

\* No message goes out twice, for every batch size, any changes of it, and any
\* interleaving of full batches, timers, failures and shutdown.
THEOREM AtMostOnce == Spec => []SentOnce
<1>1. Init => PlaceInv
  BY DEF Init, PlaceInv, Out
<1>2. PlaceInv => SentOnce
  BY DEF PlaceInv, SentOnce
<1>3. QED
  BY <1>1, <1>2, TypeInit, TypeNext, PlaceNext, PTL DEF Spec

----------------------------------------------------------------------------
(* The abstract batches. *)

\* A request has messages, which no other request has; until its answer comes they
\* are where its sending has put them.
PostInv ==
    /\ \A p \in posts : p.msgs # {}
    /\ \A p \in posts : p.pc = "post" => \A m \in p.msgs : stage[m] = "posting"
    /\ \A p, r \in posts : p # r => p.msgs \cap r.msgs = {}

\* The stages before a message is queued or handed over.
Coming == {"new", "find", "get", "got"}

LEMMA Fates ==
    /\ \A st \in Coming : Fate(st) = "coming"
    /\ \A st \in {"sent", "failed", "skipped", "lost"} : Fate(st) = st
    /\ Fate("queued") = "waiting" /\ Fate("posting") = "out"
    /\ \A st \in Stages : Fate(st) = "waiting" => st = "queued"
  BY DEF Fate, Coming, Stages

\* Requests keep their messages as long as those that are out stay where they are.
LEMMA PostsKept ==
    ASSUME TypeOK, PlaceInv, PostInv, posts' = posts,
           \A m \in Messages : stage[m] \in Out => stage'[m] = stage[m]
    PROVE  PostInv'
<1>1. \A p \in posts : \A m \in p.msgs : m \in Messages /\ stage[m] \in Out
  BY DEF PlaceInv, TypeOK
<1>2. QED
  BY <1>1 DEF PostInv

\* A new request has messages that were not out.
LEMMA PostsGrow ==
    ASSUME TypeOK, PlaceInv, PostInv, NEW S \in SUBSET Messages, NEW by, S # {},
           posts' = posts \cup {[msgs |-> S, by |-> by, pc |-> "post"]},
           \A m \in S : stage[m] \notin Out /\ stage'[m] = "posting",
           \A m \in Messages : stage[m] \in Out => stage'[m] = stage[m]
    PROVE  PostInv'
<1> DEFINE new == [msgs |-> S, by |-> by, pc |-> "post"]
<1>1. \A p \in posts : \A m \in p.msgs : m \in Messages /\ stage[m] \in Out
  BY DEF PlaceInv, TypeOK
<1>2. \A p \in posts : p.msgs \cap S = {}
  BY <1>1
<1>3. new.msgs = S /\ new.pc = "post"
  OBVIOUS
<1>4. \A p \in posts' : p \in posts \/ p = new
  OBVIOUS
<1> HIDE DEF new
<1>5. \A p \in posts' : /\ p.msgs # {}
                        /\ p.pc = "post" => \A m \in p.msgs : stage'[m] = "posting"
  BY <1>1, <1>3, <1>4 DEF PostInv
<1>6. \A p, r \in posts' : p # r => p.msgs \cap r.msgs = {}
  BY <1>2, <1>3, <1>4 DEF PostInv
<1>7. QED
  BY <1>5, <1>6 DEF PostInv

\* A call of deliverWebhook that moves on, or ends, after its answer has come.
LEMMA PostsMove ==
    ASSUME TypeOK, PlaceInv, PostInv, NEW p \in posts, NEW pc, pc # "post",
           Goto(p, pc) \/ posts' = posts \ {p},
           \A m \in Messages : stage[m] \in Out /\ m \notin p.msgs => stage'[m] = stage[m],
           p.pc # "post" => \A m \in p.msgs : stage'[m] = stage[m]
    PROVE  /\ PostInv'
           /\ {x.msgs : x \in Unanswered'}
                = IF p.pc = "post" THEN {x.msgs : x \in Unanswered} \ {p.msgs}
                                   ELSE {x.msgs : x \in Unanswered}
<1> DEFINE new == [p EXCEPT !.pc = pc]
<1>1. /\ \A x \in posts : \A m \in x.msgs : m \in Messages /\ stage[m] \in Out
      /\ new.msgs = p.msgs /\ new.pc = pc
  BY DEF PlaceInv, TypeOK
<1>2. /\ posts' \subseteq (posts \ {p}) \cup {new}
      /\ posts \ {p} \subseteq posts'
  BY DEF Goto
<1> HIDE DEF new
<1>3. \A x \in posts' : x = new \/ (x \in posts /\ x # p /\ x.msgs \cap p.msgs = {})
  BY <1>2 DEF PostInv
<1>4. \A x \in posts' : /\ x.msgs # {}
                        /\ x.pc = "post" => \A m \in x.msgs : stage'[m] = "posting"
  <2>1. SUFFICES ASSUME NEW x \in posts'
                 PROVE  x.msgs # {} /\ (x.pc = "post" => \A m \in x.msgs : stage'[m] = "posting")
    OBVIOUS
  <2>2. CASE x = new
    BY <1>1, <2>2 DEF PostInv
  <2>3. CASE x \in posts /\ x # p /\ x.msgs \cap p.msgs = {}
    BY <1>1, <2>3 DEF PostInv
  <2>4. QED
    BY <1>3, <2>2, <2>3
<1>5. \A x, r \in posts' : x # r => x.msgs \cap r.msgs = {}
  BY <1>1, <1>3 DEF PostInv
<1>6. Unanswered' = Unanswered \ {p}
  BY <1>1, <1>2, <1>3 DEF Unanswered
<1>7. CASE p.pc = "post"
  <2>1. p \in Unanswered /\ \A x \in Unanswered : x # p => x.msgs # p.msgs
    BY <1>7 DEF Unanswered, PostInv
  <2>2. QED
    BY <1>4, <1>5, <1>6, <1>7, <2>1 DEF PostInv
<1>8. CASE p.pc # "post"
  <2>1. Unanswered' = Unanswered
    BY <1>6, <1>8 DEF Unanswered
  <2>2. QED
    BY <1>4, <1>5, <1>8, <2>1 DEF PostInv
<1>9. QED
  BY <1>7, <1>8

\* A request takes the messages of S and leaves rest in the queue.
HandsOver(row, S, rest, by) ==
    /\ stage' = [m \in Messages |-> CASE m \in S               -> Handed(row)
                                      [] m \in In(rest) \ S    -> "queued"
                                      [] OTHER                 -> stage[m]]
    /\ sends' = [m \in Messages |-> IF m \in S THEN sends[m] + 1 ELSE sends[m]]
    /\ posts' = IF row.type = "webhook"
                THEN posts \cup {[msgs |-> S, by |-> by, pc |-> "post"]} ELSE posts
    /\ queue' = rest /\ process' = process

LEMMA SendImplements ==
    ASSUME TypeOK, NEW row, NEW S \in SUBSET Messages, NEW by, NEW rest \in Seq(Messages),
           HandsOver(row, S, rest, by)
    PROVE  Batches!Send(S, rest)
<1>0. /\ \A m \in Messages : stage'[m] = CASE m \in S               -> Handed(row)
                                           [] m \in In(rest) \ S    -> "queued"
                                           [] OTHER                 -> stage[m]
      /\ sends' = [m \in Messages |-> IF m \in S THEN sends[m] + 1 ELSE sends[m]]
      /\ posts' = IF row.type = "webhook"
                  THEN posts \cup {[msgs |-> S, by |-> by, pc |-> "post"]} ELSE posts
      /\ queue' = rest /\ process' = process
  BY DEF HandsOver
<1> DEFINE f == Fate(Handed(row))
           r == {p.msgs : p \in Unanswered}
<1>1. /\ f = IF row.type = "webhook" THEN "out" ELSE "sent"
      /\ f \in {"out", "sent"}
  BY Fates DEF Handed
<1>2. Batches!Members(rest) = In(rest)
  BY DEF Batches!Members, In
<1>3. [m \in Messages |-> Fate(stage'[m])]
        = [m \in Messages |-> CASE m \in S                              -> f
                                [] m \in Batches!Members(rest) \ S     -> "waiting"
                                [] OTHER                               -> [x \in Messages |-> Fate(stage[x])][m]]
  <2>1. \A m \in Messages : Fate(stage'[m]) = CASE m \in S               -> f
                                                [] m \in In(rest) \ S    -> "waiting"
                                                [] OTHER                 -> Fate(stage[m])
    BY <1>0, Fates
  <2>2. QED
    BY <1>2, <2>1
<1>4. {p.msgs : p \in Unanswered'} = IF f = "out" THEN r \cup {S} ELSE r
  <2>1. CASE row.type = "webhook"
    <3> DEFINE new == [msgs |-> S, by |-> by, pc |-> "post"]
    <3>1. new.msgs = S /\ new.pc = "post" /\ posts' = posts \cup {new}
      BY <1>0, <2>1
    <3> HIDE DEF new
    <3>2. Unanswered' = Unanswered \cup {new}
      BY <3>1 DEF Unanswered
    <3>3. {p.msgs : p \in Unanswered'} = r \cup {S}
      BY <3>1, <3>2
    <3>4. QED
      BY <1>1, <2>1, <3>3
  <2>2. CASE row.type # "webhook"
    BY <1>0, <1>1, <2>2 DEF Unanswered
  <2>3. QED
    BY <2>1, <2>2
<1> HIDE DEF f, r
<1>5. QED
  BY <1>0, <1>1, <1>3, <1>4 DEF Batches!Send, r

\* The sizes that a row read from the database may have.
LEMMA RowSize ==
    ASSUME NEW row \in Rows
    PROVE  row.size \in Sizes \cup {1, BatchSize} /\ row.size \in Nat \ {0}
<1>1. row.size \in Sizes \cup {1, BatchSize}
  BY DEF Rows
<1>2. Sizes \subseteq Nat \ {0} /\ BatchSize \in Nat \ {0} /\ 1 \in Nat \ {0}
  BY FeedAssumption
<1>3. QED
  BY <1>1, <1>2, Zenon

\* deliverBatch sends the front of a queue of different messages, none of them out,
\* and its request is a new one.
LEMMA BatchImplements ==
    ASSUME TypeOK, PlaceInv, PostInv, NEW q \in Seq(Messages), q # <<>>, NEW row \in Rows, NEW by,
           DeliverBatch(q, row, by), process' = process,
           \A i, j \in 1..Len(q) : q[i] = q[j] => i = j,
           \A m \in In(q) : stage[m] \notin Out
    PROVE  /\ PostInv'
           /\ Batches!SendFront(q, Taken(q, row))
<1> DEFINE ms == SubSeq(q, 1, Taken(q, row))
           rest == SubSeq(q, Taken(q, row) + 1, Len(q))
<1>1. queue' = rest /\ DeliverSingle(row, ms, queue', by)
  BY DEF DeliverBatch
<1>2. /\ ms \in Seq(Messages) /\ rest \in Seq(Messages)
      /\ Taken(q, row) \in Nat /\ Taken(q, row) <= Len(q)
  BY TakenSplits
<1>3. /\ \A i \in 1..Len(rest) : rest[i] \in In(q) /\ rest[i] \notin In(ms)
      /\ \A m \in In(ms) : m \in In(q)
  BY HalvesDisjoint
<1>4. In(ms) # {}
  <2>1. Len(q) \in Nat \ {0}
    OBVIOUS
  <2>2. Taken(q, row) \in 1..Len(q)
    BY <1>2, <2>1, RowSize DEF Taken
  <2>3. Len(ms) = Taken(q, row) /\ 1 \in DOMAIN ms
    BY <1>2, <2>2
  <2>4. QED
    BY <2>3 DEF In
<1> HIDE DEF ms, rest
<1>5. In(ms) \in SUBSET Messages /\ \A m \in In(rest) : m \in Messages /\ stage[m] \notin Out
  BY <1>2, <1>3, InMessages DEF In
<1>6. /\ \A m \in Messages : stage'[m] = CASE m \in In(ms)                -> Handed(row)
                                           [] m \in In(rest) \ In(ms)    -> "queued"
                                           [] OTHER                      -> stage[m]
      /\ sends' = [m \in Messages |-> IF m \in In(ms) THEN sends[m] + 1 ELSE sends[m]]
      /\ posts' = IF row.type = "webhook"
                  THEN posts \cup {[msgs |-> In(ms), by |-> by, pc |-> "post"]} ELSE posts
  BY <1>1 DEF DeliverSingle
<1>7. Batches!SendFront(q, Taken(q, row))
  <2>1. HandsOver(row, In(ms), rest, by)
    BY <1>1 DEF HandsOver, DeliverSingle
  <2>2. Batches!Send(In(ms), rest)
    BY <1>2, <1>5, <2>1, SendImplements
  <2>3. Batches!Members(ms) = In(ms)
    BY DEF Batches!Members, In
  <2>4. QED
    BY <2>2, <2>3 DEF Batches!SendFront, ms, rest
<1>8. PostInv'
  <2>1. /\ \A m \in In(ms) : stage[m] \notin Out
        /\ \A m \in Messages : stage[m] \in Out => stage'[m] = stage[m]
    BY <1>3, <1>5, <1>6
  <2>2. CASE row.type = "webhook"
    <3>1. \A m \in In(ms) : stage'[m] = "posting"
      BY <1>5, <1>6, <2>2 DEF Handed
    <3>2. QED
      BY <1>4, <1>5, <1>6, <2>1, <2>2, <3>1, PostsGrow
  <2>3. CASE row.type # "webhook"
    BY <1>6, <2>1, <2>3, PostsKept
  <2>4. QED
    BY <2>2, <2>3
<1>9. QED
  BY <1>7, <1>8

\* A step that AbstractBatches does not see.
LEMMA Unseen ==
    ASSUME UNCHANGED <<queue, sends>>, process' # "up" <=> process # "up",
           {p.msgs : p \in Unanswered'} = {p.msgs : p \in Unanswered},
           \A m \in Messages : Fate(stage'[m]) = Fate(stage[m])
    PROVE  UNCHANGED Batches!vars
  BY DEF Batches!vars

\* A message goes on before deliverMessage, or is dropped there.
LEMMA MoveImplements ==
    ASSUME TypeOK, PlaceInv, PostInv, NEW m \in Messages, stage[m] \in Coming,
           NEW st \in Coming \cup {"skipped", "lost"}, To({m}, st),
           UNCHANGED <<queue, posts, sends, process>>
    PROVE  /\ PostInv'
           /\ Batches!Drop(m) \/ UNCHANGED Batches!vars
<1>1. \A x \in Messages : stage'[x] = IF x = m THEN st ELSE stage[x]
  BY DEF To
<1>2. PostInv'
  <2>1. stage[m] \notin Out
    BY DEF Coming, Out
  <2>2. QED
    BY <1>1, <2>1, PostsKept
<1>3. {p.msgs : p \in Unanswered'} = {p.msgs : p \in Unanswered}
  BY DEF Unanswered
<1>4. Fate(stage[m]) = "coming"
  BY Fates
<1>5. CASE st \in Coming
  <2>1. \A x \in Messages : Fate(stage'[x]) = Fate(stage[x])
    BY <1>1, <1>4, <1>5, Fates
  <2>2. QED
    BY <1>2, <1>3, <2>1, Unseen
<1>6. CASE st \in {"skipped", "lost"}
  <2>1. Fate(st) = st
    BY <1>6, Fates
  <2>2. \A x \in Messages : Fate(stage'[x]) = IF x \in {m} THEN st ELSE Fate(stage[x])
    BY <1>1, <2>1
  <2>3. [x \in Messages |-> Fate(stage'[x])]
          = [x \in Messages |-> IF x \in {m} THEN st ELSE [y \in Messages |-> Fate(stage[y])][x]]
    BY <2>2
  <2>4. Batches!Drop(m)
    BY <1>3, <1>4, <1>6, <2>3 DEF Batches!Drop, Batches!Becomes
  <2>5. QED
    BY <1>2, <2>4
<1>7. QED
  BY <1>5, <1>6

\* A message joins a batch that it does not complete.
LEMMA JoinImplements ==
    ASSUME TypeOK, PlaceInv, PostInv, NEW m \in Messages, stage[m] = "got",
           ~(Len(Append(queue, m)) >= seen[m].size),
           To({m}, "queued"), queue' = Append(queue, m), UNCHANGED <<posts, sends, process>>
    PROVE  PostInv' /\ Batches!Join(m)
<1>1. \A x \in Messages : stage'[x] = IF x = m THEN "queued" ELSE stage[x]
  BY DEF To
<1>2. PostInv'
  BY <1>1, PostsKept DEF Out
<1>3. {p.msgs : p \in Unanswered'} = {p.msgs : p \in Unanswered}
  BY DEF Unanswered
<1>4. Fate(stage[m]) = "coming" /\ Fate("queued") = "waiting"
  BY Fates DEF Coming
<1>5. \A x \in Messages : Fate(stage'[x]) = IF x \in {m} THEN "waiting" ELSE Fate(stage[x])
  BY <1>1, <1>4
<1>6. [x \in Messages |-> Fate(stage'[x])]
        = [x \in Messages |-> IF x \in {m} THEN "waiting" ELSE [y \in Messages |-> Fate(stage[y])][x]]
  BY <1>5
<1>7. \E n \in Sizes \cup {1, BatchSize} : Len(queue) + 1 < n
  <2>1. queue \in Seq(Messages) /\ seen[m] \in Rows
    BY DEF TypeOK
  <2>2. Len(Append(queue, m)) = Len(queue) + 1 /\ Len(queue) \in Nat
    BY <2>1
  <2>3. seen[m].size \in Sizes \cup {1, BatchSize} /\ seen[m].size \in Nat \ {0}
    BY <2>1, RowSize
  <2>4. Len(queue) + 1 < seen[m].size
    BY <2>2, <2>3
  <2>5. QED
    BY <2>3, <2>4
<1>8. QED
  BY <1>2, <1>3, <1>4, <1>6, <1>7 DEF Batches!Join, Batches!Becomes

\* deliverMessage.
LEMMA MessageImplements ==
    ASSUME TypeOK, PlaceInv, PostInv, NEW m \in Messages, DeliverMessage(m)
    PROVE  PostInv' /\ [Batches!Next]_(Batches!vars)
<1> USE DEF batch
<1>1. /\ stage[m] = "got" /\ "got" \in Coming /\ "got" \notin Out
      /\ seen[m] \in Rows /\ queue \in Seq(Messages) /\ process' = process
      /\ Fate(stage[m]) = "coming"
  BY Fates DEF DeliverMessage, TypeOK, Coming, Out
<1>2. CASE To({m}, "skipped") /\ UNCHANGED <<batch, posts, sends>>
  BY <1>1, <1>2, MoveImplements DEF Batches!Next
<1>3. CASE DeliverSingle(seen[m], <<m>>, <<>>, "message") /\ UNCHANGED batch
  <2>1. In(<<m>>) = {m} /\ In(<<>>) = {}
    BY DEF In
  <2>2. \A x \in In(queue) : x \in Messages /\ stage[x] = "queued"
    BY <1>1 DEF PlaceInv, In
  <2>3. \A x \in Messages : stage'[x] = IF x = m THEN Handed(seen[m]) ELSE stage[x]
    BY <1>3, <2>1 DEF DeliverSingle
  <2>4. HandsOver(seen[m], {m}, queue, "message")
    <3>1. stage' = [x \in Messages |-> CASE x \in {m}                -> Handed(seen[m])
                                         [] x \in In(<<>>) \ {m}     -> "queued"
                                         [] OTHER                    -> stage[x]]
      BY <1>3, <2>1 DEF DeliverSingle
    <3>2. stage' = [x \in Messages |-> CASE x \in {m}                -> Handed(seen[m])
                                         [] x \in In(queue) \ {m}    -> "queued"
                                         [] OTHER                    -> stage[x]]
      BY <2>1, <2>2, <3>1
    <3>3. sends' = [x \in Messages |-> IF x \in {m} THEN sends[x] + 1 ELSE sends[x]]
      BY <1>3, <2>1 DEF DeliverSingle
    <3>4. posts' = IF seen[m].type = "webhook"
                   THEN posts \cup {[msgs |-> {m}, by |-> "message", pc |-> "post"]} ELSE posts
      BY <1>3, <2>1 DEF DeliverSingle
    <3>5. queue' = queue /\ process' = process
      BY <1>1, <1>3
    <3>6. QED
      BY <3>2, <3>3, <3>4, <3>5 DEF HandsOver
  <2>5. Batches!SendAlone(m)
    <3>1. Batches!Send({m}, queue)
      <4>1. {m} \in SUBSET Messages
        OBVIOUS
      <4>2. queue \in Seq(Messages)
        BY <1>1
      <4>3. \A rest \in Seq(Messages) :
               HandsOver(seen[m], {m}, rest, "message") => Batches!Send({m}, rest)
        BY <4>1, SendImplements
      <4>4. QED
        BY <2>4, <4>2, <4>3 DEF Batches!Send
    <3>2. [x \in Messages |-> Fate(stage[x])][m] = "coming"
      BY <1>1
    <3>3. QED
      BY <3>1, <3>2 DEF Batches!SendAlone
  <2>6. PostInv'
    <3>1. \A x \in Messages : stage[x] \in Out => stage'[x] = stage[x]
      BY <1>1, <2>3
    <3>2. CASE seen[m].type = "webhook"
      <4>1. posts' = posts \cup {[msgs |-> {m}, by |-> "message", pc |-> "post"]}
        BY <1>3, <2>1, <3>2 DEF DeliverSingle
      <4>2. stage'[m] = "posting"
        BY <2>3, <3>2 DEF Handed
      <4>3. QED
        BY <1>1, <3>1, <4>1, <4>2, PostsGrow
    <3>3. CASE seen[m].type # "webhook"
      BY <1>3, <3>1, <3>3, PostsKept DEF DeliverSingle
    <3>4. QED
      BY <3>2, <3>3
  <2>7. QED
    BY <2>5, <2>6 DEF Batches!Next
<1>4. CASE AddToBatch(m)
  <2> DEFINE q == Append(queue, m)
  <2>1. /\ q \in Seq(Messages) /\ Len(q) = Len(queue) + 1 /\ q[Len(queue) + 1] = m
        /\ Len(queue) \in Nat /\ \A i \in 1..Len(queue) : q[i] = queue[i]
    BY <1>1
  <2>2. CASE Len(q) >= seen[m].size
    <3>1. DeliverBatch(q, seen[m], "message")
      BY <1>4, <2>2 DEF AddToBatch
    <3> HIDE DEF q
    <3>2. \A i \in 1..Len(queue) : queue[i] \in Messages /\ queue[i] # m /\ stage[queue[i]] = "queued"
      BY <1>1 DEF PlaceInv
    <3>3. \A i \in 1..Len(q) : i \in 1..Len(queue) \/ i = Len(queue) + 1
      BY <2>1
    <3>4. \A i, j \in 1..Len(q) : q[i] = q[j] => i = j
      <4>1. \A i, j \in 1..Len(queue) : queue[i] = queue[j] => i = j
        BY DEF PlaceInv
      <4>2. QED
        BY <2>1, <3>2, <3>3, <4>1
    <3>5. \A x \in In(q) : stage[x] \notin Out
      <4>1. \A i \in 1..Len(q) : stage[q[i]] \in {"queued", "got"}
        BY <1>1, <2>1, <3>2, <3>3
      <4>2. QED
        BY <2>1, <4>1 DEF In, Out
    <3>6. q # <<>>
      BY <2>1
    <3>7. PostInv' /\ Batches!SendFront(q, Taken(q, seen[m]))
      BY <1>1, <2>1, <3>1, <3>4, <3>5, <3>6, BatchImplements
    <3>8. /\ Taken(q, seen[m]) = seen[m].size /\ seen[m].size <= Len(queue) + 1
          /\ seen[m].size \in Sizes \cup {1, BatchSize}
      BY <1>1, <2>1, <2>2, RowSize DEF Taken
    <3>9. Batches!SendFull(m)
      BY <1>1, <3>7, <3>8 DEF Batches!SendFull, q
    <3>10. QED
      BY <3>7, <3>9 DEF Batches!Next
  <2>3. CASE ~(Len(q) >= seen[m].size)
    BY <1>1, <1>4, <2>3, JoinImplements DEF AddToBatch, Batches!Next
  <2>4. QED
    BY <2>2, <2>3
<1>5. QED
  BY <1>2, <1>3, <1>4 DEF DeliverMessage

\* The timer takes a batch from the queue, if there is one.
LEMMA TimerImplements ==
    ASSUME TypeOK, PlaceInv, PostInv, TimerFires
    PROVE  PostInv' /\ [Batches!Next]_(Batches!vars)
<1>1. process' = process
  BY DEF TimerFires
<1>2. CASE queue = <<>>
  <2>1. UNCHANGED <<queue, stage, posts, sends>>
    BY <1>2 DEF TimerFires
  <2>2. PostInv'
    BY <2>1, PostsKept
  <2>3. UNCHANGED Batches!vars
    BY <1>1, <2>1, Unseen DEF Unanswered
  <2>4. QED
    BY <2>2, <2>3
<1>3. CASE queue # <<>>
  <2>1. /\ DeliverBatch(queue, timer.row, "timer") /\ timer.row \in Rows
        /\ queue \in Seq(Messages)
    BY <1>3 DEF TimerFires, TypeOK
  <2>2. /\ \A i, j \in 1..Len(queue) : queue[i] = queue[j] => i = j
        /\ \A x \in In(queue) : stage[x] \notin Out
    BY <2>1 DEF PlaceInv, In, Out
  <2>3. PostInv' /\ Batches!SendFront(queue, Taken(queue, timer.row))
    BY <1>1, <1>3, <2>1, <2>2, BatchImplements
  <2>4. Batches!SendTimed
    BY <1>3, <2>1, <2>3, RowSize DEF Batches!SendTimed, Taken
  <2>5. QED
    BY <2>3, <2>4 DEF Batches!Next
<1>4. QED
  BY <1>2, <1>3

\* The webhook answers a request, for all its messages.
LEMMA AnswerImplements ==
    ASSUME TypeOK, PlaceInv, PostInv, NEW p \in posts, Answered(p)
    PROVE  PostInv' /\ [Batches!Next]_(Batches!vars)
<1>1. /\ p.pc = "post" /\ p.msgs \in SUBSET Messages
      /\ \A m \in p.msgs : m \in Messages /\ stage[m] = "posting"
      /\ UNCHANGED <<queue, sends, process>>
  BY DEF Answered, PostInv, TypeOK, batch
<1>2. PICK st \in {"sent", "failed"}, pc \in {"delivered", "failed"} : To(p.msgs, st) /\ Goto(p, pc)
  BY DEF Answered
<1>3. \A m \in Messages : stage'[m] = IF m \in p.msgs THEN st ELSE stage[m]
  BY <1>2 DEF To
<1>4. /\ PostInv'
      /\ {x.msgs : x \in Unanswered'} = {x.msgs : x \in Unanswered} \ {p.msgs}
  <2>1. pc # "post"
    OBVIOUS
  <2>2. QED
    BY <1>1, <1>2, <1>3, <2>1, PostsMove
<1>5. Fate(st) = st /\ Fate("posting") = "out"
  BY Fates
<1>6. [m \in Messages |-> Fate(stage'[m])]
        = [m \in Messages |-> IF m \in p.msgs THEN st ELSE [x \in Messages |-> Fate(stage[x])][m]]
  <2>1. \A m \in Messages : Fate(stage'[m]) = IF m \in p.msgs THEN st ELSE Fate(stage[m])
    BY <1>3, <1>5
  <2>2. QED
    BY <2>1
<1>7. Batches!Answer(p.msgs)
  BY <1>1, <1>4, <1>5, <1>6 DEF Batches!Answer, Batches!Becomes
<1>8. p.msgs \in {x.msgs : x \in Unanswered}
  BY <1>1 DEF Unanswered
<1>9. QED
  BY <1>4, <1>7, <1>8 DEF Batches!Next

\* deliveryService.shutdown, while the requests in flight, or all but one that has had
\* its answer, stay.
LEMMA StopImplements ==
    ASSUME TypeOK, PlaceInv, PostInv, StopDelivery, process = "up", sends' = sends,
           {p.msgs : p \in Unanswered'} = {p.msgs : p \in Unanswered}
    PROVE  Batches!Stop
<1>1. \A m \in Messages :
         Fate(stage'[m]) = IF Fate(stage[m]) = "waiting" THEN "lost" ELSE Fate(stage[m])
  <2>1. \A m \in Messages : stage[m] \in Stages
    BY DEF TypeOK
  <2>2. \A m \in Messages : stage'[m] = IF stage[m] = "queued" THEN "lost" ELSE stage[m]
    BY DEF StopDelivery
  <2>3. QED
    BY <2>1, <2>2, Fates
<1>2. [m \in Messages |-> Fate(stage'[m])]
        = [m \in Messages |-> IF [x \in Messages |-> Fate(stage[x])][m] = "waiting" THEN "lost"
                              ELSE [x \in Messages |-> Fate(stage[x])][m]]
  BY <1>1
<1>3. queue' = <<>> /\ process' = "stopping"
  BY DEF StopDelivery
<1>4. QED
  BY <1>2, <1>3 DEF Batches!Stop

\* What becomes of the requests after their answers.
LEMMA StatsImplements ==
    ASSUME TypeOK, PlaceInv, PostInv, NEW p \in posts, UpdateDeliveryStats(p)
    PROVE  PostInv' /\ [Batches!Next]_(Batches!vars)
<1>1. /\ p.pc # "post" /\ sends' = sends
      /\ \E pc \in {"failed", "catch"} : Goto(p, pc) \/ posts' = posts \ {p}
      /\ \/ UNCHANGED <<process, batch, stage>>
         \/ process = "up" /\ StopDelivery
         \/ process # "up" /\ process' = "exited" /\ UNCHANGED <<batch, stage>>
  BY DEF UpdateDeliveryStats, StatsUpdated, Caught, Unhandled
<1>2. PICK pc \in {"failed", "catch"} : Goto(p, pc) \/ posts' = posts \ {p}
  BY <1>1
<1>3. \A m \in Messages : stage[m] \in Out => stage'[m] = stage[m]
  BY <1>1 DEF StopDelivery, Out, batch
<1>4. \A m \in p.msgs : m \in Messages /\ stage[m] \in Out
  BY DEF PlaceInv, TypeOK
<1>5. PostInv' /\ {x.msgs : x \in Unanswered'} = {x.msgs : x \in Unanswered}
  <2>1. pc # "post"
    OBVIOUS
  <2>2. QED
    BY <1>1, <1>2, <1>3, <1>4, <2>1, PostsMove
<1>6. CASE process = "up" /\ StopDelivery
  BY <1>1, <1>5, <1>6, StopImplements DEF Batches!Next
<1>7. CASE UNCHANGED <<batch, stage>> /\ (process' # "up" <=> process # "up")
  BY <1>1, <1>5, <1>7, Unseen DEF batch
<1>8. QED
  BY <1>1, <1>6, <1>7

\* Every step is one of AbstractBatches, or unseen by it.
LEMMA BatchesStep ==
    TypeOK /\ PlaceInv /\ PostInv /\ [Next]_vars => PostInv' /\ [Batches!Next]_(Batches!vars)
<1> SUFFICES ASSUME TypeOK, PlaceInv, PostInv, [Next]_vars
             PROVE  PostInv' /\ [Batches!Next]_(Batches!vars)
  OBVIOUS
<1> USE DEF batch, budget
<1>1. ASSUME NEW m \in Messages, Emit(m) \/ Distribute(m) \/ GetSubscription(m)
      PROVE  PostInv' /\ [Batches!Next]_(Batches!vars)
  <2>1. /\ stage[m] \in Coming
        /\ \E st \in Coming \cup {"skipped", "lost"} : To({m}, st)
        /\ UNCHANGED <<queue, posts, sends, process>>
    BY <1>1 DEF Emit, Distribute, GetSubscription, Coming
  <2>2. QED
    BY <2>1, MoveImplements DEF Batches!Next
<1>2. CASE Shutdown
  <2>1. StopDelivery /\ process = "up" /\ UNCHANGED <<posts, sends>>
    BY <1>2 DEF Shutdown
  <2>2. PostInv'
    BY <2>1, PostsKept DEF StopDelivery, Out
  <2>3. Batches!Stop
    BY <2>1, StopImplements DEF Unanswered
  <2>4. QED
    BY <2>2, <2>3 DEF Batches!Next
<1>3. ASSUME UNCHANGED <<queue, stage, posts, sends>>, process' # "up" <=> process # "up"
      PROVE  PostInv' /\ [Batches!Next]_(Batches!vars)
  BY <1>3, PostsKept, Unseen DEF Unanswered
<1>4. (\E n \in Sizes : Resize(n)) \/ PauseOrResume \/ Delete \/ Exit \/ Tick \/ UNCHANGED vars
         => UNCHANGED <<queue, stage, posts, sends>> /\ (process' # "up" <=> process # "up")
  BY DEF Resize, PauseOrResume, Delete, Change, Exit, Tick, vars
<1>5. QED
  BY <1>1, <1>2, <1>3, <1>4, MessageImplements, TimerImplements, AnswerImplements, StatsImplements
  DEF Next, MessageStep, PostStep

\* For every number of messages, batch size, change of it, failure, timer and shutdown,
\* the delivery service implements AbstractBatches.
THEOREM FeedImplementsBatches == Spec => ImplementsBatches
<1>1. Init => Batches!Init
  <2> SUFFICES ASSUME Init PROVE Batches!Init
    OBVIOUS
  <2>1. \A m \in Messages : Fate(stage[m]) = "coming"
    BY Fates DEF Init, Coming
  <2>2. {p.msgs : p \in Unanswered} = {}
    BY DEF Init, Unanswered
  <2>3. QED
    BY <2>1, <2>2 DEF Init, Batches!Init
<1>2. Init => PlaceInv /\ PostInv
  BY DEF Init, PlaceInv, Out, PostInv
<1>3. QED
  BY <1>1, <1>2, TypeInit, TypeNext, PlaceNext, BatchesStep, PTL
     DEF Spec, ImplementsBatches, Batches!Spec

----------------------------------------------------------------------------
(* How long a message waits. *)

\* A message has waited, with what is left of the timer, for at most one period for
\* itself and one for every message behind it.
WaitInv ==
    /\ \A i \in 1..Len(queue) : wait[queue[i]] + timer.left <= (Len(queue) - i + 1) * WAIT
    /\ \A m \in Messages : m \notin In(queue) => wait[m] = 0

\* Until the batch size is changed; the inductive invariant uses the two others.
WaitInvUnlessResized == resizes = 0 => WaitInv

\* Periods add up.
LEMMA Periods ==
    /\ \A n \in Nat : (n + 1) * WAIT = n * WAIT + WAIT
    /\ \A a, b \in Nat : a <= b => a * WAIT <= b * WAIT
    /\ \A n \in Nat : n * WAIT \in Nat
  BY FeedAssumption

\* An empty queue, with all waiting times at zero.
LEMMA EmptyWaits ==
    ASSUME queue' = <<>>, \A m \in Messages : wait'[m] = 0
    PROVE  WaitInv'
  BY DEF WaitInv

\* deliverBatch on a queue that is at most full leaves nothing waiting.
LEMMA BatchWaits ==
    ASSUME NEW q \in Seq(Messages), NEW row \in Rows, NEW by, DeliverBatch(q, row, by),
           row.size = BatchSize, Len(q) <= BatchSize
    PROVE  WaitInv'
<1>1. queue' = <<>>
  BY TakenSplits DEF DeliverBatch
<1>2. In(<<>>) = {}
  BY DEF In
<1>3. \A m \in Messages : wait'[m] = 0
  BY <1>1, <1>2 DEF DeliverBatch
<1>4. QED
  BY <1>1, <1>3, EmptyWaits

\* A message that joins the batch starts the timer again.
LEMMA JoinWaits ==
    ASSUME TypeOK, PlaceInv, WaitInv, NEW m \in Messages, stage[m] = "got",
           queue' = Append(queue, m), timer'.left = WAIT, wait' = wait
    PROVE  WaitInv'
<1>1. /\ queue \in Seq(Messages) /\ Len(queue) \in Nat /\ WAIT \in Nat
      /\ Len(queue') = Len(queue) + 1 /\ queue'[Len(queue) + 1] = m
      /\ \A i \in 1..Len(queue) : queue'[i] = queue[i]
  BY FeedAssumption DEF TypeOK
<1>2. m \notin In(queue) /\ wait[m] = 0
  <2>1. m \notin In(queue)
    <3>1. In(queue) = {queue[i] : i \in 1..Len(queue)}
      BY <1>1 DEF In
    <3>2. \A i \in 1..Len(queue) : stage[queue[i]] = "queued"
      BY DEF PlaceInv
    <3>3. QED
      BY <3>1, <3>2
  <2>2. QED
    BY <2>1 DEF WaitInv
<1>3. ASSUME NEW i \in 1..Len(queue')
      PROVE  wait'[queue'[i]] + timer'.left <= (Len(queue') - i + 1) * WAIT
  <2>1. CASE i = Len(queue) + 1
    <3>1. (Len(queue') - i + 1) * WAIT = WAIT
      BY <1>1, <2>1
    <3>2. QED
      BY <1>1, <1>2, <2>1, <3>1
  <2>2. CASE i \in 1..Len(queue)
    <3> DEFINE n == Len(queue) - i + 1
    <3>1. n \in Nat /\ Len(queue') - i + 1 = n + 1
      BY <1>1, <2>2
    <3>2. wait[queue[i]] + timer.left <= n * WAIT
      BY <2>2 DEF WaitInv
    <3> HIDE DEF n
    <3>3. (n + 1) * WAIT = n * WAIT + WAIT /\ n * WAIT \in Nat
      BY <3>1, Periods
    <3>4. queue[i] \in Messages /\ wait[queue[i]] \in Nat /\ timer.left \in Nat
      BY <1>1, <2>2, MaxWaitNat, FeedAssumption DEF TypeOK
    <3>5. wait[queue[i]] + WAIT <= n * WAIT + WAIT
      BY <1>1, <3>2, <3>3, <3>4
    <3>6. QED
      BY <1>1, <2>2, <3>1, <3>3, <3>5
  <2>3. QED
    BY <1>1, <1>3, <2>1, <2>2
<1>4. \A x \in Messages : x \notin In(queue') => wait'[x] = 0
  <2>1. In(queue) \subseteq In(queue')
    BY <1>1 DEF In
  <2>2. QED
    BY <2>1 DEF WaitInv
<1>5. QED
  BY <1>3, <1>4 DEF WaitInv

\* A tick moves one tick from the timer to the messages.
LEMMA TickWaits ==
    ASSUME TypeOK, WaitInv, Tick
    PROVE  WaitInv'
<1>1. /\ queue' = queue /\ queue \in Seq(Messages)
      /\ timer.left \in Nat /\ timer.left > 0 /\ timer'.left = timer.left - 1
  BY FeedAssumption DEF Tick, TypeOK
<1>2. \A m \in Messages :
        /\ wait[m] \in Nat /\ wait'[m] \in Nat
        /\ wait'[m] <= wait[m] + 1
        /\ m \notin In(queue) => wait'[m] = wait[m]
  BY MaxWaitNat DEF Tick, TypeOK
<1>3. ASSUME NEW i \in 1..Len(queue)
      PROVE  wait'[queue[i]] + timer'.left <= (Len(queue) - i + 1) * WAIT
  <2> DEFINE b == (Len(queue) - i + 1) * WAIT
  <2>1. wait[queue[i]] + timer.left <= b
    BY DEF WaitInv
  <2>2. queue[i] \in Messages
    BY <1>1
  <2>3. b \in Nat
    <3>1. Len(queue) - i + 1 \in Nat
      BY <1>1
    <3>2. QED
      BY <3>1, Periods
  <2> HIDE DEF b
  <2>4. /\ wait[queue[i]] \in Nat /\ wait'[queue[i]] \in Nat
        /\ wait'[queue[i]] <= wait[queue[i]] + 1
    BY <1>2, <2>2
  <2>5. wait'[queue[i]] + (timer.left - 1) <= b
    BY <1>1, <2>1, <2>3, <2>4
  <2>6. QED
    BY <1>1, <2>5 DEF b
<1>4. \A m \in Messages : m \notin In(queue) => wait'[m] = 0
  BY <1>2 DEF WaitInv
<1>5. In(queue)' = In(queue)
  BY <1>1 DEF In
<1>6. QED
  BY <1>1, <1>3, <1>4, <1>5 DEF WaitInv

\* Every step keeps the waiting times within their bounds.
LEMMA WaitNext ==
    GuardInv /\ PlaceInv /\ WaitInvUnlessResized /\ [Next]_vars => WaitInvUnlessResized'
<1> SUFFICES ASSUME GuardInv, PlaceInv, WaitInvUnlessResized, [Next]_vars, resizes' = 0
             PROVE  WaitInv'
  BY DEF WaitInvUnlessResized
<1> USE DEF batch, budget
<1>0. TypeOK /\ BatchInv /\ WaitInv
  <2>1. resizes' = resizes \/ resizes' = resizes + 1
    BY DEF Next, MessageStep, PostStep, Emit, Distribute, GetSubscription, DeliverMessage,
           Fault, NoFault, TimerFires, Answered, UpdateDeliveryStats, StatsUpdated,
           StatsRejected, Resize, PauseOrResume, Delete, Shutdown, Exit, Tick, vars
  <2>2. TypeOK
    BY DEF GuardInv
  <2>3. resizes = 0
    BY <2>1, <2>2, FeedAssumption DEF TypeOK
  <2>4. QED
    BY <2>2, <2>3 DEF GuardInv, WaitInvUnlessResized
<1>1. ASSUME UNCHANGED batch
      PROVE  WaitInv'
  BY <1>0, <1>1 DEF WaitInv, In
<1>2. ASSUME NEW m \in Messages, DeliverMessage(m), ~UNCHANGED batch
      PROVE  WaitInv'
  <2>1. /\ seen[m] \in Rows /\ seen[m].size = BatchSize /\ queue \in Seq(Messages)
        /\ stage[m] = "got" /\ seen[m].size > 1 /\ AddToBatch(m)
    BY <1>0, <1>2 DEF DeliverMessage, BatchInv, TypeOK
  <2>2. /\ Append(queue, m) \in Seq(Messages) /\ Len(Append(queue, m)) = Len(queue) + 1
        /\ Len(queue) < BatchSize
    BY <1>0, <2>1, FeedAssumption DEF BatchInv
  <2>3. CASE DeliverBatch(Append(queue, m), seen[m], "message")
    <3>1. Len(Append(queue, m)) <= BatchSize
      BY <2>1, <2>2, FeedAssumption
    <3>2. QED
      BY <2>1, <2>2, <2>3, <3>1, BatchWaits
  <2>4. CASE /\ queue' = Append(queue, m)
             /\ timer' = [on |-> TRUE, left |-> WAIT, row |-> seen[m]]
             /\ wait' = wait
    BY <1>0, <2>1, <2>4, JoinWaits
  <2>5. QED
    BY <2>1, <2>3, <2>4 DEF AddToBatch
<1>3. ASSUME TimerFires
      PROVE  WaitInv'
  <2>1. CASE queue = <<>>
    <3>1. In(<<>>) = {}
      BY DEF In
    <3>2. QED
      BY <1>0, <1>3, <2>1, <3>1 DEF TimerFires, WaitInv
  <2>2. CASE queue # <<>>
    <3>1. /\ DeliverBatch(queue, timer.row, "timer") /\ timer.row \in Rows
          /\ queue \in Seq(Messages) /\ timer.row.size = BatchSize /\ Len(queue) < BatchSize
      BY <1>0, <1>3, <2>2 DEF TimerFires, BatchInv, TypeOK
    <3>2. Len(queue) <= BatchSize
      BY <3>1, FeedAssumption
    <3>3. QED
      BY <3>1, <3>2, BatchWaits
  <2>3. QED
    BY <2>1, <2>2
<1>4. ASSUME StopDelivery
      PROVE  WaitInv'
  BY <1>4, EmptyWaits DEF StopDelivery
<1>5. Tick => WaitInv'
  BY <1>0, TickWaits
<1>6. \A m \in Messages :
        Emit(m) \/ Distribute(m) \/ GetSubscription(m) => UNCHANGED batch
  BY DEF Emit, Distribute, GetSubscription
<1>7. \A p \in posts : Answered(p) \/ UpdateDeliveryStats(p) => UNCHANGED batch \/ StopDelivery
  BY DEF Answered, UpdateDeliveryStats, Caught, Unhandled
<1>8. /\ (\E n \in Sizes : Resize(n)) \/ PauseOrResume \/ Delete \/ Exit \/ UNCHANGED vars
           => UNCHANGED batch
      /\ Shutdown => StopDelivery
  BY DEF Resize, PauseOrResume, Delete, Change, Exit, Shutdown, vars
<1>9. QED
  BY <1>1, <1>2, <1>3, <1>4, <1>5, <1>6, <1>7, <1>8 DEF Next, MessageStep, PostStep

\* A message waits in a batch for at most as many periods as the batch size less one (and
\* not one, the 5 seconds of deliveryService.ts:83), however the messages that join it are
\* spaced, for every batch size and length of the timer.
THEOREM WaitsBounded == Spec => []WaitBounded
<1>1. Init => PlaceInv /\ WaitInvUnlessResized /\ GuardInv
  <2>1. ASSUME Init
        PROVE  PlaceInv /\ WaitInvUnlessResized /\ BatchInv
    BY <2>1 DEF Init, PlaceInv, Out, WaitInvUnlessResized, WaitInv, BatchInv, Off, Row
  <2>2. QED
    BY <2>1, TypeInit DEF GuardInv
<1>2. GuardInv /\ WaitInvUnlessResized => WaitBounded
  <2> SUFFICES ASSUME GuardInv, WaitInvUnlessResized, resizes = 0, NEW m \in Messages
               PROVE  wait[m] <= MaxWait
    BY DEF WaitBounded
  <2>1. TypeOK /\ BatchInv /\ WaitInv
    BY DEF GuardInv, WaitInvUnlessResized
  <2>2. CASE m \notin In(queue)
    BY <2>1, <2>2, MaxWaitNat DEF WaitInv
  <2>3. CASE m \in In(queue)
    <3>1. PICK i \in 1..Len(queue) : m = queue[i]
      BY <2>1, <2>3 DEF In, TypeOK
    <3> DEFINE n == Len(queue) - i + 1
    <3>2. n \in Nat /\ BatchSize - 1 \in Nat /\ n <= BatchSize - 1
      BY <2>1, <3>1, FeedAssumption DEF BatchInv, TypeOK
    <3>3. wait[m] + timer.left <= n * WAIT
      BY <2>1, <3>1 DEF WaitInv
    <3> HIDE DEF n
    <3>4. n * WAIT <= MaxWait /\ n * WAIT \in Nat
      BY <3>2, Periods DEF MaxWait
    <3>5. wait[m] \in Nat /\ timer.left \in Nat
      BY <2>1, MaxWaitNat, FeedAssumption DEF TypeOK
    <3>6. QED
      BY <3>3, <3>4, <3>5, MaxWaitNat
  <2>4. QED
    BY <2>2, <2>3
<1>3. GuardInv => TypeOK
  BY DEF GuardInv
<1>4. QED
  BY <1>1, <1>2, <1>3, GuardNext, PlaceNext, WaitNext, PTL DEF Spec
=============================================================================
