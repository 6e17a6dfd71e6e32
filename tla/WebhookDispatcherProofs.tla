---------------------- MODULE WebhookDispatcherProofs ----------------------
(***************************************************************************)
(* Proofs about WebhookDispatcher, for any number of deliveries, replicas  *)
(* and calls in flight, any lease, back-off and MAX_ATTEMPTS, and any      *)
(* number of crashes, failing database calls, lost events and changes of   *)
(* the subscription.                                                       *)
(***************************************************************************)
EXTENDS WebhookDispatcher, TLAPS

RowType == [status : Statuses, proc : {"none", "idle", "processing", "done"},
            lease : Never..LEASE, next : Never..BACKOFF, attempt : 0..MAX_ATTEMPTS]

\* What a claim can find is a pending row that has been attempted.
Attempted ==
    \A d \in Deliveries :
        row[d].proc \in {"idle", "processing"} => row[d].status = "pending" /\ row[d].attempt >= 1

\* Only a request that was made has an outcome to record.
Posted == \A t \in Slots : task[t].pc = "record" => task[t].outcome # "none"

TA == TypeOK /\ Attempted

TypeInv == TA /\ Posted

----------------------------------------------------------------------------
(* Facts about the helpers. *)

\* A task is made of what it is given.
LEMMA TaskType ==
    ASSUME NEW r \in Replicas, NEW d \in Deliveries, NEW a \in 1..MAX_ATTEMPTS,
           NEW n \in BOOLEAN, NEW b \in BOOLEAN
    PROVE  /\ Task(r, d, a, n, b) \in Tasks
           /\ Task(r, d, a, n, b).pc = (IF n THEN "check" ELSE "start") /\ Task(r, d, a, n, b).d = d
           /\ Task(r, d, a, n, b).attempt = a /\ Task(r, d, a, n, b).isNew = n
           /\ Task(r, d, a, n, b).active = b /\ Task(r, d, a, n, b).outcome = "none"
  BY DEF Task, Tasks

\* A slot that is not free holds a task.
LEMMA LiveTask ==
    ASSUME TypeOK, NEW t \in Slots, task[t].pc # "free"
    PROVE  task[t] \in Tasks
  BY DEF TypeOK, NoTask

LEMMA NoTaskFree == NoTask.pc = "free"
  BY DEF NoTask

\* The call of deliverOnce for a claimed row.
RetryTask(r, d, attempt, act) == Task(r, d, attempt, FALSE, act)

\* The table of calls that StartTasks makes of table tk, for rows rw and a
\* subscription with active = act.
NewTable(r, claimed, slot, rw, tk, act) ==
    [t \in Slots |->
        IF \E d \in claimed : slot[d] = t
        THEN LET d == CHOOSE c \in claimed : slot[c] = t
             IN  RetryTask(r, d, rw[d].attempt, act)
        ELSE tk[t]]

\* StartTasks gives the claimed rows free slots and makes such a table.
LEMMA StartTasksTable ==
    ASSUME NEW r, NEW claimed, StartTasks(r, claimed)
    PROVE  \E slot \in [claimed -> free] : task' = NewTable(r, claimed, slot, row, task, active)
  <1> DEFINE Injective(f) == \A c, d \in claimed : f[c] = f[d] => c = d
             slot == CHOOSE f \in [claimed -> free] : Injective(f)
  <1>1. \E f \in [claimed -> free] : Injective(f)
      BY DEF StartTasks
  <1>2. task' = NewTable(r, claimed, slot, row, task, active)
      BY DEF StartTasks, NewTable, RetryTask
  <1> HIDE DEF Injective
  <1>3. slot \in [claimed -> free]
      BY <1>1
  <1> QED
      BY <1>2, <1>3

\* It gives every slot its old task or a new one for a claimed row, and no two
\* slots a new one for the same row.
LEMMA NewTableShape ==
    ASSUME NEW r, NEW claimed, NEW slot, NEW rw, NEW tk, NEW act, NEW t \in Slots
    PROVE  \/ NewTable(r, claimed, slot, rw, tk, act)[t] = tk[t]
           \/ \E d \in claimed :
                 /\ slot[d] = t
                 /\ NewTable(r, claimed, slot, rw, tk, act)[t] = RetryTask(r, d, rw[d].attempt, act)
  <1> DEFINE d == CHOOSE c \in claimed : slot[c] = t
  <1>1. CASE \E c \in claimed : slot[c] = t
    <2>1. d \in claimed /\ slot[d] = t
        BY <1>1
    <2>2. NewTable(r, claimed, slot, rw, tk, act)[t] = RetryTask(r, d, rw[d].attempt, act)
        BY <1>1 DEF NewTable, RetryTask
    <2> HIDE DEF d
    <2> QED
        BY <2>1, <2>2
  <1>2. CASE ~\E c \in claimed : slot[c] = t
      BY <1>2 DEF NewTable
  <1> QED
      BY <1>1, <1>2

\* What StartTasks does, slot by slot.
LEMMA StartTasksShape ==
    ASSUME NEW r, NEW claimed, NEW slot, task' = NewTable(r, claimed, slot, row, task, active)
    PROVE  /\ task' = [t \in Slots |-> task'[t]]
           /\ \A t \in Slots :
                 \/ task'[t] = task[t]
                 \/ \E d \in claimed : slot[d] = t /\ task'[t] = RetryTask(r, d, row[d].attempt, active)
  <1>1. task' = [t \in Slots |-> task'[t]]
      BY DEF NewTable
  <1>2. ASSUME NEW t \in Slots
        PROVE  \/ NewTable(r, claimed, slot, row, task, active)[t] = task[t]
               \/ \E d \in claimed :
                     /\ slot[d] = t
                     /\ NewTable(r, claimed, slot, row, task, active)[t] = RetryTask(r, d, row[d].attempt, active)
      BY NewTableShape
  <1> QED
      BY <1>1, <1>2

\* Rows keep their form when a call records its outcome.
LEMMA RowForms ==
    ASSUME NEW w \in RowType, NEW a \in 1..MAX_ATTEMPTS
    PROVE  /\ Failed(w) \in RowType /\ Failed(w).proc = "done" /\ Failed(w).attempt = w.attempt
           /\ Failed(w).status = "failed" /\ Failed(w).next = Never
           /\ Row("pending", "processing", LEASE, Never, a) \in RowType
           /\ scheduleRetryOrFail(w, a) \in RowType
           /\ \/ scheduleRetryOrFail(w, a) = Failed(w)
              \/ /\ scheduleRetryOrFail(w, a).proc = "idle" /\ scheduleRetryOrFail(w, a).status = "pending"
                 /\ scheduleRetryOrFail(w, a).attempt = a + 1 /\ scheduleRetryOrFail(w, a).next = BACKOFF
  <1> USE DispatcherAssumption
  <1>1. -1 \in Never..LEASE /\ -1 \in Never..BACKOFF /\ LEASE \in Never..LEASE /\ BACKOFF \in Never..BACKOFF
      BY DEF Never
  <1>2. Never = -1
      BY DEF Never
  <1>3. /\ Failed(w) \in RowType /\ Failed(w).proc = "done" /\ Failed(w).attempt = w.attempt
        /\ Failed(w).status = "failed" /\ Failed(w).next = Never
      BY <1>1, <1>2 DEF Failed, RowType, Statuses
  <1>4. Row("pending", "processing", LEASE, Never, a) \in RowType
      BY <1>1, <1>2 DEF Row, RowType, Statuses
  <1>5. CASE a + 1 > MAX_ATTEMPTS
      BY <1>3, <1>4, <1>5 DEF scheduleRetryOrFail
  <1>6. CASE ~(a + 1 > MAX_ATTEMPTS)
    <2>1. a + 1 \in 0..MAX_ATTEMPTS
        BY <1>6
    <2>2. scheduleRetryOrFail(w, a) = Row("pending", "idle", Never, BACKOFF, a + 1)
        BY <1>6 DEF scheduleRetryOrFail
    <2>3. Row("pending", "idle", Never, BACKOFF, a + 1) \in RowType
        BY <1>1, <1>2, <2>1 DEF Row, RowType, Statuses
    <2> QED
        BY <1>3, <1>4, <2>2, <2>3 DEF Row
  <1> QED
      BY <1>5, <1>6

\* Initially nothing has been dispatched.
LEMMA TypeInit == Init => TypeInv
  <1> SUFFICES ASSUME Init PROVE TypeInv
      OBVIOUS
  <1>1. NoDelivery \in RowType /\ NoDelivery.proc = "none"
      BY DispatcherAssumption DEF NoDelivery, Row, RowType, Statuses, Never
  <1>2. NoRetry \in [pc : {"idle", "claim"}, ids : SUBSET Deliveries]
      BY DEF NoRetry
  <1> QED
      BY <1>1, <1>2, DispatcherAssumption DEF Init, TypeInv, TA, Posted, NoTask, TypeOK, Attempted, RowType

\* Every step keeps the variables in their sets, and the attempt numbers within
\* MAX_ATTEMPTS.
LEMMA TypeStep == TypeInv /\ [Next]_vars => TA'
  <1> SUFFICES ASSUME TypeInv, [Next]_vars PROVE TA'
      OBVIOUS
  <1> USE DispatcherAssumption
  <1>t. TypeOK
      BY DEF TypeInv, TA
  <1>r. \A d \in Deliveries : row[d] \in RowType
      BY <1>t DEF TypeOK, RowType
  <1>1. ASSUME NEW r \in Replicas, NEW d \in Deliveries, Dispatch(r, d) PROVE TA'
    <2>0. 1 \in 1..MAX_ATTEMPTS
        OBVIOUS
    <2>1. Task(r, d, 1, TRUE, TRUE) \in Tasks
        BY <2>0, TaskType, Zenon
    <2>2. task' \in [Slots -> Tasks \cup {NoTask}]
        BY <1>1, <1>t, <2>1 DEF Dispatch, TypeOK
    <2> QED
        BY <1>1, <1>t, <2>2 DEF Dispatch, db, budget, TypeInv, TA, TypeOK, Attempted
  <1>2. ASSUME NEW r \in Replicas, FindDue(r) PROVE TA'
      BY <1>2 DEF FindDue, db, budget, TypeInv, TA, TypeOK, Attempted
  <1>3. ASSUME NEW r \in Replicas, ClaimRows(r) PROVE TA'
    <2> DEFINE ids == retry[r].ids
               updated == {d \in ids : Claimable(row[d])}
               twin == {d \in ids \ updated : row[d].proc = "processing" /\ row[d].lease = LEASE}
               claimed == updated \cup (IF Timely THEN {} ELSE twin)
    <2>1. ids \subseteq Deliveries
        BY <1>t DEF TypeOK
    <2>2. /\ StartTasks(r, claimed)
          /\ row' = [d \in Deliveries |->
                       IF d \in updated
                       THEN [row[d] EXCEPT !.proc = "processing", !.lease = LEASE] ELSE row[d]]
          /\ retry' = [retry EXCEPT ![r] = NoRetry]
          /\ UNCHANGED <<stored, active, patch, undispatched, sends, budget>>
        BY <1>3 DEF ClaimRows
    <2>3. \A d \in claimed : d \in Deliveries /\ row[d].proc \in {"idle", "processing"}
        BY <2>1 DEF Claimable
    <2> HIDE DEF claimed
    <2>4. \A d \in claimed : RetryTask(r, d, row[d].attempt, active) \in Tasks
      <3> TAKE d \in claimed
      <3>1. row[d].attempt \in 1..MAX_ATTEMPTS /\ d \in Deliveries /\ active \in BOOLEAN
          BY <2>3, <1>r, <1>t DEF TypeInv, TA, Attempted, RowType, TypeOK
      <3> QED
          BY <3>1, TaskType DEF RetryTask
    <2>5. task' \in [Slots -> Tasks \cup {NoTask}]
      <3>1. PICK slot : task' = NewTable(r, claimed, slot, row, task, active)
          BY <2>2, StartTasksTable
      <3>2. /\ task' = [t \in Slots |-> task'[t]]
            /\ \A t \in Slots :
                  \/ task'[t] = task[t]
                  \/ \E d \in claimed : slot[d] = t /\ task'[t] = RetryTask(r, d, row[d].attempt, active)
          BY <3>1, StartTasksShape
      <3>3. \A t \in Slots : task'[t] \in Tasks \cup {NoTask}
        <4>1. \A t \in Slots : task[t] \in Tasks \cup {NoTask}
            BY <1>t DEF TypeOK
        <4> QED
            BY <3>2, <2>4, <4>1
      <3> QED
          BY <3>2, <3>3, Zenon
    <2>6. \A d \in Deliveries : row'[d] \in RowType /\ row'[d].attempt = row[d].attempt
                               /\ row'[d].status = row[d].status
                               /\ (row'[d] = row[d] \/ row[d].proc \in {"idle", "processing"})
      <3> TAKE d \in Deliveries
      <3>1. LEASE \in Never..LEASE
          BY DEF Never
      <3>2. CASE d \in updated
        <4>1. row'[d] = [row[d] EXCEPT !.proc = "processing", !.lease = LEASE]
            BY <2>2, <3>2
        <4>2. row[d].proc \in {"idle", "processing"}
            BY <3>2 DEF Claimable
        <4> HIDE DEF updated
        <4> QED
            BY <4>1, <4>2, <3>1, <1>r DEF RowType
      <3>3. CASE d \notin updated
        <4>1. row'[d] = row[d]
            BY <2>2, <3>3
        <4> QED
            BY <4>1, <1>r
      <3> QED
          BY <3>2, <3>3
    <2>7. row' \in [Deliveries -> RowType]
        BY <2>2, <2>6
    <2>8. retry' \in [Replicas -> [pc : {"idle", "claim"}, ids : SUBSET Deliveries]]
        BY <2>2, <1>t DEF TypeOK, NoRetry
    <2>9. Attempted'
        BY <2>6 DEF TypeInv, TA, Attempted
    <2> QED
        BY <2>2, <2>5, <2>7, <2>8, <2>9, <1>t DEF TypeInv, TA, TypeOK, RowType, budget
  <1>4. ASSUME NEW r \in Replicas, ClaimFails(r) PROVE TA'
      BY <1>4 DEF ClaimFails, Fault, NoRetry, db, TypeInv, TA, TypeOK, Attempted
  <1>5. ASSUME NEW r \in Replicas, Crash(r) PROVE TA'
    <2>1. task' \in [Slots -> Tasks \cup {NoTask}]
        BY <1>5, <1>t DEF Crash, TypeOK
    <2>2. retry' \in [Replicas -> [pc : {"idle", "claim"}, ids : SUBSET Deliveries]]
        BY <1>5, <1>t DEF Crash, TypeOK, NoRetry
    <2> QED
        BY <1>5, <2>1, <2>2 DEF Crash, Fault, db, TypeInv, TA, TypeOK, Attempted
  <1>6. ASSUME NEW t \in Slots, TaskStep(t) PROVE TA'
    <2> DEFINE d == task[t].d
               w == row[d]
    <2>1. task[t].pc # "free"
        BY <1>6 DEF TaskStep, SkipInactive, EventMissing, Lookup, UnsafeUrl, MarkAttempt, Post, Record, WriteFails
    <2>2. task[t] \in Tasks /\ d \in Deliveries /\ w \in RowType /\ task[t].attempt \in 1..MAX_ATTEMPTS
        BY <2>1, <1>t, <1>r, LiveTask DEF Tasks
    <2>3. ASSUME NEW v, Update(d, v), v \in RowType,
                 v.proc \in {"idle", "processing"} => v.status = "pending" /\ v.attempt >= 1
          PROVE  row' \in [Deliveries -> RowType] /\ Attempted'
        BY <2>2, <2>3, <1>t DEF Update, TypeInv, TA, TypeOK, Attempted, RowType
    <2>4. ASSUME End(t) PROVE task' \in [Slots -> Tasks \cup {NoTask}]
        BY <2>4, <1>t DEF End, TypeOK
    <2>5. w.proc \in {"idle", "processing"} => w.status = "pending" /\ w.attempt >= 1
        BY <2>2 DEF TypeInv, TA, Attempted
    <2>c. -1 \in Never..LEASE /\ -1 \in Never..BACKOFF /\ Never = -1
        BY DEF Never
    <2> HIDE DEF d, w
    <2>6. CASE SkipInactive(t)
      <3> DEFINE v == [w EXCEPT !.status = "cancelled", !.proc = "done", !.lease = Never]
      <3>1. Update(d, v) /\ End(t) /\ UNCHANGED <<stored, active, patch, undispatched, retry, sends, budget>>
          BY <2>6 DEF SkipInactive, d, w
      <3>2. v \in RowType /\ v.proc = "done"
          BY <2>2, <2>c DEF RowType, Statuses
      <3> HIDE DEF v
      <3>3. row' \in [Deliveries -> RowType] /\ Attempted'
          BY <2>3, <3>1, <3>2
      <3> QED
          BY <3>1, <3>3, <2>4, <1>t DEF TypeInv, TA, TypeOK, RowType, budget
    <2>7. CASE EventMissing(t)
        BY <2>7, <2>4, <1>t DEF EventMissing, TypeInv, TA, TypeOK, Attempted, db, budget
    <2>13. CASE Lookup(t)
      <3>1. [task[t] EXCEPT !.pc = "check"] \in Tasks
          BY <2>2 DEF Tasks
      <3>2. task' \in [Slots -> Tasks \cup {NoTask}]
          BY <2>13, <3>1, <1>t DEF Lookup, TypeOK
      <3> QED
          BY <2>13, <3>2, <1>t DEF Lookup, TypeInv, TA, TypeOK, Attempted, db, budget
    <2>8. CASE UnsafeUrl(t)
      <3>1. End(t) /\ UNCHANGED <<stored, active, patch, undispatched, retry, sends, budget>>
          BY <2>8 DEF UnsafeUrl
      <3>2. CASE task[t].isNew
          BY <2>8, <3>1, <3>2, <2>4, <1>t DEF UnsafeUrl, TypeInv, TA, TypeOK, Attempted, budget
      <3>3. CASE ~task[t].isNew
        <4>1. Update(d, Failed(w))
            BY <2>8, <3>3 DEF UnsafeUrl, d, w
        <4>2. Failed(w) \in RowType /\ Failed(w).proc = "done"
            BY <2>2, RowForms
        <4>3. row' \in [Deliveries -> RowType] /\ Attempted'
            BY <2>3, <4>1, <4>2
        <4> QED
            BY <3>1, <4>3, <2>4, <1>t DEF TypeInv, TA, TypeOK, RowType, budget
      <3> QED
          BY <3>2, <3>3
    <2>9. CASE MarkAttempt(t)
      <3> DEFINE fresh == Row("pending", "processing", LEASE, Never, task[t].attempt)
                 again == [w EXCEPT !.attempt = task[t].attempt, !.status = "pending", !.next = Never]
                 v == IF task[t].isNew THEN fresh ELSE again
      <3>1. Update(d, v) /\ task' = [task EXCEPT ![t].pc = "post"]
            /\ UNCHANGED <<stored, active, patch, undispatched, retry, sends, budget>>
          BY <2>9 DEF MarkAttempt, d, w
      <3>2. fresh \in RowType /\ fresh.status = "pending" /\ fresh.attempt = task[t].attempt
          BY <2>2, RowForms DEF Row
      <3>3. again \in RowType /\ again.status = "pending" /\ again.attempt = task[t].attempt
        <4>1. task[t].attempt \in 0..MAX_ATTEMPTS /\ Never \in Never..BACKOFF
            BY <2>2, <2>c
        <4> QED
            BY <2>2, <4>1 DEF RowType, Statuses
      <3> HIDE DEF fresh, again
      <3>4. v \in RowType /\ v.status = "pending" /\ v.attempt >= 1
          BY <3>2, <3>3, <2>2
      <3> HIDE DEF v
      <3>5. row' \in [Deliveries -> RowType] /\ Attempted'
          BY <2>3, <3>1, <3>4
      <3>6. [task[t] EXCEPT !.pc = "post"] \in Tasks
          BY <2>2 DEF Tasks
      <3>7. task' \in [Slots -> Tasks \cup {NoTask}]
          BY <3>1, <3>6, <1>t DEF TypeOK
      <3> QED
          BY <3>1, <3>5, <3>7, <1>t DEF TypeInv, TA, TypeOK, RowType, budget
    <2>10. ASSUME NEW outcome \in {"ok", "error", "unsafe"}, Post(t, outcome) PROVE TA'
      <3>1. [task[t] EXCEPT !.pc = "record", !.outcome = outcome] \in Tasks
          BY <2>2 DEF Tasks
      <3>2. task' = [task EXCEPT ![t] = [task[t] EXCEPT !.pc = "record", !.outcome = outcome]]
          BY <2>10, <1>t DEF Post, TypeOK
      <3>3. task' \in [Slots -> Tasks \cup {NoTask}]
          BY <3>1, <3>2, <1>t DEF TypeOK
      <3>4. sends' \in [Deliveries -> Nat]
        <4>1. sends' = [sends EXCEPT ![d] = @ + 1] /\ sends \in [Deliveries -> Nat]
            BY <2>10, <1>t DEF Post, TypeOK, d
        <4> QED
            BY <4>1, <2>2
      <3> QED
          BY <2>10, <3>3, <3>4, <1>t DEF Post, TypeInv, TA, TypeOK, Attempted, db, budget
    <2>11. CASE Record(t)
      <3> DEFINE ok == [w EXCEPT !.status = "success", !.proc = "done", !.lease = Never]
                 v == CASE task[t].outcome = "ok" -> ok
                        [] task[t].outcome = "unsafe" -> Failed(w)
                        [] task[t].outcome = "error" -> scheduleRetryOrFail(w, task[t].attempt)
      <3>1. Update(d, v) /\ End(t) /\ UNCHANGED <<stored, active, patch, undispatched, retry, sends, budget>>
          BY <2>11 DEF Record, d, w
      <3>2. ok \in RowType /\ ok.proc = "done"
          BY <2>2, <2>c DEF RowType, Statuses
      <3> HIDE DEF ok
      <3>3. \/ v = ok \/ v = Failed(w) \/ v = scheduleRetryOrFail(w, task[t].attempt)
            \/ task[t].outcome = "none"
          BY <2>2 DEF Tasks
      <3>4. task[t].outcome # "none"
          BY <2>11 DEF TypeInv, TA, Posted, Record
      <3> HIDE DEF v
      <3>5. v \in RowType /\ (v.proc \in {"idle", "processing"} => v.status = "pending" /\ v.attempt >= 1)
          BY <2>2, <3>2, <3>3, <3>4, RowForms
      <3>6. row' \in [Deliveries -> RowType] /\ Attempted'
          BY <2>3, <3>1, <3>5
      <3> QED
          BY <3>1, <3>6, <2>4, <1>t DEF TypeInv, TA, TypeOK, RowType, budget
    <2>12. CASE WriteFails(t)
      <3>1. [task[t] EXCEPT !.outcome = "error"] \in Tasks
          BY <2>2 DEF Tasks
      <3>2. task' \in [Slots -> Tasks \cup {NoTask}]
          BY <2>12, <3>1, <2>4, <1>t DEF WriteFails, TypeOK
      <3> QED
          BY <2>12, <3>2, <1>t DEF WriteFails, Fault, TypeInv, TA, TypeOK, Attempted, db
    <2> QED
        BY <1>6, <2>6, <2>7, <2>8, <2>9, <2>10, <2>11, <2>12, <2>13 DEF TaskStep
  <1>7. CASE Deactivate
    <2>1. active' \in BOOLEAN /\ patch' = "cancel"
        BY <1>7, Zenon DEF Deactivate
    <2>2. patches' \in 0..MaxPatches
        BY <1>7, <1>t DEF Deactivate, TypeOK
    <2> QED
        BY <1>7, <2>1, <2>2 DEF Deactivate, TypeInv, TA, TypeOK, Attempted
  <1>8. CASE CancelPending
    <2>1. \A d \in Deliveries : row'[d] = IF row[d].status = "pending"
                 THEN [row[d] EXCEPT !.status = "cancelled", !.proc = "done", !.lease = Never, !.next = Never]
                 ELSE row[d]
        BY <1>8 DEF CancelPending
    <2>2. -1 \in Never..LEASE /\ -1 \in Never..BACKOFF /\ Never = -1
        BY DEF Never
    <2>3. \A d \in Deliveries : row'[d] \in RowType /\ (row'[d] = row[d] \/ row'[d].proc = "done")
        BY <2>1, <2>2, <1>r DEF RowType, Statuses
    <2>4. row' \in [Deliveries -> RowType]
        BY <1>8, <2>3 DEF CancelPending
    <2>5. Attempted'
        BY <2>3 DEF TypeInv, TA, Attempted
    <2> QED
        BY <1>8, <2>4, <2>5 DEF CancelPending, TypeInv, TA, TypeOK, RowType, budget
  <1>9. CASE Reactivate
      BY <1>9 DEF Reactivate, TypeInv, TA, TypeOK, Attempted
  <1>10. ASSUME NEW d \in Deliveries, DropEvent(d) PROVE TA'
      BY <1>10 DEF DropEvent, Fault, TypeInv, TA, TypeOK, Attempted
  <1>11. CASE Tick
    <2>1. \A d \in Deliveries : row'[d] = [row[d] EXCEPT !.lease = Less(row[d].lease), !.next = Less(row[d].next)]
        BY <1>11, <1>r DEF Tick, RowType
    <2>2. /\ \A n \in Never..LEASE : Less(n) \in Never..LEASE
          /\ \A n \in Never..BACKOFF : Less(n) \in Never..BACKOFF
        BY DEF Less, Never
    <2>3. \A d \in Deliveries : row'[d] \in RowType /\ row'[d].proc = row[d].proc
                               /\ row'[d].status = row[d].status /\ row'[d].attempt = row[d].attempt
      <3> TAKE d \in Deliveries
      <3>1. Less(row[d].lease) \in Never..LEASE /\ Less(row[d].next) \in Never..BACKOFF
          BY <2>2, <1>r DEF RowType
      <3> QED
          BY <2>1, <3>1, <1>r DEF RowType
    <2>4. row' \in [Deliveries -> RowType]
        BY <1>11, <2>3 DEF Tick
    <2>5. Attempted'
        BY <2>3 DEF TypeInv, TA, Attempted
    <2> QED
        BY <1>11, <2>4, <2>5 DEF Tick, TypeInv, TA, TypeOK, RowType, budget
  <1>12. CASE UNCHANGED vars
      BY <1>12 DEF vars, db, budget, TypeInv, TA, TypeOK, Attempted
  <1> QED
      BY <1>1, <1>2, <1>3, <1>4, <1>5, <1>6, <1>7, <1>8, <1>9, <1>10, <1>11, <1>12 DEF Next, RetryStep

\* A request is made before its outcome is recorded.
LEMMA PostedStep == TypeInv /\ [Next]_vars => Posted'
  <1> SUFFICES ASSUME TypeInv, [Next]_vars PROVE Posted'
      OBVIOUS
  <1>t. TypeOK /\ \A t \in Slots : task[t].pc = "record" => task[t].outcome # "none"
      BY DEF TypeInv, TA, Posted
  <1>n. NoTask.pc # "record"
      BY DEF NoTask
  <1>1. ASSUME NEW r \in Replicas, NEW d \in Deliveries, Dispatch(r, d) PROVE Posted'
    <2> DEFINE new == Task(r, d, 1, TRUE, TRUE)
    <2>1. new.pc = "check"
        BY DEF Task
    <2> HIDE DEF new
    <2>2. \A t \in Slots : task'[t] = task[t] \/ task'[t] = new
        BY <1>1, <1>t DEF Dispatch, TypeOK, new
    <2> QED
        BY <2>1, <2>2, <1>t DEF Posted
  <1>2. ASSUME NEW r \in Replicas, ClaimRows(r) PROVE Posted'
    <2> DEFINE updated == {d \in retry[r].ids : Claimable(row[d])}
               twin == {d \in retry[r].ids \ updated : row[d].proc = "processing" /\ row[d].lease = LEASE}
               claimed == updated \cup (IF Timely THEN {} ELSE twin)
    <2>0. StartTasks(r, claimed)
        BY <1>2 DEF ClaimRows
    <2> HIDE DEF claimed
    <2>1. PICK slot : task' = NewTable(r, claimed, slot, row, task, active)
        BY <2>0, StartTasksTable
    <2>2. \A d : RetryTask(r, d, row[d].attempt, active).pc = "start"
        BY DEF RetryTask, Task
    <2>3. \A t \in Slots : task'[t] = task[t] \/ task'[t].pc = "start"
        BY <2>1, <2>2, StartTasksShape
    <2> QED
        BY <2>3, <1>t DEF Posted
  <1>3. ASSUME NEW r \in Replicas, FindDue(r) \/ ClaimFails(r) PROVE Posted'
      BY <1>3, <1>t DEF FindDue, ClaimFails, Posted
  <1>4. ASSUME NEW r \in Replicas, Crash(r) PROVE Posted'
      BY <1>4, <1>t, <1>n DEF Crash, Posted
  <1>5. ASSUME NEW t \in Slots, TaskStep(t) PROVE Posted'
    <2>1. CASE End(t)
        BY <2>1, <1>t, <1>n DEF End, Posted, TypeOK
    <2>2. CASE task' = [task EXCEPT ![t].pc = "post"] \/ task' = [task EXCEPT ![t].pc = "check"]
        BY <2>2, <1>t DEF Posted, TypeOK, Tasks, NoTask
    <2>3. ASSUME NEW outcome \in {"ok", "error", "unsafe"}, Post(t, outcome) PROVE Posted'
      <3>1. task[t] \in Tasks
          BY <2>3, <1>t, LiveTask DEF Post
      <3> QED
          BY <2>3, <3>1, <1>t DEF Post, Posted, TypeOK, Tasks
    <2>4. ASSUME task' = [task EXCEPT ![t].outcome = "error"], task[t].pc # "free" PROVE Posted'
      <3>1. task[t] \in Tasks
          BY <2>4, <1>t, LiveTask
      <3> QED
          BY <2>4, <3>1, <1>t DEF Posted, TypeOK, Tasks
    <2> QED
        BY <1>5, <2>1, <2>2, <2>3, <2>4 DEF TaskStep, SkipInactive, EventMissing, Lookup, UnsafeUrl, MarkAttempt, Record, WriteFails
  <1>6. CASE Deactivate \/ CancelPending \/ Reactivate \/ (\E d \in Deliveries : DropEvent(d)) \/ Tick \/ UNCHANGED vars
      BY <1>6, <1>t DEF Deactivate, CancelPending, Reactivate, DropEvent, Tick, vars, Posted
  <1> QED
      BY <1>1, <1>2, <1>3, <1>4, <1>5, <1>6 DEF Next, RetryStep

\* The variables keep their types, and no attempt number exceeds MAX_ATTEMPTS, for
\* every setting, timely or not.
THEOREM TypeCorrect == Spec => []TypeOK
  <1>1. TypeInv /\ [Next]_vars => TypeInv'
      BY TypeStep, PostedStep DEF TypeInv
  <1>2. TypeInv => TypeOK
      BY DEF TypeInv, TA
  <1> QED
      BY TypeInit, <1>1, <1>2, PTL DEF Spec

----------------------------------------------------------------------------
(***************************************************************************)
(* While calls end within their lease.  A call in flight holds its row: no *)
(* claim takes a row that is done, or processing under a lease that is not *)
(* over.  A row that can be claimed has the number of its next attempt, and*)
(* fewer requests than that were sent for it; the row of a request whose   *)
(* outcome was never recorded has no nextRetryAt and is not found again.   *)
(***************************************************************************)
Untouched(d) ==
    row[d].proc = "none" /\ row[d].status = "none" /\ row[d].next = Never /\ sends[d] = 0

RowInv(d) ==
    /\ row[d].proc = "idle" => row[d].next # Never
    /\ row[d].next # Never => sends[d] < row[d].attempt
    /\ sends[d] <= MAX_ATTEMPTS
    /\ d \in undispatched => Untouched(d)

\* The row of a call that has begun is its own.
HoldsRow(d) ==
    /\ row[d].status \in {"pending", "cancelled"}
    /\ row[d].proc = "done" \/ (row[d].proc = "processing" /\ row[d].lease > 0)

TaskInv(t) ==
    /\ task[t].d \notin undispatched
    /\ (task[t].isNew /\ task[t].pc = "check") => Untouched(task[t].d)
    /\ ~(task[t].isNew /\ task[t].pc = "check") => HoldsRow(task[t].d)
    /\ task[t].pc \in {"start", "check", "post"} => sends[task[t].d] < task[t].attempt
    /\ task[t].pc = "record" => sends[task[t].d] <= task[t].attempt
    /\ task[t].pc \in {"post", "record"} => row[task[t].d].next = Never

\* A row that a claim has found and whose lease is over is still due.
StillDue(d) == row[d].proc = "processing" /\ row[d].lease = 0 => row[d].next # Never

ClaimInv(r) ==
    /\ retry[r].pc = "idle" => retry[r].ids = {}
    /\ \A d \in retry[r].ids : StillDue(d)

DispatchInv ==
    /\ TypeInv
    /\ ExclusiveDelivery
    /\ \A d \in Deliveries : RowInv(d)
    /\ \A t \in Slots : task[t].pc # "free" => TaskInv(t)
    /\ \A r \in Replicas : ClaimInv(r)

\* A step of call t that touches no other call and no other delivery's row keeps
\* the invariant if it leaves t and its row in order.
LEMMA TaskLocal ==
    ASSUME DispatchInv, TypeInv', NEW t \in Slots, task[t].pc # "free", NEW d \in Deliveries, d = task[t].d,
           \A u \in Slots : u # t => task'[u] = task[u],
           \A e \in Deliveries : e # d => row'[e] = row[e] /\ sends'[e] = sends[e],
           undispatched' = undispatched, retry' = retry,
           task'[t].pc = "free" \/ (task'[t].d = d /\ TaskInv(t)'),
           RowInv(d)', StillDue(d)'
    PROVE  DispatchInv'
  <1>t. TypeOK
      BY DEF DispatchInv, TypeInv, TA
  <1>1. ASSUME NEW u \in Slots, u # t, task[u].pc # "free"
        PROVE  task[u].d \in Deliveries /\ task[u].d # d
    <2>1. task[u] \in Tasks
        BY <1>1, <1>t, LiveTask
    <2>2. task[u].d # task[t].d
        BY <1>1 DEF DispatchInv, ExclusiveDelivery, live, free
    <2> QED
        BY <2>1, <2>2 DEF Tasks
  <1>2. ExclusiveDelivery'
    <2> SUFFICES ASSUME NEW u \in Slots, NEW v \in Slots, task'[u].pc # "free", task'[v].pc # "free",
                        task'[u].d = task'[v].d
                 PROVE  u = v
        BY DEF ExclusiveDelivery, live, free
    <2>1. CASE u # t /\ v # t
        BY <2>1 DEF DispatchInv, ExclusiveDelivery, live, free
    <2>2. CASE u = t /\ v # t
        BY <2>2, <1>1
    <2>3. CASE u # t /\ v = t
        BY <2>3, <1>1
    <2> QED
        BY <2>1, <2>2, <2>3
  <1>3. \A e \in Deliveries : RowInv(e)'
    <2> TAKE e \in Deliveries
    <2>1. CASE e # d
      <3>1. RowInv(e) /\ row'[e] = row[e] /\ sends'[e] = sends[e]
          BY <2>1 DEF DispatchInv
      <3> QED
          BY <3>1 DEF RowInv, Untouched
    <2> QED
        BY <2>1
  <1>4. ASSUME NEW u \in Slots, task'[u].pc # "free" PROVE TaskInv(u)'
    <2>1. CASE u # t
      <3>1. task'[u] = task[u] /\ task[u].pc # "free" /\ TaskInv(u)
          BY <1>4, <2>1 DEF DispatchInv
      <3>2. row'[task[u].d] = row[task[u].d] /\ sends'[task[u].d] = sends[task[u].d]
          BY <3>1, <2>1, <1>1
      <3> QED
          BY <3>1, <3>2 DEF TaskInv, Untouched, HoldsRow
    <2>2. CASE u = t
        BY <1>4, <2>2
    <2> QED
        BY <2>1, <2>2
  <1>5. \A r \in Replicas : ClaimInv(r)'
    <2> TAKE r \in Replicas
    <2>1. ClaimInv(r) /\ retry[r].ids \subseteq Deliveries
        BY <1>t DEF DispatchInv, TypeOK
    <2>2. ASSUME NEW e \in retry[r].ids PROVE StillDue(e)'
      <3>1. CASE e # d
          BY <2>1, <2>2, <3>1 DEF ClaimInv, StillDue
      <3> QED
          BY <3>1
    <2> QED
        BY <2>1, <2>2 DEF ClaimInv
  <1> QED
      BY <1>2, <1>3, <1>4, <1>5 DEF DispatchInv

\* What a call in flight knows of itself and of its row.
LEMMA CallFacts ==
    ASSUME DispatchInv, NEW t \in Slots, task[t].pc # "free"
    PROVE  /\ task[t] \in Tasks /\ task[t].d \in Deliveries /\ task[t].attempt \in 1..MAX_ATTEMPTS
           /\ row[task[t].d] \in RowType /\ sends[task[t].d] \in Nat
           /\ TaskInv(t) /\ RowInv(task[t].d)
           /\ row \in [Deliveries -> RowType] /\ sends \in [Deliveries -> Nat]
           /\ \A v \in {NoTask} \cup Tasks : [task EXCEPT ![t] = v][t] = v
  <1>1. TypeOK
      BY DEF DispatchInv, TypeInv, TA
  <1>2. task[t] \in Tasks
      BY <1>1, LiveTask
  <1> QED
      BY <1>1, <1>2 DEF DispatchInv, TypeOK, Tasks, RowType

\* A step of a call in flight keeps the invariant.
LEMMA CallStep ==
    ASSUME DispatchInv, TypeInv', NEW t \in Slots, TaskStep(t)
    PROVE  DispatchInv'
  <1> USE DispatcherAssumption
  <1>1. task[t].pc # "free"
      BY DEF TaskStep, SkipInactive, EventMissing, Lookup, UnsafeUrl, MarkAttempt, Post, Record, WriteFails
  <1>d. PICK d \in Deliveries : d = task[t].d
      BY <1>1, CallFacts
  <1> DEFINE w == row[d]
  <1>2. /\ task[t] \in Tasks /\ d \in Deliveries /\ task[t].attempt \in 1..MAX_ATTEMPTS
        /\ w \in RowType /\ sends[d] \in Nat /\ TaskInv(t) /\ RowInv(d)
        /\ row \in [Deliveries -> RowType] /\ sends \in [Deliveries -> Nat]
        /\ \A v \in {NoTask} \cup Tasks : [task EXCEPT ![t] = v][t] = v
      BY <1>1, <1>d, CallFacts
  <1>3. /\ \A v : Update(d, v) => row'[d] = v /\ \A e \in Deliveries : e # d => row'[e] = row[e]
        /\ \A v, u : task' = [task EXCEPT ![t] = v] /\ u \in Slots /\ u # t => task'[u] = task[u]
    <2>1. DOMAIN task = Slots
        BY DEF DispatchInv, TypeInv, TA, TypeOK
    <2> QED
        BY <1>2, <2>1 DEF Update
  <1>4. End(t) => task'[t].pc = "free" /\ \A u \in Slots : u # t => task'[u] = task[u]
      BY <1>2, <1>3, NoTaskFree DEF End
  <1>5. d \notin undispatched
      BY <1>2, <1>d DEF TaskInv
  <1>6. LEASE > 0 /\ Never = -1
      BY DEF Never
  <1> HIDE DEF w
  \* The row as it is, for a call that ends or fails.
  <1>7. ASSUME UNCHANGED <<row, sends>> PROVE undispatched' = undispatched => RowInv(d)' /\ StillDue(d)'
    <2>1. StillDue(d)
      <3>1. CASE task[t].isNew /\ task[t].pc = "check"
          BY <3>1, <1>2, <1>d DEF TaskInv, Untouched, StillDue
      <3>2. CASE ~(task[t].isNew /\ task[t].pc = "check")
          BY <3>2, <1>2, <1>d DEF TaskInv, HoldsRow, StillDue
      <3> QED
          BY <3>1, <3>2
    <2> QED
        BY <1>7, <1>2, <1>5, <2>1 DEF RowInv, StillDue, Untouched
  <1>8. CASE SkipInactive(t)
    <2> DEFINE v == [w EXCEPT !.status = "cancelled", !.proc = "done", !.lease = Never]
    <2>1. Update(d, v) /\ End(t) /\ UNCHANGED <<undispatched, retry, sends>>
        BY <1>8, <1>d DEF SkipInactive, w
    <2>2. v.proc = "done" /\ v.next = w.next /\ v.attempt = w.attempt
        BY <1>2 DEF RowType
    <2> HIDE DEF v
    <2>3. row'[d] = v
        BY <2>1, <1>3
    <2>4. RowInv(d)' /\ StillDue(d)'
        BY <2>1, <2>2, <2>3, <1>2, <1>5 DEF RowInv, StillDue, w
    <2> QED
        BY <2>1, <2>4, <1>1, <1>2, <1>3, <1>4, TaskLocal, <1>d
  <1>9. CASE EventMissing(t)
    <2>1. End(t) /\ UNCHANGED <<row, undispatched, retry, sends>>
        BY <1>9 DEF EventMissing, db
    <2> QED
        BY <2>1, <1>7, <1>1, <1>2, <1>4, TaskLocal, <1>d
  <1>15. CASE Lookup(t)
    <2>1. /\ task' = [task EXCEPT ![t] = [task[t] EXCEPT !.pc = "check"]]
          /\ UNCHANGED <<row, undispatched, retry, sends>> /\ task[t].pc = "start" /\ ~task[t].isNew
        BY <1>15 DEF Lookup, db
    <2>2. /\ [task[t] EXCEPT !.pc = "check"] \in Tasks
          /\ [task[t] EXCEPT !.pc = "check"].pc = "check" /\ [task[t] EXCEPT !.pc = "check"].d = d
          /\ [task[t] EXCEPT !.pc = "check"].attempt = task[t].attempt
          /\ ~[task[t] EXCEPT !.pc = "check"].isNew
        BY <1>2, <1>d, <2>1 DEF Tasks
    <2>3. task'[t].pc = "check" /\ task'[t].d = d /\ task'[t].attempt = task[t].attempt /\ ~task'[t].isNew
        BY <2>1, <2>2, <1>2
    <2>4. sends[d] < task[t].attempt /\ HoldsRow(d)
        BY <2>1, <1>2, <1>d DEF TaskInv
    <2>5. TaskInv(t)'
        BY <2>1, <2>3, <2>4, <1>5 DEF TaskInv, HoldsRow
    <2>6. \A u \in Slots : u # t => task'[u] = task[u]
        BY <2>1, <1>3
    <2> QED
        BY <2>1, <2>3, <2>5, <2>6, <1>7, <1>1, <1>2, TaskLocal, <1>d
  <1>10. CASE UnsafeUrl(t)
    <2>1. End(t) /\ UNCHANGED <<undispatched, retry, sends>>
        BY <1>10 DEF UnsafeUrl
    <2>2. CASE task[t].isNew
      <3>1. UNCHANGED row
          BY <1>10, <2>2 DEF UnsafeUrl
      <3> QED
          BY <2>1, <3>1, <1>7, <1>1, <1>2, <1>4, TaskLocal, <1>d
    <2>3. CASE ~task[t].isNew
      <3>1. Update(d, Failed(w))
          BY <1>10, <2>3, <1>d DEF UnsafeUrl, w
      <3>2. row'[d] = Failed(w) /\ Failed(w).proc = "done" /\ Failed(w).next = Never
          BY <3>1, <1>2, <1>3, RowForms
      <3>3. RowInv(d)' /\ StillDue(d)'
          BY <2>1, <3>2, <1>2, <1>5 DEF RowInv, StillDue
      <3> QED
          BY <2>1, <3>1, <3>3, <1>1, <1>2, <1>3, <1>4, TaskLocal, <1>d
    <2> QED
        BY <2>2, <2>3
  <1>11. CASE MarkAttempt(t)
    <2> DEFINE fresh == Row("pending", "processing", LEASE, Never, task[t].attempt)
               again == [w EXCEPT !.attempt = task[t].attempt, !.status = "pending", !.next = Never]
               v == IF task[t].isNew THEN fresh ELSE again
    <2>1. Update(d, v) /\ task' = [task EXCEPT ![t] = [task[t] EXCEPT !.pc = "post"]]
          /\ UNCHANGED <<undispatched, retry, sends>> /\ task[t].pc = "check"
        BY <1>11, <1>d DEF MarkAttempt, w
    <2>2. fresh.status = "pending" /\ fresh.next = Never /\ fresh.attempt = task[t].attempt
          /\ fresh.proc = "processing" /\ fresh.lease = LEASE
        BY DEF Row
    <2>3. again.status = "pending" /\ again.next = Never /\ again.attempt = task[t].attempt
          /\ again.proc = w.proc /\ again.lease = w.lease
        BY <1>2 DEF RowType
    <2> HIDE DEF fresh, again
    <2>4. /\ v.status = "pending" /\ v.next = Never /\ v.attempt = task[t].attempt
          /\ v.proc = "done" \/ (v.proc = "processing" /\ v.lease > 0)
      <3>1. CASE task[t].isNew
          BY <3>1, <2>2, <1>6
      <3>2. CASE ~task[t].isNew
        <4>1. HoldsRow(d)
            BY <3>2, <1>2, <1>d DEF TaskInv
        <4> QED
            BY <3>2, <4>1, <2>3 DEF HoldsRow, w
      <3> QED
          BY <3>1, <3>2
    <2> HIDE DEF v
    <2>5. row'[d] = v
        BY <2>1, <1>3
    <2>6. RowInv(d)' /\ StillDue(d)' /\ HoldsRow(d)'
        BY <2>1, <2>4, <2>5, <1>2, <1>5 DEF RowInv, StillDue, HoldsRow
    <2>7. /\ [task[t] EXCEPT !.pc = "post"] \in Tasks
          /\ [task[t] EXCEPT !.pc = "post"].pc = "post" /\ [task[t] EXCEPT !.pc = "post"].d = d
          /\ [task[t] EXCEPT !.pc = "post"].attempt = task[t].attempt
        BY <1>2, <1>d DEF Tasks
    <2>8. task'[t].pc = "post" /\ task'[t].d = d /\ task'[t].attempt = task[t].attempt
        BY <2>1, <2>7, <1>2
    <2>9. sends[d] < task[t].attempt
        BY <2>1, <1>2, <1>d DEF TaskInv
    <2>10. TaskInv(t)'
        BY <2>1, <2>4, <2>5, <2>6, <2>8, <2>9, <1>5 DEF TaskInv
    <2> QED
        BY <2>1, <2>6, <2>8, <2>10, <1>1, <1>2, <1>3, TaskLocal, <1>d
  <1>12. ASSUME NEW outcome \in {"ok", "error", "unsafe"}, Post(t, outcome) PROVE DispatchInv'
    <2> DEFINE new == [task[t] EXCEPT !.pc = "record", !.outcome = outcome]
    <2>1. /\ sends' = [sends EXCEPT ![d] = sends[d] + 1] /\ task' = [task EXCEPT ![t] = new]
          /\ UNCHANGED <<row, undispatched, retry>> /\ task[t].pc = "post"
        BY <1>12, <1>d DEF Post, db
    <2>2. new \in Tasks /\ new.pc = "record" /\ new.d = d /\ new.attempt = task[t].attempt
          /\ new.isNew = task[t].isNew
        BY <1>2, <1>d DEF Tasks
    <2> HIDE DEF new
    <2>3. task'[t] = new
        BY <2>1, <2>2, <1>2
    <2>4. sends'[d] = sends[d] + 1 /\ \A e \in Deliveries : e # d => sends'[e] = sends[e]
        BY <2>1, <1>2
    <2>5. sends[d] < task[t].attempt /\ row[d].next = Never /\ HoldsRow(d)
        BY <2>1, <1>2, <1>d DEF TaskInv
    <2>6. RowInv(d)' /\ StillDue(d)'
        BY <2>1, <2>4, <2>5, <1>2, <1>5 DEF RowInv, StillDue, HoldsRow
    <2>7. HoldsRow(d)'
        BY <2>1, <2>5 DEF HoldsRow
    <2>8. TaskInv(t)'
        BY <2>1, <2>2, <2>3, <2>4, <2>5, <2>7, <1>2, <1>5 DEF TaskInv
    <2> QED
        BY <2>1, <2>2, <2>3, <2>4, <2>6, <2>8, <1>1, <1>2, <1>3, TaskLocal, <1>d
  <1>13. CASE Record(t)
    <2> DEFINE ok == [w EXCEPT !.status = "success", !.proc = "done", !.lease = Never]
               v == CASE task[t].outcome = "ok" -> ok
                      [] task[t].outcome = "unsafe" -> Failed(w)
                      [] task[t].outcome = "error" -> scheduleRetryOrFail(w, task[t].attempt)
    <2>1. Update(d, v) /\ End(t) /\ UNCHANGED <<undispatched, retry, sends>> /\ task[t].pc = "record"
        BY <1>13, <1>d DEF Record, w
    <2>2. ok.proc = "done" /\ ok.next = w.next
        BY <1>2 DEF RowType
    <2> HIDE DEF ok
    <2>3. v = ok \/ v = Failed(w) \/ v = scheduleRetryOrFail(w, task[t].attempt)
      <3>1. task[t].outcome # "none"
          BY <2>1 DEF DispatchInv, TypeInv, Posted
      <3> QED
          BY <3>1, <1>2 DEF Tasks
    <2>4. w.next = Never /\ sends[d] <= task[t].attempt
        BY <2>1, <1>2, <1>d DEF TaskInv, w
    <2> HIDE DEF v
    <2>5. /\ v.proc \in {"done", "idle"}
          /\ v.proc = "idle" => v.next # Never
          /\ v.next # Never => sends[d] < v.attempt
      <3>1. Failed(w).proc = "done" /\ Failed(w).next = Never
          BY <1>2, RowForms
      <3>2. \/ scheduleRetryOrFail(w, task[t].attempt) = Failed(w)
            \/ /\ scheduleRetryOrFail(w, task[t].attempt).proc = "idle"
               /\ scheduleRetryOrFail(w, task[t].attempt).attempt = task[t].attempt + 1
               /\ scheduleRetryOrFail(w, task[t].attempt).next = BACKOFF
          BY <1>2, RowForms
      <3>3. CASE v = ok
          BY <3>3, <2>2, <2>4
      <3>4. CASE v = Failed(w)
          BY <3>1, <3>4
      <3>5. CASE v = scheduleRetryOrFail(w, task[t].attempt) /\ v # Failed(w)
          BY <3>2, <3>5, <2>4, <1>2, <1>6
      <3> QED
          BY <2>3, <3>3, <3>4, <3>5
    <2>6. row'[d] = v
        BY <2>1, <1>3
    <2>7. RowInv(d)' /\ StillDue(d)'
        BY <2>1, <2>5, <2>6, <1>2, <1>5 DEF RowInv, StillDue
    <2> QED
        BY <2>1, <2>7, <1>1, <1>2, <1>3, <1>4, TaskLocal, <1>d
  <1>14. CASE WriteFails(t)
    <2>1. UNCHANGED <<row, undispatched, retry, sends>>
        BY <1>14 DEF WriteFails, db
    <2>2. CASE End(t)
        BY <2>1, <2>2, <1>7, <1>1, <1>2, <1>4, TaskLocal, <1>d
    <2>3. CASE task' = [task EXCEPT ![t] = [task[t] EXCEPT !.outcome = "error"]]
      <3>1. /\ [task[t] EXCEPT !.outcome = "error"] \in Tasks
            /\ [task[t] EXCEPT !.outcome = "error"].pc = task[t].pc /\ [task[t] EXCEPT !.outcome = "error"].d = d
            /\ [task[t] EXCEPT !.outcome = "error"].attempt = task[t].attempt
            /\ [task[t] EXCEPT !.outcome = "error"].isNew = task[t].isNew
          BY <1>2, <1>d DEF Tasks
      <3>2. task'[t].pc = task[t].pc /\ task'[t].d = d /\ task'[t].attempt = task[t].attempt
            /\ task'[t].isNew = task[t].isNew
          BY <2>3, <3>1, <1>2
      <3>3. TaskInv(t)'
          BY <2>1, <3>2, <1>2, <1>d DEF TaskInv, Untouched, HoldsRow
      <3> QED
          BY <2>1, <2>3, <3>2, <3>3, <1>7, <1>1, <1>2, <1>3, TaskLocal, <1>d
    <2> QED
        BY <1>14, <2>2, <2>3 DEF WriteFails
  <1> QED
      BY <1>8, <1>9, <1>10, <1>11, <1>12, <1>13, <1>14, <1>15 DEF TaskStep

\* A step that leaves rows and requests alone and starts no call, at most ending
\* some.
LEMMA CallsEnd ==
    ASSUME DispatchInv, TypeInv', UNCHANGED <<row, sends, undispatched>>,
           \A t \in Slots : task'[t] = task[t] \/ task'[t].pc = "free",
           \A r \in Replicas : retry'[r] = retry[r] \/ ClaimInv(r)'
    PROVE  DispatchInv'
  <1>1. ExclusiveDelivery'
    <2> SUFFICES ASSUME NEW u \in Slots, NEW v \in Slots, task'[u].pc # "free", task'[v].pc # "free",
                        task'[u].d = task'[v].d
                 PROVE  u = v
        BY DEF ExclusiveDelivery, live, free
    <2> QED
        BY DEF DispatchInv, ExclusiveDelivery, live, free
  <1>2. \A d \in Deliveries : RowInv(d)'
      BY DEF DispatchInv, RowInv, Untouched
  <1>3. ASSUME NEW t \in Slots, task'[t].pc # "free" PROVE TaskInv(t)'
    <2>1. task'[t] = task[t] /\ TaskInv(t)
        BY <1>3 DEF DispatchInv
    <2> QED
        BY <2>1 DEF TaskInv, Untouched, HoldsRow
  <1>4. ASSUME NEW r \in Replicas PROVE ClaimInv(r)'
    <2>1. CASE retry'[r] = retry[r]
        BY <2>1 DEF DispatchInv, ClaimInv, StillDue
    <2> QED
        BY <2>1, <1>4
  <1> QED
      BY <1>1, <1>2, <1>3, <1>4 DEF DispatchInv

\* The first attempt is made by one call only, on a row that does not exist yet.
LEMMA DispatchStep ==
    ASSUME DispatchInv, TypeInv', NEW r \in Replicas, NEW d \in Deliveries, Dispatch(r, d)
    PROVE  DispatchInv'
  <1> DEFINE s == CHOOSE t \in free : TRUE
             new == Task(r, d, 1, TRUE, TRUE)
  <1>t. TypeOK
      BY DEF DispatchInv, TypeInv, TA
  <1>1. 1 \in 1..MAX_ATTEMPTS
      BY DispatcherAssumption
  <1>2. new.pc = "check" /\ new.d = d /\ new.attempt = 1 /\ new.isNew = TRUE
      BY DEF Task
  <1>3. /\ d \in undispatched /\ undispatched' = undispatched \ {d}
        /\ UNCHANGED <<row, retry, sends>>
      BY DEF Dispatch, db
  <1>4. UNCHANGED task \/ (s \in free /\ task' = [task EXCEPT ![s] = new])
      BY DEF Dispatch
  <1> HIDE DEF s, new
  <1>5. ASSUME NEW t \in Slots, task'[t].pc # "free"
        PROVE  \/ task'[t] = task[t]
               \/ t = s /\ task'[t] = new
      BY <1>4, <1>t DEF TypeOK
  <1>6. Untouched(d)
      BY <1>3 DEF DispatchInv, RowInv
  <1>7. ExclusiveDelivery'
    <2> SUFFICES ASSUME NEW u \in Slots, NEW v \in Slots, task'[u].pc # "free", task'[v].pc # "free",
                        task'[u].d = task'[v].d
                 PROVE  u = v
        BY DEF ExclusiveDelivery, live, free
    <2>1. ASSUME NEW x \in Slots, task[x].pc # "free" PROVE task[x].d # d
        BY <2>1, <1>3 DEF DispatchInv, TaskInv
    <2> QED
        BY <2>1, <1>2, <1>5 DEF DispatchInv, ExclusiveDelivery, live, free
  <1>8. \A e \in Deliveries : RowInv(e)'
      BY <1>3 DEF DispatchInv, RowInv, Untouched
  <1>9. ASSUME NEW t \in Slots, task'[t].pc # "free" PROVE TaskInv(t)'
    <2>1. CASE task'[t] = task[t]
      <3>1. TaskInv(t)
          BY <1>9, <2>1 DEF DispatchInv
      <3> QED
          BY <3>1, <2>1, <1>3 DEF TaskInv, Untouched, HoldsRow
    <2>2. CASE task'[t] = new
      <3>1. Untouched(d)'
          BY <1>6, <1>3 DEF Untouched
      <3>2. task'[t].pc = "check" /\ task'[t].d = d /\ task'[t].attempt = 1 /\ task'[t].isNew = TRUE
          BY <2>2, <1>2
      <3>3. sends'[d] = 0
          BY <3>1 DEF Untouched
      <3> QED
          BY <3>1, <3>2, <3>3, <1>3 DEF TaskInv
    <2> QED
        BY <2>1, <2>2, <1>5, <1>9
  <1>10. \A e \in Replicas : ClaimInv(e)'
      BY <1>3 DEF DispatchInv, ClaimInv, StillDue
  <1> QED
      BY <1>7, <1>8, <1>9, <1>10 DEF DispatchInv

\* A claim takes rows that nobody holds, one call for each of them.
LEMMA ClaimStep ==
    ASSUME Timely, DispatchInv, TypeInv', NEW r \in Replicas, ClaimRows(r)
    PROVE  DispatchInv'
  <1> DEFINE updated == {d \in retry[r].ids : Claimable(row[d])}
             twin == {d \in retry[r].ids \ updated : row[d].proc = "processing" /\ row[d].lease = LEASE}
  <1>t. TypeOK
      BY DEF DispatchInv, TypeInv, TA
  <1>1. /\ StartTasks(r, updated \cup (IF Timely THEN {} ELSE twin))
        /\ row' = [d \in Deliveries |->
                     IF d \in updated
                     THEN [row[d] EXCEPT !.proc = "processing", !.lease = LEASE] ELSE row[d]]
        /\ retry' = [retry EXCEPT ![r] = NoRetry]
        /\ UNCHANGED <<undispatched, sends>>
      BY DEF ClaimRows
  <1>2. StartTasks(r, updated)
    <2>1. updated \cup (IF Timely THEN {} ELSE twin) = updated
        OBVIOUS
    <2> QED
        BY <1>1, <2>1
  <1>3. PICK slot : task' = NewTable(r, updated, slot, row, task, active)
      BY <1>2, StartTasksTable
  \* The claimed rows.
  <1>4. ASSUME NEW d \in updated
        PROVE  /\ d \in Deliveries /\ row[d] \in RowType /\ sends[d] \in Nat
               /\ Claimable(row[d]) /\ row[d].status = "pending" /\ row[d].attempt \in 1..MAX_ATTEMPTS
               /\ row[d].next # Never /\ sends[d] < row[d].attempt /\ d \notin undispatched
    <2>1. d \in Deliveries /\ d \in retry[r].ids /\ Claimable(row[d])
        BY <1>4, <1>t DEF TypeOK
    <2>2. row[d] \in RowType /\ sends[d] \in Nat
        BY <2>1, <1>t DEF TypeOK, RowType
    <2>3. row[d].status = "pending" /\ row[d].attempt \in 1..MAX_ATTEMPTS
        BY <2>1, <2>2, DispatcherAssumption DEF DispatchInv, TypeInv, TA, Attempted, Claimable, RowType
    <2>4. RowInv(d) /\ StillDue(d)
        BY <2>1 DEF DispatchInv, ClaimInv
    <2>5. row[d].next # Never
        BY <2>1, <2>4 DEF RowInv, StillDue, Claimable
    <2>6. d \notin undispatched
        BY <2>1, <2>4 DEF RowInv, Untouched, Claimable
    <2> QED
        BY <2>1, <2>2, <2>3, <2>4, <2>5, <2>6 DEF RowInv
  <1>5. ASSUME NEW d \in Deliveries
        PROVE  /\ d \notin updated => row'[d] = row[d]
               /\ d \in updated => /\ row'[d].proc = "processing" /\ row'[d].lease = LEASE
                                   /\ row'[d].status = row[d].status /\ row'[d].next = row[d].next
                                   /\ row'[d].attempt = row[d].attempt
    <2>1. row'[d] = IF d \in updated
                    THEN [row[d] EXCEPT !.proc = "processing", !.lease = LEASE] ELSE row[d]
        BY <1>1
    <2>2. row[d] \in RowType
        BY <1>t DEF TypeOK, RowType
    <2> HIDE DEF updated
    <2> QED
        BY <2>1, <2>2 DEF RowType
  <1>6. ASSUME NEW t \in Slots, task[t].pc # "free"
        PROVE  task[t].d \in Deliveries /\ task[t].d \notin updated
    <2>1. task[t].d \in Deliveries /\ TaskInv(t)
        BY <1>6, CallFacts
    <2>2. ~Claimable(row[task[t].d])
      <3>1. CASE task[t].isNew /\ task[t].pc = "check"
          BY <3>1, <2>1 DEF TaskInv, Untouched, Claimable
      <3>2. CASE ~(task[t].isNew /\ task[t].pc = "check")
          BY <3>2, <2>1 DEF TaskInv, HoldsRow, Claimable
      <3> QED
          BY <3>1, <3>2
    <2> QED
        BY <2>1, <2>2
  <1> HIDE DEF updated
  \* The calls of the new table.
  <1>7. ASSUME NEW t \in Slots
        PROVE  \/ task'[t] = task[t]
               \/ \E d \in updated : slot[d] = t /\ task'[t] = RetryTask(r, d, row[d].attempt, active)
      BY <1>3, StartTasksShape
  <1>8. ASSUME NEW d \in updated
        PROVE  /\ RetryTask(r, d, row[d].attempt, active).pc = "start"
               /\ RetryTask(r, d, row[d].attempt, active).d = d
               /\ RetryTask(r, d, row[d].attempt, active).attempt = row[d].attempt
               /\ RetryTask(r, d, row[d].attempt, active).isNew = FALSE
      BY DEF RetryTask, Task
  <1>9. ExclusiveDelivery'
    <2> SUFFICES ASSUME NEW u \in Slots, NEW v \in Slots, task'[u].pc # "free", task'[v].pc # "free",
                        task'[u].d = task'[v].d
                 PROVE  u = v
        BY DEF ExclusiveDelivery, live, free
    <2>1. CASE task'[u] = task[u] /\ task'[v] = task[v]
        BY <2>1 DEF DispatchInv, ExclusiveDelivery, live, free
    <2>2. CASE task'[u] = task[u] /\ task'[v] # task[v]
      <3>1. PICK d \in updated : task'[v] = RetryTask(r, d, row[d].attempt, active)
          BY <2>2, <1>7
      <3>2. task'[v].d = d
          BY <3>1, <1>8, Zenon
      <3>3. task[u].d \notin updated
          BY <2>2, <1>6
      <3> QED
          BY <2>2, <3>2, <3>3
    <2>3. CASE task'[u] # task[u] /\ task'[v] = task[v]
      <3>1. PICK d \in updated : task'[u] = RetryTask(r, d, row[d].attempt, active)
          BY <2>3, <1>7
      <3>2. task'[u].d = d
          BY <3>1, <1>8, Zenon
      <3>3. task[v].d \notin updated
          BY <2>3, <1>6
      <3> QED
          BY <2>3, <3>2, <3>3
    <2>4. CASE task'[u] # task[u] /\ task'[v] # task[v]
      <3>1. PICK d \in updated : slot[d] = u /\ task'[u] = RetryTask(r, d, row[d].attempt, active)
          BY <2>4, <1>7
      <3>2. PICK e \in updated : slot[e] = v /\ task'[v] = RetryTask(r, e, row[e].attempt, active)
          BY <2>4, <1>7
      <3>3. task'[u].d = d /\ task'[v].d = e
          BY <3>1, <3>2, <1>8, Zenon
      <3> QED
          BY <3>1, <3>2, <3>3
    <2> QED
        BY <2>1, <2>2, <2>3, <2>4
  <1>10. ASSUME NEW d \in Deliveries PROVE RowInv(d)'
    <2>1. RowInv(d)
        BY DEF DispatchInv
    <2>2. CASE d \in updated
        BY <2>1, <2>2, <1>1, <1>4, <1>5 DEF RowInv
    <2>3. CASE d \notin updated
        BY <2>1, <2>3, <1>1, <1>5 DEF RowInv, Untouched
    <2> QED
        BY <2>2, <2>3
  <1>11. ASSUME NEW t \in Slots, task'[t].pc # "free" PROVE TaskInv(t)'
    <2>1. CASE task'[t] = task[t]
      <3>1. TaskInv(t) /\ row'[task[t].d] = row[task[t].d]
          BY <1>11, <2>1, <1>5, <1>6 DEF DispatchInv
      <3> QED
          BY <3>1, <2>1, <1>1 DEF TaskInv, Untouched, HoldsRow
    <2>2. ASSUME NEW d \in updated, task'[t] = RetryTask(r, d, row[d].attempt, active) PROVE TaskInv(t)'
      <3>1. task'[t].pc = "start" /\ task'[t].d = d /\ task'[t].attempt = row[d].attempt /\ task'[t].isNew = FALSE
          BY <2>2, <1>8
      <3>2. HoldsRow(d)'
          BY <1>4, <1>5, DispatcherAssumption DEF HoldsRow
      <3> QED
          BY <3>1, <3>2, <1>1, <1>4 DEF TaskInv
    <2> QED
        BY <2>1, <2>2, <1>7
  <1>12. ASSUME NEW q \in Replicas PROVE ClaimInv(q)'
    <2>1. CASE q = r
      <3>1. retry'[q] = NoRetry
          BY <2>1, <1>1, <1>t DEF TypeOK
      <3> QED
          BY <3>1 DEF ClaimInv, NoRetry
    <2>2. CASE q # r
      <3>1. retry'[q] = retry[q] /\ retry[q].ids \subseteq Deliveries /\ ClaimInv(q)
          BY <2>2, <1>1, <1>t DEF TypeOK, DispatchInv
      <3>2. ASSUME NEW d \in retry[q].ids PROVE StillDue(d)'
          BY <3>1, <1>5, DispatcherAssumption DEF ClaimInv, StillDue
      <3> QED
          BY <3>1, <3>2 DEF ClaimInv
    <2> QED
        BY <2>1, <2>2
  <1> QED
      BY <1>9, <1>10, <1>11, <1>12 DEF DispatchInv

\* Deactivation takes the rows out of the reach of claims, calls or no calls.
LEMMA CancelStep ==
    ASSUME DispatchInv, TypeInv', CancelPending
    PROVE  DispatchInv'
  <1>t. TypeOK
      BY DEF DispatchInv, TypeInv, TA
  <1>1. UNCHANGED <<undispatched, retry, task, sends>>
      BY DEF CancelPending
  <1>2. ASSUME NEW d \in Deliveries
        PROVE  /\ row[d].status # "pending" => row'[d] = row[d]
               /\ row[d].status = "pending" => /\ row'[d].status = "cancelled" /\ row'[d].proc = "done"
                                               /\ row'[d].next = Never
    <2>1. row'[d] = IF row[d].status = "pending"
                    THEN [row[d] EXCEPT !.status = "cancelled", !.proc = "done",
                                        !.lease = Never, !.next = Never]
                    ELSE row[d]
        BY DEF CancelPending
    <2>2. row[d] \in RowType
        BY <1>t DEF TypeOK, RowType
    <2> QED
        BY <2>1, <2>2 DEF RowType
  <1>3. ExclusiveDelivery'
      BY <1>1 DEF DispatchInv, ExclusiveDelivery, live, free
  <1>4. ASSUME NEW d \in Deliveries PROVE RowInv(d)'
      BY <1>1, <1>2 DEF DispatchInv, RowInv, Untouched
  <1>5. ASSUME NEW t \in Slots, task'[t].pc # "free" PROVE TaskInv(t)'
    <2>1. task[t].d \in Deliveries /\ TaskInv(t)
        BY <1>1, <1>5, CallFacts
    <2> QED
        BY <2>1, <1>1, <1>2 DEF TaskInv, Untouched, HoldsRow
  <1>6. ASSUME NEW r \in Replicas PROVE ClaimInv(r)'
    <2>1. ClaimInv(r) /\ retry[r].ids \subseteq Deliveries
        BY <1>t DEF DispatchInv, TypeOK
    <2> QED
        BY <2>1, <1>1, <1>2 DEF ClaimInv, StillDue
  <1> QED
      BY <1>3, <1>4, <1>5, <1>6 DEF DispatchInv

\* Time does not run past the lease of a call in flight.
LEMMA TickStep ==
    ASSUME Timely, DispatchInv, TypeInv', Tick
    PROVE  DispatchInv'
  <1>t. TypeOK
      BY DEF DispatchInv, TypeInv, TA
  <1>1. UNCHANGED <<undispatched, retry, task, sends>>
      BY DEF Tick
  <1>2. ASSUME NEW d \in Deliveries
        PROVE  /\ row[d] \in RowType
               /\ row'[d].status = row[d].status /\ row'[d].proc = row[d].proc
               /\ row'[d].attempt = row[d].attempt
               /\ row'[d].lease = Less(row[d].lease) /\ row'[d].next = Less(row[d].next)
    <2>1. row[d] \in RowType
        BY <1>t DEF TypeOK, RowType
    <2>2. row'[d] = [row[d] EXCEPT !.lease = Less(row[d].lease), !.next = Less(row[d].next)]
        BY <2>1 DEF Tick, RowType
    <2> QED
        BY <2>1, <2>2 DEF RowType
  <1>3. ASSUME NEW n \in Never..BACKOFF PROVE Less(n) = Never <=> n = Never
      BY DEF Less, Never
  <1>4. ASSUME NEW d \in Deliveries PROVE row'[d].next = Never <=> row[d].next = Never
      BY <1>2, <1>3 DEF RowType
  <1>5. ExclusiveDelivery'
      BY <1>1 DEF DispatchInv, ExclusiveDelivery, live, free
  <1>6. ASSUME NEW d \in Deliveries PROVE RowInv(d)'
      BY <1>1, <1>2, <1>4 DEF DispatchInv, RowInv, Untouched
  <1>7. ASSUME NEW t \in Slots, task'[t].pc # "free" PROVE TaskInv(t)'
    <2> PICK d \in Deliveries : d = task[t].d
        BY <1>1, <1>7, CallFacts
    <2>1. TaskInv(t)
        BY <1>1, <1>7 DEF DispatchInv
    <2>2. (task[t].isNew /\ task[t].pc = "check") \/ row[d].lease > 1
        BY <1>1, <1>7 DEF Tick, live, free
    <2>3. row[d].lease > 1 => Less(row[d].lease) > 0
        BY <1>2 DEF Less, RowType, Never
    <2>4. (task[t].isNew /\ task[t].pc = "check") => Untouched(d)'
        BY <2>1, <1>1, <1>2, <1>4 DEF TaskInv, Untouched
    <2>5. ~(task[t].isNew /\ task[t].pc = "check") => HoldsRow(d)'
        BY <2>1, <2>2, <2>3, <1>2 DEF TaskInv, HoldsRow
    <2> QED
        BY <2>1, <2>4, <2>5, <1>1, <1>4 DEF TaskInv
  <1>8. ASSUME NEW r \in Replicas PROVE ClaimInv(r)'
      BY <1>1 DEF Tick, DispatchInv, ClaimInv
  <1> QED
      BY <1>5, <1>6, <1>7, <1>8 DEF DispatchInv

LEMMA DispatchInit == Init => DispatchInv
  <1> SUFFICES ASSUME Init PROVE DispatchInv
      OBVIOUS
  <1>1. TypeInv
      BY TypeInit
  <1>2. ASSUME NEW d \in Deliveries PROVE RowInv(d)
    <2>1. row[d] = NoDelivery /\ sends[d] = 0
        BY DEF Init
    <2>2. Untouched(d)
        BY <2>1 DEF Untouched, NoDelivery, Row
    <2>3. row[d].proc = "none" /\ row[d].next = Never
        BY <2>1 DEF NoDelivery, Row
    <2>4. sends[d] <= MAX_ATTEMPTS
        BY <2>1, DispatcherAssumption
    <2> QED
        BY <2>2, <2>3, <2>4 DEF RowInv
  <1>3. \A t \in Slots : task[t].pc = "free"
      BY NoTaskFree DEF Init
  <1>4. \A r \in Replicas : ClaimInv(r)
      BY DEF Init, ClaimInv, NoRetry
  <1> QED
      BY <1>1, <1>2, <1>3, <1>4 DEF DispatchInv, ExclusiveDelivery, live, free

LEMMA DispatchInvStep ==
    ASSUME Timely, DispatchInv, [Next]_vars
    PROVE  DispatchInv'
  <1>t. TypeInv'
      BY TypeStep, PostedStep DEF DispatchInv, TypeInv
  <1>0. TypeOK
      BY DEF DispatchInv, TypeInv, TA
  <1>1. ASSUME NEW r \in Replicas, NEW d \in Deliveries, Dispatch(r, d) PROVE DispatchInv'
      BY <1>1, <1>t, DispatchStep
  <1>2. ASSUME NEW r \in Replicas, FindDue(r) PROVE DispatchInv'
    <2>1. UNCHANGED <<row, sends, undispatched, task>>
        BY <1>2 DEF FindDue, db
    <2>2. ASSUME NEW q \in Replicas PROVE retry'[q] = retry[q] \/ ClaimInv(q)'
      <3>1. retry'[q] = retry[q] \/ retry'[q] = [pc |-> "claim", ids |-> {d \in Deliveries : Due(row[d])}]
          BY <1>2, <1>0 DEF FindDue, TypeOK
      <3>2. \A d \in Deliveries : Due(row[d]) => row[d].next # Never
          BY DEF Due, Never
      <3> QED
          BY <3>1, <3>2, <2>1 DEF ClaimInv, StillDue
    <2> QED
        BY <2>1, <2>2, <1>t, CallsEnd
  <1>3. ASSUME NEW r \in Replicas, ClaimRows(r) PROVE DispatchInv'
      BY <1>3, <1>t, ClaimStep
  <1>4. ASSUME NEW r \in Replicas, ClaimFails(r) \/ Crash(r) PROVE DispatchInv'
    <2>1. UNCHANGED <<row, sends, undispatched>> /\ retry' = [retry EXCEPT ![r] = NoRetry]
        BY <1>4 DEF ClaimFails, Crash, db
    <2>2. \A q \in Replicas : retry'[q] = retry[q] \/ ClaimInv(q)'
        BY <2>1, <1>0 DEF TypeOK, ClaimInv, NoRetry
    <2>3. \A t \in Slots : task'[t] = task[t] \/ task'[t].pc = "free"
        BY <1>4, NoTaskFree DEF ClaimFails, Crash
    <2> QED
        BY <2>1, <2>2, <2>3, <1>t, CallsEnd
  <1>5. ASSUME NEW t \in Slots, TaskStep(t) PROVE DispatchInv'
      BY <1>5, <1>t, CallStep
  <1>6. CASE CancelPending
      BY <1>6, <1>t, CancelStep
  <1>7. CASE Tick
      BY <1>7, <1>t, TickStep
  <1>8. CASE Deactivate \/ Reactivate \/ (\E d \in Deliveries : DropEvent(d)) \/ UNCHANGED vars
    <2>1. UNCHANGED <<row, sends, undispatched, task, retry>>
        BY <1>8 DEF Deactivate, Reactivate, DropEvent, vars, db
    <2> QED
        BY <2>1, <1>t, CallsEnd
  <1> QED
      BY <1>1, <1>2, <1>3, <1>4, <1>5, <1>6, <1>7, <1>8 DEF Next, RetryStep

\* While calls end within their lease, no two calls in flight deliver the same
\* event, whatever crashes, failures and cancellations come between.
THEOREM DeliveryIsExclusive ==
    ASSUME Timely
    PROVE  Spec => []ExclusiveDelivery
  <1>1. DispatchInv /\ [Next]_vars => DispatchInv'
      BY DispatchInvStep
  <1>2. DispatchInv => ExclusiveDelivery
      BY DEF DispatchInv
  <1> QED
      BY DispatchInit, <1>1, <1>2, PTL DEF Spec

\* While calls end within their lease, a subscriber gets at most MAX_ATTEMPTS
\* requests for one event.
THEOREM RequestsBounded ==
    ASSUME Timely
    PROVE  Spec => []AttemptsBounded
  <1>1. DispatchInv /\ [Next]_vars => DispatchInv'
      BY DispatchInvStep
  <1>2. DispatchInv => AttemptsBounded
      BY DEF DispatchInv, RowInv, AttemptsBounded
  <1> QED
      BY DispatchInit, <1>1, <1>2, PTL DEF Spec

\* A settled row belongs to no call, and no claim takes it.
LEMMA SettledStep ==
    ASSUME DispatchInv, [Next]_vars, NEW d \in Deliveries, row[d].status \in {"success", "failed"}
    PROVE  row'[d].status = row[d].status
  <1>t. TypeOK
      BY DEF DispatchInv, TypeInv, TA
  <1>1. CASE UNCHANGED row
      BY <1>1
  <1>2. ASSUME NEW r \in Replicas, ClaimRows(r) PROVE row'[d].status = row[d].status
    <2>1. ~Claimable(row[d])
        BY DEF DispatchInv, TypeInv, TA, Attempted, Claimable
    <2> QED
        BY <1>2, <2>1 DEF ClaimRows
  <1>3. ASSUME NEW t \in Slots, TaskStep(t), ~UNCHANGED row PROVE row'[d].status = row[d].status
    <2>1. task[t].pc # "free" /\ \E v : Update(task[t].d, v)
        BY <1>3 DEF TaskStep, SkipInactive, EventMissing, Lookup, UnsafeUrl, MarkAttempt, Post,
                    Record, WriteFails, db
    <2>2. TaskInv(t)
        BY <2>1 DEF DispatchInv
    <2>3. task[t].d # d
        BY <2>2 DEF TaskInv, Untouched, HoldsRow
    <2> QED
        BY <2>1, <2>3 DEF Update
  <1>4. CASE CancelPending
      BY <1>4 DEF CancelPending
  <1>5. CASE Tick
      BY <1>5, <1>t DEF Tick, TypeOK
  <1> QED
      BY <1>1, <1>2, <1>3, <1>4, <1>5 DEF Next, RetryStep, Dispatch, FindDue, ClaimFails, Crash, Deactivate,
                                          Reactivate, DropEvent, vars, db

\* While calls end within their lease, a delivery that succeeded or failed for
\* good keeps its status.
THEOREM SettledForGood ==
    ASSUME Timely
    PROVE  Spec => SettledIsFinal
  <1>1. DispatchInv /\ [Next]_vars => DispatchInv'
      BY DispatchInvStep
  <1>2. DispatchInv /\ [Next]_vars =>
            [\A d \in Deliveries : row[d].status \in {"success", "failed"} => row'[d].status = row[d].status]_vars
      BY SettledStep
  <1> QED
      BY DispatchInit, <1>1, <1>2, PTL DEF Spec, SettledIsFinal

----------------------------------------------------------------------------
(***************************************************************************)
(* Whether or not calls end within their lease.                            *)
(***************************************************************************)

\* An event that was not dispatched has no row and no call.
Undelivered ==
    \A d \in undispatched :
        row[d].status = "none" /\ \A t \in Slots : task[t].pc # "free" => task[t].d # d

OrderInv == TypeInv /\ Undelivered

\* The new calls of a step: for an event just dispatched, or for a row that a
\* claim took; and the rows they leave alone.
LEMMA NewCalls ==
    ASSUME OrderInv, [Next]_vars, NEW t \in Slots, task'[t].pc # "free"
    PROVE  \/ task[t].pc # "free" /\ task'[t].d = task[t].d /\ task'[t].isNew = task[t].isNew
              /\ \/ task'[t].pc = task[t].pc
                 \/ task[t].pc \in {"check", "post"}
                 \/ task[t].pc = "start" /\ task[t].d \in stored
           \/ task'[t].d \in undispatched \ undispatched'
           \/ /\ task'[t].d \in Deliveries /\ row[task'[t].d].status = "pending"
              /\ task'[t].isNew = FALSE /\ task'[t].pc = "start"
  <1>t. TypeOK
      BY DEF OrderInv, TypeInv, TA
  <1> DEFINE Goal ==
           \/ task[t].pc # "free" /\ task'[t].d = task[t].d /\ task'[t].isNew = task[t].isNew
              /\ \/ task'[t].pc = task[t].pc
                 \/ task[t].pc \in {"check", "post"}
                 \/ task[t].pc = "start" /\ task[t].d \in stored
           \/ task'[t].d \in undispatched \ undispatched'
           \/ /\ task'[t].d \in Deliveries /\ row[task'[t].d].status = "pending"
              /\ task'[t].isNew = FALSE /\ task'[t].pc = "start"
  <1>1. CASE task'[t] = task[t]
      BY <1>1
  <1>2. ASSUME NEW r \in Replicas, NEW d \in Deliveries, Dispatch(r, d), task'[t] # task[t] PROVE Goal
    <2>1. task'[t] = Task(r, d, 1, TRUE, TRUE) /\ d \in undispatched /\ undispatched' = undispatched \ {d}
        BY <1>2, <1>t DEF Dispatch, TypeOK
    <2>2. task'[t].d = d
        BY <2>1 DEF Task
    <2> QED
        BY <2>1, <2>2
  <1>3. ASSUME NEW r \in Replicas, ClaimRows(r), task'[t] # task[t] PROVE Goal
    <2> DEFINE updated == {d \in retry[r].ids : Claimable(row[d])}
               twin == {d \in retry[r].ids \ updated : row[d].proc = "processing" /\ row[d].lease = LEASE}
               claimed == updated \cup (IF Timely THEN {} ELSE twin)
    <2>0. StartTasks(r, claimed)
        BY <1>3 DEF ClaimRows
    <2>1. \A d \in claimed : d \in Deliveries /\ row[d].status = "pending"
        BY <1>t DEF OrderInv, TypeInv, TA, Attempted, Claimable, TypeOK
    <2> HIDE DEF claimed
    <2>2. PICK slot : task' = NewTable(r, claimed, slot, row, task, active)
        BY <2>0, StartTasksTable
    <2>3. PICK d \in claimed : task'[t] = RetryTask(r, d, row[d].attempt, active)
        BY <2>2, <1>3, StartTasksShape
    <2>4. task'[t].d = d /\ task'[t].isNew = FALSE /\ task'[t].pc = "start"
        BY <2>3 DEF RetryTask, Task
    <2> QED
        BY <2>1, <2>4
  <1>4. ASSUME NEW u \in Slots, TaskStep(u), task'[t] # task[t] PROVE Goal
    <2>1. t = u
        BY <1>4, <1>t DEF TaskStep, SkipInactive, EventMissing, Lookup, UnsafeUrl, MarkAttempt, Post, Record,
                          WriteFails, End, TypeOK
    <2>2. task[t].pc # "free"
        BY <1>4, <2>1 DEF TaskStep, SkipInactive, EventMissing, Lookup, UnsafeUrl, MarkAttempt, Post,
                          Record, WriteFails
    <2>3. task[t] \in Tasks
        BY <2>2, <1>t, LiveTask
    <2>4. ~End(t)
        BY <1>t, NoTaskFree DEF End, TypeOK
    <2>5. \/ MarkAttempt(t) \/ Lookup(t)
          \/ \E outcome \in {"ok", "error", "unsafe"} : Post(t, outcome)
          \/ task' = [task EXCEPT ![t].outcome = "error"]
        BY <1>4, <2>1, <2>4 DEF TaskStep, SkipInactive, EventMissing, UnsafeUrl, Record, WriteFails
    <2>6. CASE MarkAttempt(t)
        BY <2>2, <2>3, <2>6, <1>t DEF MarkAttempt, TypeOK, Tasks
    <2>9. CASE Lookup(t)
        BY <2>2, <2>3, <2>9, <1>t DEF Lookup, TypeOK, Tasks
    <2>7. CASE \E outcome \in {"ok", "error", "unsafe"} : Post(t, outcome)
        BY <2>2, <2>3, <2>7, <1>t DEF Post, TypeOK, Tasks
    <2>8. CASE task' = [task EXCEPT ![t].outcome = "error"]
        BY <2>2, <2>3, <2>8, <1>t DEF TypeOK, Tasks
    <2> QED
        BY <2>5, <2>6, <2>7, <2>8, <2>9
  <1>5. ASSUME NEW r \in Replicas, FindDue(r) \/ ClaimFails(r) PROVE task'[t] = task[t]
      BY <1>5 DEF FindDue, ClaimFails
  <1>6. ASSUME NEW r \in Replicas, Crash(r) PROVE task'[t] = task[t]
      BY <1>6, NoTaskFree DEF Crash
  <1>7. CASE Deactivate \/ CancelPending \/ Reactivate \/ (\E d \in Deliveries : DropEvent(d)) \/ Tick \/ UNCHANGED vars
      BY <1>7 DEF Deactivate, CancelPending, Reactivate, DropEvent, Tick, vars
  <1> QED
      BY <1>1, <1>2, <1>3, <1>4, <1>5, <1>6, <1>7 DEF Next, RetryStep

\* The rows a step may give another status: pending ones, and those of calls.
LEMMA StatusKept ==
    ASSUME OrderInv, [Next]_vars, NEW d \in Deliveries, row[d].status # "pending",
           \A t \in Slots : task[t].pc # "free" => task[t].d # d
    PROVE  row'[d].status = row[d].status
  <1>t. TypeOK
      BY DEF OrderInv, TypeInv, TA
  <1>1. CASE UNCHANGED row
      BY <1>1
  <1>2. ASSUME NEW r \in Replicas, ClaimRows(r) PROVE row'[d].status = row[d].status
    <2>1. ~Claimable(row[d])
        BY DEF OrderInv, TypeInv, TA, Attempted, Claimable
    <2> QED
        BY <1>2, <2>1 DEF ClaimRows
  <1>3. ASSUME NEW t \in Slots, TaskStep(t), ~UNCHANGED row PROVE row'[d].status = row[d].status
    <2>1. task[t].pc # "free" /\ \E v : Update(task[t].d, v)
        BY <1>3 DEF TaskStep, SkipInactive, EventMissing, Lookup, UnsafeUrl, MarkAttempt, Post,
                    Record, WriteFails, db
    <2> QED
        BY <2>1 DEF Update
  <1>4. CASE CancelPending
      BY <1>4 DEF CancelPending
  <1>5. CASE Tick
      BY <1>5, <1>t DEF Tick, TypeOK
  <1> QED
      BY <1>1, <1>2, <1>3, <1>4, <1>5 DEF Next, RetryStep, Dispatch, FindDue, ClaimFails, Crash, Deactivate,
                                          Reactivate, DropEvent, vars, db

LEMMA OrderStep == OrderInv /\ [Next]_vars => OrderInv'
  <1> SUFFICES ASSUME OrderInv, [Next]_vars PROVE OrderInv'
      OBVIOUS
  <1>1. TypeInv'
      BY TypeStep, PostedStep DEF OrderInv, TypeInv
  <1>2. undispatched' \subseteq undispatched /\ undispatched \subseteq Deliveries
      BY DEF OrderInv, TypeInv, TA, TypeOK, Next, RetryStep, TaskStep, Dispatch, FindDue, ClaimRows, ClaimFails,
             Crash, SkipInactive, EventMissing, Lookup, UnsafeUrl, MarkAttempt, Post, Record, WriteFails, Deactivate,
             CancelPending, Reactivate, DropEvent, Tick, vars
  <1>3. ASSUME NEW d \in undispatched' PROVE row'[d].status = "none"
      BY <1>2, <1>3, StatusKept DEF OrderInv, Undelivered
  <1>4. ASSUME NEW d \in undispatched', NEW t \in Slots, task'[t].pc # "free" PROVE task'[t].d # d
      BY <1>2, <1>4, NewCalls DEF OrderInv, Undelivered
  <1> QED
      BY <1>1, <1>3, <1>4 DEF OrderInv, Undelivered

LEMMA OrderInit == Init => OrderInv
  <1> SUFFICES ASSUME Init PROVE OrderInv
      OBVIOUS
  <1>1. TypeInv
      BY TypeInit
  <1>2. Undelivered
      BY NoTaskFree DEF Init, Undelivered, NoDelivery, Row
  <1> QED
      BY <1>1, <1>2 DEF OrderInv

\* A cancelled delivery that no call works on stays cancelled and is not claimed,
\* by an old claim, a new one, or after a reactivation.
THEOREM CancelledForGood == Spec => CancelledStays
  <1>1. ASSUME OrderInv, [Next]_vars, NEW d \in Deliveries, row[d].status = "cancelled", InFlight(d) = {}
        PROVE  row'[d].status = "cancelled" /\ InFlight(d)' = {}
    <2>1. \A t \in Slots : task[t].pc # "free" => task[t].d # d
        BY <1>1 DEF InFlight, live, free
    <2>2. row'[d].status = "cancelled"
        BY <1>1, <2>1, StatusKept
    <2>3. ASSUME NEW t \in Slots, task'[t].pc # "free" PROVE task'[t].d # d
        BY <1>1, <2>1, <2>3, NewCalls DEF OrderInv, Undelivered
    <2> QED
        BY <2>2, <2>3 DEF InFlight, live, free
  <1>2. OrderInv /\ [Next]_vars =>
            [\A d \in Deliveries : row[d].status = "cancelled" /\ InFlight(d) = {}
                 => row'[d].status = "cancelled" /\ InFlight(d)' = {}]_vars
      BY <1>1
  <1> QED
      BY OrderInit, OrderStep, <1>2, PTL DEF Spec, CancelledStays

\* A delivery whose event is gone and whose payload no call holds is claimed again
\* and again, but no request is sent for it.
THEOREM LostNotSent == Spec => LostIsNotSent
  <1>1. ASSUME OrderInv, [Next]_vars, NEW d \in Deliveries, d \notin stored, ~PayloadHeld(d)
        PROVE  sends'[d] = sends[d] /\ ~PayloadHeld(d)'
    <2>1. d \notin undispatched
          /\ \A t \in Slots : task[t].pc # "free" /\ task[t].d = d => ~task[t].isNew /\ task[t].pc = "start"
        BY <1>1 DEF PayloadHeld, InFlight, live, free
    <2>2. sends'[d] = sends[d]
      <3>1. CASE UNCHANGED sends
          BY <3>1
      <3>2. ASSUME NEW t \in Slots, NEW outcome \in {"ok", "error", "unsafe"}, Post(t, outcome)
            PROVE  sends'[d] = sends[d]
        <4>1. task[t].d # d
            BY <2>1, <3>2 DEF Post
        <4> QED
            BY <3>2, <4>1 DEF Post
      <3> QED
          BY <1>1, <3>1, <3>2 DEF Next, RetryStep, TaskStep, Dispatch, FindDue, ClaimRows, ClaimFails,
             Crash, SkipInactive, EventMissing, Lookup, UnsafeUrl, MarkAttempt, Record, WriteFails, Deactivate,
             CancelPending, Reactivate, DropEvent, Tick, vars
    <2>3. d \notin undispatched'
        BY <1>1, <2>1 DEF Next, RetryStep, TaskStep, Dispatch, FindDue, ClaimRows, ClaimFails,
             Crash, SkipInactive, EventMissing, Lookup, UnsafeUrl, MarkAttempt, Post, Record, WriteFails, Deactivate,
             CancelPending, Reactivate, DropEvent, Tick, vars
    <2>4. ASSUME NEW t \in Slots, task'[t].pc # "free", task'[t].d = d
          PROVE  ~task'[t].isNew /\ task'[t].pc = "start"
        BY <1>1, <2>1, <2>4, NewCalls
    <2> QED
        BY <2>2, <2>3, <2>4 DEF PayloadHeld, InFlight, live, free
  <1>2. OrderInv /\ [Next]_vars =>
            [\A d \in Deliveries : d \notin stored /\ ~PayloadHeld(d)
                 => sends'[d] = sends[d] /\ ~PayloadHeld(d)']_vars
      BY <1>1
  <1> QED
      BY OrderInit, OrderStep, <1>2, PTL DEF Spec, LostIsNotSent

----------------------------------------------------------------------------
(***************************************************************************)
(* The dispatcher implements AbstractDelivery while calls end within their *)
(* lease.  Each lemma shows one abstract step of one delivery d: the state *)
(* of d is the status of its row, its requests and the calls at work on it.*)
(***************************************************************************)
\* The steps of AbstractDelivery, read in the state of the dispatcher.
LEMMA AbstractSteps ==
    ASSUME NEW d \in Deliveries
    PROVE  /\ Delivery!Busy(d) <=> InFlight(d) # {}
           /\ row'[d].status = row[d].status /\ InFlight(d)' = InFlight(d) /\ Sent(d)' = Sent(d)
                /\ sends'[d] = sends[d] => Delivery!Step(d)
           /\ row[d].status \in {"none", "pending"} /\ row'[d].status = row[d].status /\ InFlight(d) = {}
                /\ (\E t \in Slots : InFlight(d)' = {t}) /\ Sent(d)' = {}
                /\ sends'[d] = sends[d] => Delivery!Step(d)
           /\ InFlight(d) # {} /\ InFlight(d)' = {} /\ row'[d].status = row[d].status
                /\ sends'[d] = sends[d] => Delivery!Step(d)
           /\ row[d].status = "pending" /\ row'[d].status = "cancelled" /\ InFlight(d)' = InFlight(d)
                /\ Sent(d)' = Sent(d) /\ sends'[d] = sends[d] => Delivery!Step(d)
           /\ row[d].status \notin {"success", "failed"} /\ row'[d].status = "pending"
                /\ InFlight(d) \ Sent(d) # {} /\ InFlight(d)' = InFlight(d) /\ Sent(d)' = Sent(d)
                /\ sends'[d] = sends[d] => Delivery!Step(d)
           /\ row[d].status \notin {"success", "failed"} /\ InFlight(d) # {} /\ InFlight(d)' = {}
                /\ row'[d].status \in {"pending", "success", "failed", "cancelled"}
                /\ (row'[d].status = "success" => Sent(d) # {})
                /\ (row'[d].status = "pending" => sends[d] < MAX_ATTEMPTS)
                /\ sends'[d] = sends[d] => Delivery!Step(d)
           /\ row[d].status \notin {"success", "failed"} /\ row'[d].status = row[d].status
                /\ sends[d] < MAX_ATTEMPTS /\ sends'[d] = sends[d] + 1
                /\ (\E t \in Slots : InFlight(d) = {t} /\ InFlight(d)' = {t} /\ Sent(d) = {} /\ Sent(d)' = {t})
                => Delivery!Step(d)
  <1>0. Sent(d) \subseteq InFlight(d) /\ Sent(d)' \subseteq InFlight(d)'
      BY DEF Sent
  <1> DEFINE o == InFlight(d) \ Sent(d)
             n == InFlight(d)' \ Sent(d)'
  <1>1. Delivery!Busy(d) <=> o # {} \/ Sent(d) # {}
      BY DEF Delivery!Busy
  <1>2. Delivery!NoCall(d) <=> n = {} /\ Sent(d)' = {}
      BY DEF Delivery!NoCall
  <1>3. Delivery!SameCalls(d) <=> n = o /\ Sent(d)' = Sent(d)
      BY DEF Delivery!SameCalls
  <1>4. Delivery!Same(d) <=> row'[d].status = row[d].status /\ Delivery!SameCalls(d) /\ sends'[d] = sends[d]
      BY DEF Delivery!Same
  <1>5. Delivery!Begin(d) <=> /\ ~Delivery!Busy(d) /\ row[d].status \in {"none", "pending"}
                              /\ \E t \in Slots : n = {t}
                              /\ Sent(d)' = {}
                              /\ row'[d].status = row[d].status /\ sends'[d] = sends[d]
      BY DEF Delivery!Begin
  <1>6. Delivery!Mark(d) <=> /\ o # {} /\ row[d].status \notin {"success", "failed"}
                             /\ row'[d].status = "pending"
                             /\ Delivery!SameCalls(d) /\ sends'[d] = sends[d]
      BY DEF Delivery!Mark, Delivery!Settled
  <1>7. Delivery!Send(d) <=> /\ sends[d] < MAX_ATTEMPTS /\ row[d].status \notin {"success", "failed"}
                             /\ \E t \in o : n = o \ {t} /\ Sent(d)' = Sent(d) \cup {t}
                             /\ sends'[d] = sends[d] + 1
                             /\ row'[d].status = row[d].status
      BY DEF Delivery!Send, Delivery!Settled
  <1>8. Delivery!Finish(d) <=> /\ Delivery!Busy(d) /\ row[d].status \notin {"success", "failed"}
                               /\ row'[d].status \in {"pending", "success", "failed", "cancelled"}
                               /\ row'[d].status = "success" => Sent(d) # {}
                               /\ row'[d].status = "pending" => sends[d] < MAX_ATTEMPTS
                               /\ Delivery!NoCall(d) /\ sends'[d] = sends[d]
      BY DEF Delivery!Finish, Delivery!Settled
  <1>9. Delivery!Abandon(d) <=> /\ Delivery!Busy(d) /\ Delivery!NoCall(d)
                                /\ row'[d].status = row[d].status /\ sends'[d] = sends[d]
      BY DEF Delivery!Abandon
  <1>10. Delivery!Cancel(d) <=> /\ row[d].status = "pending" /\ row'[d].status = "cancelled"
                                /\ Delivery!SameCalls(d) /\ sends'[d] = sends[d]
      BY DEF Delivery!Cancel
  <1> QED
      BY <1>0, <1>1, <1>2, <1>3, <1>4, <1>5, <1>6, <1>7, <1>8, <1>9, <1>10 DEF Delivery!Step

\* A call in flight is the only one at work on its delivery.
LEMMA OneAtWork ==
    ASSUME DispatchInv, NEW t \in Slots, task[t].pc # "free"
    PROVE  InFlight(task[t].d) = {t}
  BY DEF DispatchInv, ExclusiveDelivery, InFlight, live, free

\* A delivery whose status and requests stay and for which no call begins: its
\* call goes on or is abandoned.
LEMMA QuietStep ==
    ASSUME DispatchInv, NEW d \in Deliveries, row'[d].status = row[d].status, sends'[d] = sends[d],
           \A t \in Slots : task'[t] = task[t] \/ task'[t].pc = "free" \/ task'[t].d # d
    PROVE  Delivery!Step(d)
  <1>1. InFlight(d)' \subseteq InFlight(d)
      BY DEF InFlight, live, free
  <1>2. InFlight(d)' = InFlight(d) \/ (InFlight(d) # {} /\ InFlight(d)' = {})
    <2> SUFFICES ASSUME NEW t \in InFlight(d), t \notin InFlight(d)'
                 PROVE  InFlight(d)' = {}
        BY <1>1
    <2>1. InFlight(d) = {t}
        BY OneAtWork DEF InFlight, live, free
    <2> QED
        BY <1>1, <2>1
  <1>3. InFlight(d)' = InFlight(d) => Sent(d)' = Sent(d)
      BY DEF Sent, InFlight, live, free
  <1> QED
      BY <1>2, <1>3, AbstractSteps

\* What a step of a call leaves alone.
LEMMA OthersKept ==
    ASSUME DispatchInv, NEW t \in Slots, TaskStep(t)
    PROVE  /\ task[t].pc # "free"
           /\ \A u \in Slots : u # t => task'[u] = task[u]
           /\ task'[t].pc = "free" \/ task'[t].d = task[t].d
           /\ \A d \in Deliveries : d # task[t].d => row'[d] = row[d] /\ sends'[d] = sends[d]
  <1>1. task[t].pc # "free"
      BY DEF TaskStep, SkipInactive, EventMissing, Lookup, UnsafeUrl, MarkAttempt, Post, Record, WriteFails
  <1>2. TypeOK /\ task[t] \in Tasks
      BY <1>1, CallFacts DEF DispatchInv, TypeInv, TA
  <1>3. row' = row \/ \E v : Update(task[t].d, v)
      BY DEF TaskStep, SkipInactive, EventMissing, Lookup, UnsafeUrl, MarkAttempt, Post, Record, WriteFails, db
  <1>4. sends' = sends \/ \E outcome \in {"ok", "error", "unsafe"} : Post(t, outcome)
      BY DEF TaskStep, SkipInactive, EventMissing, Lookup, UnsafeUrl, MarkAttempt, Record, WriteFails
  <1>5. \A d \in Deliveries : d # task[t].d => row'[d] = row[d] /\ sends'[d] = sends[d]
      BY <1>2, <1>3, <1>4 DEF Update, Post, TypeOK
  <1>6. \/ End(t)
        \/ task' = [task EXCEPT ![t].pc = "post"] \/ task' = [task EXCEPT ![t].pc = "check"]
        \/ \E o \in {"ok", "error", "unsafe"} : task' = [task EXCEPT ![t].pc = "record", ![t].outcome = o]
        \/ task' = [task EXCEPT ![t].outcome = "error"]
      BY DEF TaskStep, SkipInactive, EventMissing, Lookup, UnsafeUrl, MarkAttempt, Post, Record, WriteFails
  <1>7. /\ \A u \in Slots : u # t => task'[u] = task[u]
        /\ task'[t].pc = "free" \/ task'[t].d = task[t].d
      BY <1>2, <1>6, NoTaskFree DEF End, TypeOK, Tasks
  <1> QED
      BY <1>1, <1>5, <1>7

\* Every step of a call is a step of its delivery and of no other.
LEMMA CallImplements ==
    ASSUME DispatchInv, NEW t \in Slots, TaskStep(t), NEW d \in Deliveries
    PROVE  Delivery!Step(d)
  <1> USE DispatcherAssumption
  <1>1. /\ task[t].pc # "free"
        /\ \A u \in Slots : u # t => task'[u] = task[u]
        /\ task'[t].pc = "free" \/ task'[t].d = task[t].d
        /\ \A e \in Deliveries : e # task[t].d => row'[e] = row[e] /\ sends'[e] = sends[e]
      BY OthersKept
  <1>2. CASE d # task[t].d
    <2>1. InFlight(d)' = InFlight(d) /\ Sent(d)' = Sent(d)
        BY <1>1, <1>2 DEF InFlight, Sent, live, free
    <2> QED
        BY <1>1, <1>2, <2>1, AbstractSteps
  <1>3. CASE d = task[t].d
    <2>1. /\ task[t] \in Tasks /\ task[t].attempt \in 1..MAX_ATTEMPTS
          /\ row[d] \in RowType /\ sends[d] \in Nat /\ TaskInv(t) /\ RowInv(d)
          /\ row \in [Deliveries -> RowType] /\ sends \in [Deliveries -> Nat]
          /\ \A v \in {NoTask} \cup Tasks : [task EXCEPT ![t] = v][t] = v
        BY <1>1, <1>3, CallFacts
    <2>t. TypeOK
        BY DEF DispatchInv, TypeInv, TA
    <2>2. InFlight(d) = {t} /\ InFlight(d)' = (IF task'[t].pc = "free" THEN {} ELSE {t})
      <3>1. InFlight(d) = {t}
          BY <1>1, <1>3, OneAtWork
      <3>2. \A u \in Slots : u # t => (u \in InFlight(d)' <=> u \in InFlight(d))
          BY <1>1 DEF InFlight, live, free
      <3>3. t \in InFlight(d)' <=> task'[t].pc # "free"
          BY <1>1, <1>3 DEF InFlight, live, free
      <3> QED
          BY <3>1, <3>2, <3>3 DEF InFlight, live, free
    <2>3. /\ Sent(d) = (IF task[t].pc = "record" THEN {t} ELSE {})
          /\ Sent(d)' = (IF task'[t].pc = "record" THEN {t} ELSE {})
        BY <2>2 DEF Sent
    <2>4. row[d].status \notin {"success", "failed"}
        BY <1>3, <2>1 DEF TaskInv, Untouched, HoldsRow
    <2>5. ASSUME NEW v, Update(task[t].d, v) PROVE row'[d] = v
        BY <1>3, <2>1, <2>5 DEF Update
    <2>6. End(t) => task'[t].pc = "free"
        BY <2>t, NoTaskFree DEF End, TypeOK
    <2>7. ASSUME End(t), row' = row, sends' = sends PROVE Delivery!Step(d)
        BY <1>1, <2>6, <2>7, QuietStep
    <2>8. CASE SkipInactive(t)
      <3>1. row'[d].status = "cancelled" /\ sends' = sends /\ task'[t].pc = "free"
          BY <1>3, <2>1, <2>5, <2>6, <2>8 DEF SkipInactive, RowType
      <3> QED
          BY <2>2, <2>4, <3>1, AbstractSteps
    <2>9. CASE EventMissing(t)
        BY <2>7, <2>9 DEF EventMissing, db
    <2>15. CASE Lookup(t)
      <3>1. task[t].pc = "start" /\ task'[t].pc = "check" /\ row' = row /\ sends' = sends
          BY <2>1, <2>t, <2>15 DEF Lookup, Tasks, TypeOK, db
      <3> QED
          BY <2>2, <2>3, <3>1, AbstractSteps
    <2>10. CASE UnsafeUrl(t)
      <3>1. End(t) /\ sends' = sends
          BY <2>10 DEF UnsafeUrl
      <3>2. CASE row' = row
          BY <2>7, <3>1, <3>2
      <3>3. CASE Update(task[t].d, Failed(row[task[t].d]))
        <4>1. row'[d].status = "failed"
            BY <1>3, <2>1, <2>5, <3>3, RowForms
        <4> QED
            BY <2>2, <2>4, <2>6, <3>1, <4>1, AbstractSteps
      <3> QED
          BY <2>10, <3>2, <3>3 DEF UnsafeUrl
    <2>11. CASE MarkAttempt(t)
      <3>1. task[t].pc = "check" /\ task'[t].pc = "post" /\ sends' = sends
          BY <2>1, <2>t, <2>11 DEF MarkAttempt, Tasks, TypeOK
      <3>2. row'[d].status = "pending"
        <4>1. CASE task[t].isNew
            BY <1>3, <2>5, <2>11, <4>1 DEF MarkAttempt, Row
        <4>2. CASE ~task[t].isNew
            BY <1>3, <2>1, <2>5, <2>11, <4>2 DEF MarkAttempt, RowType
        <4> QED
            BY <4>1, <4>2
      <3> QED
          BY <2>2, <2>3, <2>4, <3>1, <3>2, AbstractSteps
    <2>12. ASSUME NEW outcome \in {"ok", "error", "unsafe"}, Post(t, outcome) PROVE Delivery!Step(d)
      <3>1. task[t].pc = "post" /\ task'[t].pc = "record" /\ row' = row
          BY <2>1, <2>t, <2>12 DEF Post, Tasks, TypeOK, db
      <3>2. sends'[d] = sends[d] + 1 /\ sends[d] < MAX_ATTEMPTS
          BY <1>3, <2>1, <2>12, <3>1 DEF Post, TaskInv
      <3> QED
          BY <2>2, <2>3, <2>4, <3>1, <3>2, AbstractSteps
    <2>13. CASE Record(t)
      <3> DEFINE w == row[d]
                 v == CASE task[t].outcome = "ok" ->
                             [w EXCEPT !.status = "success", !.proc = "done", !.lease = Never]
                        [] task[t].outcome = "unsafe" -> Failed(w)
                        [] task[t].outcome = "error" -> scheduleRetryOrFail(w, task[t].attempt)
      <3>1. task[t].pc = "record" /\ task'[t].pc = "free" /\ sends' = sends /\ Update(task[t].d, v)
          BY <1>3, <2>6, <2>13 DEF Record
      <3>2. row'[d] = v
          BY <2>5, <3>1
      <3>3. task[t].outcome \in {"ok", "unsafe", "error"}
          BY <2>1, <3>1 DEF DispatchInv, TypeInv, Posted, Tasks
      <3>4. v.status \in {"pending", "success", "failed"} /\ (v.status = "pending" => sends[d] < MAX_ATTEMPTS)
        <4>1. CASE task[t].outcome = "ok"
            BY <2>1, <4>1 DEF RowType
        <4>2. CASE task[t].outcome = "unsafe"
            BY <2>1, <4>2, RowForms
        <4>3. CASE task[t].outcome = "error"
          <5>1. v = scheduleRetryOrFail(w, task[t].attempt)
              BY <4>3
          <5> HIDE DEF v
          <5>2. \/ v.status = "failed"
                \/ v.status = "pending" /\ task[t].attempt + 1 <= MAX_ATTEMPTS
            <6>1. Failed(w).status = "failed"
                BY <2>1 DEF Failed, RowType
            <6> QED
                BY <2>1, <5>1, <6>1 DEF scheduleRetryOrFail, Row
          <5>3. sends[d] <= task[t].attempt
              BY <1>3, <2>1, <3>1 DEF TaskInv
          <5> QED
              BY <2>1, <5>2, <5>3
        <4> QED
            BY <3>3, <4>1, <4>2, <4>3
      <3> HIDE DEF v
      <3> QED
          BY <2>2, <2>3, <2>4, <3>1, <3>2, <3>4, AbstractSteps
    <2>14. CASE WriteFails(t)
      <3>1. row' = row /\ sends' = sends
          BY <2>14 DEF WriteFails, db
      <3>2. CASE End(t)
          BY <2>7, <3>1, <3>2
      <3>3. CASE task' = [task EXCEPT ![t].outcome = "error"]
        <4>1. task'[t].pc = task[t].pc
            BY <2>1, <2>t, <3>3 DEF Tasks, TypeOK
        <4> QED
            BY <1>1, <2>2, <2>3, <3>1, <4>1, AbstractSteps
      <3> QED
          BY <2>14, <3>2, <3>3 DEF WriteFails
    <2> QED
        BY <2>8, <2>9, <2>10, <2>11, <2>12, <2>13, <2>14, <2>15 DEF TaskStep
  <1> QED
      BY <1>2, <1>3

\* A claim begins the deliveries it takes and leaves the others as they are.
LEMMA ClaimImplements ==
    ASSUME Timely, DispatchInv, DispatchInv', NEW r \in Replicas, ClaimRows(r), NEW d \in Deliveries
    PROVE  Delivery!Step(d)
  <1> DEFINE updated == {e \in retry[r].ids : Claimable(row[e])}
             twin == {e \in retry[r].ids \ updated : row[e].proc = "processing" /\ row[e].lease = LEASE}
  <1>t. TypeOK
      BY DEF DispatchInv, TypeInv, TA
  <1>1. /\ StartTasks(r, updated)
        /\ row'[d].status = row[d].status /\ sends' = sends
    <2>1. updated \cup (IF Timely THEN {} ELSE twin) = updated
        OBVIOUS
    <2>2. StartTasks(r, updated)
        BY <2>1 DEF ClaimRows
    <2>3. row'[d] = IF d \in updated THEN [row[d] EXCEPT !.proc = "processing", !.lease = LEASE] ELSE row[d]
        BY DEF ClaimRows
    <2> HIDE DEF updated
    <2> QED
        BY <2>2, <2>3, <1>t DEF ClaimRows, TypeOK
  <1>2. PICK slot : task' = NewTable(r, updated, slot, row, task, active)
      BY <1>1, StartTasksTable
  <1>3. ASSUME NEW e \in updated PROVE e \in Deliveries /\ Claimable(row[e]) /\ row[e].status = "pending"
      BY <1>3, <1>t DEF TypeOK, DispatchInv, TypeInv, TA, Attempted, Claimable
  <1>4. ASSUME NEW t \in Slots, task[t].pc # "free" PROVE task[t].d \notin updated
    <2>1. task[t].d \in Deliveries /\ TaskInv(t)
        BY <1>4, CallFacts
    <2>2. ~Claimable(row[task[t].d])
      <3>1. CASE task[t].isNew /\ task[t].pc = "check"
          BY <3>1, <2>1 DEF TaskInv, Untouched, Claimable
      <3>2. CASE ~(task[t].isNew /\ task[t].pc = "check")
          BY <3>2, <2>1 DEF TaskInv, HoldsRow, Claimable
      <3> QED
          BY <3>1, <3>2
    <2> QED
        BY <2>1, <2>2
  <1> HIDE DEF updated
  <1>5. ASSUME NEW t \in Slots
        PROVE  \/ task'[t] = task[t]
               \/ \E e \in updated : slot[e] = t /\ task'[t].pc = "start" /\ task'[t].d = e
    <2>1. CASE task'[t] = task[t]
        BY <2>1
    <2>2. ASSUME NEW e \in updated, slot[e] = t, task'[t] = RetryTask(r, e, row[e].attempt, active)
          PROVE  slot[e] = t /\ task'[t].pc = "start" /\ task'[t].d = e
        BY <2>2 DEF RetryTask, Task
    <2> QED
        BY <2>1, <2>2, <1>2, StartTasksShape
  <1>6. CASE d \notin updated
    <2>1. ASSUME NEW t \in Slots PROVE task'[t] = task[t] \/ task'[t].d # d
        BY <1>5, <1>6
    <2> QED
        BY <1>1, <2>1, QuietStep
  <1>7. CASE d \in updated
    <2>1. InFlight(d) = {} /\ row[d].status = "pending"
        BY <1>3, <1>4, <1>7 DEF InFlight, live, free
    <2>2. Sent(d) = {}
        BY <2>1 DEF Sent
    <2>3. ASSUME NEW t \in InFlight(d)' PROVE task'[t].pc = "start"
      <3>1. t \in Slots /\ task'[t].pc # "free" /\ task'[t].d = d
          BY <2>3 DEF InFlight, live, free
      <3>2. task'[t] # task[t]
          BY <2>1, <3>1 DEF InFlight, live, free
      <3> QED
          BY <1>5, <3>1, <3>2
    <2>4. Sent(d)' = {}
        BY <2>3 DEF Sent
    <2>5. InFlight(d)' = {} \/ \E t \in Slots : InFlight(d)' = {t}
        BY DEF DispatchInv, ExclusiveDelivery, InFlight, live, free
    <2> QED
        BY <1>1, <2>1, <2>2, <2>4, <2>5, AbstractSteps
  <1> QED
      BY <1>6, <1>7

\* The first call for an event begins its delivery, if the subscription is active.
LEMMA DispatchImplements ==
    ASSUME DispatchInv, NEW r \in Replicas, NEW e \in Deliveries, Dispatch(r, e), NEW d \in Deliveries
    PROVE  Delivery!Step(d)
  <1> DEFINE s == CHOOSE t \in free : TRUE
             new == Task(r, e, 1, TRUE, TRUE)
  <1>t. TypeOK
      BY DEF DispatchInv, TypeInv, TA
  <1>1. e \in undispatched /\ row' = row /\ sends' = sends
      BY DEF Dispatch, db
  <1>2. UNCHANGED task \/ (s \in free /\ task' = [task EXCEPT ![s] = new])
      BY DEF Dispatch
  <1>3. new.pc = "check" /\ new.d = e
      BY DEF Task
  <1> HIDE DEF s, new
  <1>4. CASE UNCHANGED task \/ d # e
    <2>1. ASSUME NEW t \in Slots PROVE task'[t] = task[t] \/ task'[t].d # d
        BY <1>2, <1>3, <1>4, <1>t DEF TypeOK
    <2> QED
        BY <1>1, <2>1, QuietStep
  <1>5. CASE s \in free /\ task' = [task EXCEPT ![s] = new] /\ d = e
    <2>1. s \in Slots /\ task'[s] = new /\ \A t \in Slots : t # s => task'[t] = task[t]
        BY <1>5, <1>t DEF free, TypeOK
    <2>2. \A t \in Slots : task[t].pc # "free" => task[t].d # d
        BY <1>1, <1>5 DEF DispatchInv, TaskInv
    <2>3. InFlight(d) = {} /\ InFlight(d)' = {s} /\ Sent(d)' = {}
        BY <1>3, <1>5, <2>1, <2>2 DEF InFlight, Sent, live, free
    <2>4. row[d].status = "none"
        BY <1>1, <1>5 DEF DispatchInv, RowInv, Untouched
    <2> QED
        BY <1>1, <2>1, <2>3, <2>4, AbstractSteps
  <1> QED
      BY <1>2, <1>4, <1>5

\* Deactivation cancels every pending delivery and no other.
LEMMA CancelImplements ==
    ASSUME DispatchInv, CancelPending, NEW d \in Deliveries
    PROVE  Delivery!Step(d)
  <1>t. TypeOK
      BY DEF DispatchInv, TypeInv, TA
  <1>1. task' = task /\ sends' = sends
      BY DEF CancelPending
  <1>2. row'[d].status = IF row[d].status = "pending" THEN "cancelled" ELSE row[d].status
      BY <1>t DEF CancelPending, TypeOK
  <1>3. InFlight(d)' = InFlight(d) /\ Sent(d)' = Sent(d)
      BY <1>1 DEF InFlight, Sent, live, free
  <1> QED
      BY <1>1, <1>2, <1>3, AbstractSteps

\* Every step of the dispatcher is one of AbstractDelivery.
LEMMA DeliveryStep ==
    ASSUME Timely, DispatchInv, DispatchInv', [Next]_vars
    PROVE  Delivery!Next
  <1>1. ASSUME NEW d \in Deliveries PROVE Delivery!Step(d)
    <2>1. ASSUME NEW r \in Replicas, NEW e \in Deliveries, Dispatch(r, e) PROVE Delivery!Step(d)
        BY <2>1, DispatchImplements
    <2>2. ASSUME NEW r \in Replicas, ClaimRows(r) PROVE Delivery!Step(d)
        BY <2>2, ClaimImplements
    <2>3. ASSUME NEW t \in Slots, TaskStep(t) PROVE Delivery!Step(d)
        BY <2>3, CallImplements
    <2>4. CASE CancelPending
        BY <2>4, CancelImplements
    <2>5. ASSUME row'[d].status = row[d].status, sends' = sends,
                 \A t \in Slots : task'[t] = task[t] \/ task'[t].pc = "free"
          PROVE  Delivery!Step(d)
        BY <2>5, QuietStep
    <2>6. ASSUME NEW r \in Replicas, FindDue(r) \/ ClaimFails(r) \/ Crash(r) PROVE Delivery!Step(d)
        BY <2>5, <2>6, NoTaskFree DEF FindDue, ClaimFails, Crash, db
    <2>7. CASE Tick
      <3>1. row'[d].status = row[d].status
        <4>1. row[d] \in RowType
            BY DEF DispatchInv, TypeInv, TA, TypeOK, RowType
        <4>2. row'[d] = [row[d] EXCEPT !.lease = Less(row[d].lease), !.next = Less(row[d].next)]
            BY <2>7, <4>1 DEF Tick, RowType
        <4> QED
            BY <4>1, <4>2 DEF RowType
      <3> QED
          BY <2>5, <2>7, <3>1 DEF Tick
    <2>8. CASE Deactivate \/ Reactivate \/ (\E e \in Deliveries : DropEvent(e)) \/ UNCHANGED vars
        BY <2>5, <2>8 DEF Deactivate, Reactivate, DropEvent, vars, db
    <2> QED
        BY <2>1, <2>2, <2>3, <2>4, <2>6, <2>7, <2>8 DEF Next, RetryStep
  <1>2. [d \in Deliveries |-> row'[d].status] \in [Deliveries -> Delivery!Statuses]
      BY DEF DispatchInv, TypeInv, TA, TypeOK, Statuses, Delivery!Statuses
  <1>3. /\ [d \in Deliveries |-> InFlight(d)' \ Sent(d)'] \in [Deliveries -> SUBSET Slots]
        /\ [d \in Deliveries |-> Sent(d)'] \in [Deliveries -> SUBSET Slots]
      BY DEF InFlight, Sent, live, free
  <1>4. sends' \in [Deliveries -> Nat]
      BY DEF DispatchInv, TypeInv, TA, TypeOK
  <1> QED
      BY <1>1, <1>2, <1>3, <1>4 DEF Delivery!Next

\* While calls end within their lease the dispatcher implements AbstractDelivery, for
\* any number of deliveries, replicas and calls, whatever crashes, database failures,
\* lost events, deactivations and reactivations come between.
THEOREM DispatcherImplementsDelivery ==
    ASSUME Timely
    PROVE  Spec => ImplementsDelivery
  <1>1. Init => Delivery!Init
    <2> SUFFICES ASSUME Init PROVE Delivery!Init
        OBVIOUS
    <2>1. \A t \in Slots : task[t].pc = "free"
        BY NoTaskFree DEF Init
    <2>2. \A d \in Deliveries : InFlight(d) = {} /\ Sent(d) = {}
        BY <2>1 DEF InFlight, Sent, live, free
    <2>3. \A d \in Deliveries : row[d].status = "none"
        BY DEF Init, NoDelivery, Row
    <2> QED
        BY <2>2, <2>3 DEF Init, Delivery!Init
  <1>2. DispatchInv /\ DispatchInv' /\ [Next]_vars => Delivery!Next
      BY DeliveryStep
  <1>3. DispatchInv /\ [Next]_vars => DispatchInv'
      BY DispatchInvStep
  <1> QED
      BY DispatchInit, <1>1, <1>2, <1>3, PTL DEF Spec, ImplementsDelivery, Delivery!Spec

----------------------------------------------------------------------------
(***************************************************************************)
(* A call that has not marked its attempt leaves the row, if it is pending,*)
(* as its claim made it: processing, leased and due.                       *)
(***************************************************************************)
CallWaits(t) ==
    task[t].pc \in {"start", "check"} /\ row[task[t].d].status = "pending"
        => row[task[t].d].proc = "processing" /\ row[task[t].d].next # Never

WaitInv ==
    /\ DispatchInv
    /\ \A t \in Slots : task[t].pc # "free" => CallWaits(t)

\* A claim gives new calls to free slots only.
LEMMA ClaimKeepsCalls ==
    ASSUME NEW r \in Replicas, ClaimRows(r), NEW t \in Slots, task[t].pc # "free"
    PROVE  task'[t] = task[t]
  <1> DEFINE updated == {d \in retry[r].ids : Claimable(row[d])}
             twin == {d \in retry[r].ids \ updated : row[d].proc = "processing" /\ row[d].lease = LEASE}
             claimed == updated \cup (IF Timely THEN {} ELSE twin)
  <1>1. StartTasks(r, claimed)
      BY DEF ClaimRows
  <1> HIDE DEF claimed
  <1>2. PICK slot \in [claimed -> free] : task' = NewTable(r, claimed, slot, row, task, active)
      BY <1>1, StartTasksTable
  <1>3. \A d \in claimed : slot[d] # t
      BY DEF free
  <1> QED
      BY <1>2, <1>3, StartTasksShape

\* The row and the calls of a delivery no call of which moves: time passes, or
\* nothing happens to it.
LEMMA WaitingKept ==
    ASSUME TypeOK, NEW d \in Deliveries, Tick
    PROVE  /\ row'[d].status = row[d].status /\ row'[d].proc = row[d].proc
           /\ row'[d].next = Never <=> row[d].next = Never
           /\ row'[d].lease = Never <=> row[d].lease = Never
  <1>1. row[d] \in RowType
      BY DEF TypeOK, RowType
  <1>2. row'[d] = [row[d] EXCEPT !.lease = Less(row[d].lease), !.next = Less(row[d].next)]
      BY <1>1 DEF Tick, RowType
  <1>3. \A n \in Int : n >= -1 => (Less(n) = -1 <=> n = -1)
      BY DEF Less
  <1>4. row[d].lease \in Int /\ row[d].lease >= -1 /\ row[d].next \in Int /\ row[d].next >= -1
      BY <1>1, DispatcherAssumption DEF RowType, Never
  <1>5. row'[d].lease = Less(row[d].lease) /\ row'[d].next = Less(row[d].next)
        /\ row'[d].status = row[d].status /\ row'[d].proc = row[d].proc
      BY <1>1, <1>2 DEF RowType
  <1> QED
      BY <1>3, <1>4, <1>5 DEF Never

\* Every step keeps that.
LEMMA WaitStep ==
    ASSUME Timely, WaitInv, [Next]_vars
    PROVE  WaitInv'
  <1>0. DispatchInv /\ DispatchInv'
      BY DispatchInvStep DEF WaitInv
  <1>t. TypeOK
      BY <1>0 DEF DispatchInv, TypeInv, TA
  <1> SUFFICES ASSUME NEW t \in Slots, task'[t].pc # "free" PROVE CallWaits(t)'
      BY <1>0 DEF WaitInv
  <1>1. ASSUME task'[t] = task[t], row'[task[t].d] = row[task[t].d] PROVE CallWaits(t)'
      BY <1>1 DEF WaitInv, CallWaits
  <1>2. ASSUME NEW r \in Replicas, NEW d \in Deliveries, Dispatch(r, d) PROVE CallWaits(t)'
    <2>1. row' = row
        BY <1>2 DEF Dispatch, db
    <2>2. CASE task'[t] = task[t]
        BY <2>1, <2>2, <1>1
    <2>3. CASE task'[t] # task[t]
      <3>1. task'[t] = Task(r, d, 1, TRUE, TRUE) /\ d \in undispatched
          BY <1>2, <2>3, <1>t DEF Dispatch, TypeOK
      <3>2. task'[t].d = d
          BY <3>1 DEF Task
      <3>3. row[d].status = "none"
          BY <1>0, <3>1 DEF DispatchInv, RowInv, Untouched
      <3> QED
          BY <2>1, <3>2, <3>3 DEF CallWaits
    <2> QED
        BY <2>2, <2>3
  <1>3. ASSUME NEW r \in Replicas, ClaimRows(r) PROVE CallWaits(t)'
    <2> DEFINE updated == {d \in retry[r].ids : Claimable(row[d])}
               twin == {d \in retry[r].ids \ updated : row[d].proc = "processing" /\ row[d].lease = LEASE}
    <2>0. updated \cup (IF Timely THEN {} ELSE twin) = updated
        OBVIOUS
    <2>1. StartTasks(r, updated)
          /\ row' = [d \in Deliveries |->
                       IF d \in updated
                       THEN [row[d] EXCEPT !.proc = "processing", !.lease = LEASE] ELSE row[d]]
        BY <1>3, <2>0 DEF ClaimRows
    <2>2. ASSUME NEW d \in updated PROVE d \in Deliveries /\ row[d].next # Never
      <3>1. d \in Deliveries /\ d \in retry[r].ids /\ Claimable(row[d]) /\ RowInv(d) /\ StillDue(d)
          BY <1>0, <2>2, <1>t DEF TypeOK, DispatchInv, ClaimInv
      <3> QED
          BY <3>1 DEF RowInv, StillDue, Claimable
    <2>3. CASE task[t].pc # "free"
      <3>1. task'[t] = task[t] /\ task[t].d \in Deliveries /\ TaskInv(t)
          BY <1>0, <1>3, <2>3, ClaimKeepsCalls, CallFacts
      <3>2. ~Claimable(row[task[t].d])
          BY <3>1 DEF TaskInv, Untouched, HoldsRow, Claimable
      <3>3. row'[task[t].d] = row[task[t].d]
          BY <2>1, <3>1, <3>2
      <3> QED
          BY <3>1, <3>3, <1>1
    <2>4. CASE task[t].pc = "free"
      <3> HIDE DEF updated
      <3>1. PICK slot : task' = NewTable(r, updated, slot, row, task, active)
          BY <2>1, StartTasksTable
      <3>2. PICK d \in updated : task'[t] = RetryTask(r, d, row[d].attempt, active)
          BY <2>4, <3>1, StartTasksShape
      <3>3. task'[t].d = d
          BY <3>2 DEF RetryTask, Task
      <3>4. row'[d] = [row[d] EXCEPT !.proc = "processing", !.lease = LEASE] /\ row[d] \in RowType
          BY <2>1, <2>2, <1>t DEF TypeOK, RowType
      <3>5. row'[d].proc = "processing" /\ row'[d].next = row[d].next
          BY <3>4 DEF RowType
      <3> QED
          BY <2>2, <3>3, <3>5 DEF CallWaits
    <2> QED
        BY <2>3, <2>4
  <1>4. ASSUME NEW u \in Slots, TaskStep(u) PROVE CallWaits(t)'
    <2>1. /\ task[u].pc # "free"
          /\ \A v \in Slots : v # u => task'[v] = task[v]
          /\ \A d \in Deliveries : d # task[u].d => row'[d] = row[d] /\ sends'[d] = sends[d]
        BY <1>0, <1>4, OthersKept
    <2>2. CASE t # u
      <3>1. task'[t] = task[t] /\ task[t].pc # "free" /\ task[t].d \in Deliveries
          BY <1>0, <2>1, <2>2, CallFacts
      <3>2. task[t].d # task[u].d
          BY <1>0, <2>1, <2>2, <3>1 DEF DispatchInv, ExclusiveDelivery, live, free
      <3> QED
          BY <2>1, <3>1, <3>2, <1>1
    <2>3. CASE t = u
      <3>1. task[t] \in Tasks
          BY <1>0, <2>1, <2>3, CallFacts
      <3>2. ~End(t)
          BY <1>t, NoTaskFree DEF End, TypeOK
      <3>3. \/ MarkAttempt(t) \/ Lookup(t) \/ \E outcome \in {"ok", "error", "unsafe"} : Post(t, outcome)
            \/ row' = row /\ task' = [task EXCEPT ![t].outcome = "error"]
          BY <1>4, <2>3, <3>2 DEF TaskStep, SkipInactive, EventMissing, UnsafeUrl, Record, WriteFails, db
      <3>4. CASE MarkAttempt(t) \/ \E outcome \in {"ok", "error", "unsafe"} : Post(t, outcome)
        <4>1. task'[t].pc \in {"post", "record"}
            BY <3>1, <3>4, <1>t DEF MarkAttempt, Post, TypeOK, Tasks
        <4> QED
            BY <4>1 DEF CallWaits
      <3>5. CASE Lookup(t)
        <4>1. task[t].pc = "start" /\ task'[t].d = task[t].d /\ row' = row
            BY <3>1, <3>5, <1>t DEF Lookup, TypeOK, Tasks, db
        <4> QED
            BY <2>1, <2>3, <4>1 DEF WaitInv, CallWaits
      <3>6. CASE row' = row /\ task' = [task EXCEPT ![t].outcome = "error"]
        <4>1. task'[t].pc = task[t].pc /\ task'[t].d = task[t].d
            BY <3>1, <3>6, <1>t DEF TypeOK, Tasks
        <4> QED
            BY <2>1, <2>3, <3>6, <4>1 DEF WaitInv, CallWaits
      <3> QED
          BY <3>3, <3>4, <3>5, <3>6
    <2> QED
        BY <2>2, <2>3
  <1>5. CASE CancelPending
    <2>1. task' = task /\ task[t].d \in Deliveries
        BY <1>0, <1>5, CallFacts DEF CancelPending
    <2>2. row'[task[t].d].status # "pending"
        BY <1>5, <1>t, <2>1 DEF CancelPending, TypeOK
    <2> QED
        BY <2>1, <2>2 DEF CallWaits
  <1>6. CASE Tick
    <2>1. task' = task /\ task[t].d \in Deliveries
        BY <1>0, <1>6, CallFacts DEF Tick
    <2> QED
        BY <1>6, <1>t, <2>1, WaitingKept DEF WaitInv, CallWaits
  <1>7. ASSUME NEW r \in Replicas, FindDue(r) \/ ClaimFails(r) \/ Crash(r) PROVE CallWaits(t)'
    <2>1. row' = row /\ task'[t] = task[t]
        BY <1>7, NoTaskFree DEF FindDue, ClaimFails, Crash, db
    <2> QED
        BY <2>1, <1>1
  <1>8. CASE Deactivate \/ Reactivate \/ (\E d \in Deliveries : DropEvent(d)) \/ UNCHANGED vars
    <2>1. row' = row /\ task' = task
        BY <1>8 DEF Deactivate, Reactivate, DropEvent, vars, db
    <2> QED
        BY <2>1, <1>1
  <1> QED
      BY <1>2, <1>3, <1>4, <1>5, <1>6, <1>7, <1>8 DEF Next, RetryStep

\* Row d is outside the reach of every claim after the step only if it was before,
\* or a call that had marked its attempt has just been lost.
Stranding(d) ==
    row'[d].status = "pending" /\ InFlight(d)' = {} /\ ~Waiting(row[d])' =>
        \/ row[d].status = "pending" /\ InFlight(d) = {} /\ ~Waiting(row[d])
        \/ faults' > faults /\ \E t \in InFlight(d) : task[t].pc \in {"post", "record"}

\* The row of a call that has not marked its attempt waits, if it is pending.
LEMMA CallLeavesWaiting ==
    ASSUME WaitInv, NEW t \in Slots, task[t].pc \in {"start", "check"}, row[task[t].d].status = "pending"
    PROVE  Waiting(row[task[t].d])
  <1>1. TaskInv(t) /\ CallWaits(t) /\ row[task[t].d] \in RowType
      BY CallFacts DEF WaitInv
  <1>2. ~(task[t].isNew /\ task[t].pc = "check")
      BY <1>1 DEF TaskInv, Untouched
  <1>3. row[task[t].d].lease > 0
      BY <1>1, <1>2 DEF TaskInv, HoldsRow, CallWaits
  <1> QED
      BY <1>1, <1>3 DEF CallWaits, Waiting, Never

LEMMA StrandingStep ==
    ASSUME Timely, WaitInv, [Next]_vars, NEW d \in Deliveries
    PROVE  Stranding(d)
  <1> USE DispatcherAssumption
  <1>0. DispatchInv /\ DispatchInv' /\ WaitInv'
      BY WaitStep DEF WaitInv
  <1>t. TypeOK
      BY <1>0 DEF DispatchInv, TypeInv, TA
  <1>r. row[d] \in RowType
      BY <1>t DEF TypeOK, RowType
  \* Nothing changes for d.
  <1>1. ASSUME row'[d] = row[d], InFlight(d) \subseteq InFlight(d)' PROVE Stranding(d)
      BY <1>1 DEF Stranding, Waiting
  <1>2. ASSUME NEW r \in Replicas, NEW e \in Deliveries, Dispatch(r, e) PROVE Stranding(d)
    <2>1. row' = row /\ \A t \in Slots : task[t].pc # "free" => task'[t] = task[t]
        BY <1>2, <1>t DEF Dispatch, db, free, TypeOK
    <2> QED
        BY <2>1, <1>1 DEF InFlight, live, free
  <1>3. ASSUME NEW r \in Replicas, ClaimRows(r) PROVE Stranding(d)
    <2>1. InFlight(d) \subseteq InFlight(d)'
        BY <1>3, ClaimKeepsCalls DEF InFlight, live, free
    <2>2. CASE row'[d] = row[d]
        BY <2>1, <2>2, <1>1
    <2>3. CASE row'[d] # row[d]
      <3>1. /\ row'[d] = [row[d] EXCEPT !.proc = "processing", !.lease = LEASE]
            /\ d \in retry[r].ids /\ Claimable(row[d])
          BY <1>3, <2>3 DEF ClaimRows
      <3>2. row[d].next # Never
          BY <1>0, <3>1 DEF DispatchInv, ClaimInv, RowInv, StillDue, Claimable
      <3>3. row'[d].proc = "processing" /\ row'[d].lease = LEASE /\ row'[d].next = row[d].next
          BY <3>1, <1>r DEF RowType
      <3>4. Waiting(row[d])'
          BY <3>2, <3>3 DEF Waiting, Never
      <3> QED
          BY <3>4 DEF Stranding
    <2> QED
        BY <2>2, <2>3
  <1>4. ASSUME NEW u \in Slots, TaskStep(u) PROVE Stranding(d)
    <2>1. /\ task[u].pc # "free"
          /\ \A v \in Slots : v # u => task'[v] = task[v]
          /\ \A e \in Deliveries : e # task[u].d => row'[e] = row[e] /\ sends'[e] = sends[e]
        BY <1>0, <1>4, OthersKept
    <2>2. CASE d # task[u].d
      <3>1. InFlight(d) \subseteq InFlight(d)'
          BY <2>1, <2>2 DEF InFlight, live, free
      <3> QED
          BY <2>1, <2>2, <3>1, <1>1
    <2>3. CASE d = task[u].d
      <3>1. task[u] \in Tasks /\ task[u].attempt \in 1..MAX_ATTEMPTS /\ TaskInv(u)
          BY <1>0, <2>1, CallFacts
      <3>2. u \in InFlight(d) /\ (InFlight(d)' = {} => task'[u].pc = "free" \/ task'[u].d # d)
          BY <2>1, <2>3 DEF InFlight, live, free
      <3>3. ASSUME NEW v, Update(task[u].d, v) PROVE row'[d] = v
          BY <2>3, <3>3, <1>t DEF Update, TypeOK
      <3>4. ASSUME task[u].pc \in {"start", "check"}, row'[d] = row[d] PROVE Stranding(d)
          BY <2>3, <3>4, CallLeavesWaiting DEF Stranding
      <3>5. ASSUME row'[d].status # "pending" PROVE Stranding(d)
          BY <3>5 DEF Stranding
      <3>6. ASSUME task'[u].pc # "free", task'[u].d = d PROVE Stranding(d)
          BY <3>2, <3>6 DEF Stranding
      <3>7. CASE SkipInactive(u)
          BY <2>3, <3>3, <3>5, <3>7, <1>r DEF SkipInactive, RowType
      <3>8. CASE EventMissing(u)
          BY <3>4, <3>8 DEF EventMissing, db
      <3>9. CASE UnsafeUrl(u)
        <4>1. CASE row' = row
            BY <3>4, <3>9, <4>1 DEF UnsafeUrl
        <4>2. CASE Update(task[u].d, Failed(row[task[u].d]))
          <5>1. row'[d].status = "failed"
              BY <2>3, <3>3, <4>2, <1>r, RowForms, <3>1
          <5> QED
              BY <3>5, <5>1
        <4> QED
            BY <3>9, <4>1, <4>2 DEF UnsafeUrl
      <3>10. CASE Lookup(u) \/ MarkAttempt(u) \/ \E o \in {"ok", "error", "unsafe"} : Post(u, o)
        <4>1. task'[u].pc # "free" /\ task'[u].d = d
            BY <2>3, <3>1, <3>10, <1>t DEF Lookup, MarkAttempt, Post, TypeOK, Tasks
        <4> QED
            BY <3>6, <4>1
      <3>11. CASE Record(u)
        <4> DEFINE w == row[d]
                   ok == [w EXCEPT !.status = "success", !.proc = "done", !.lease = Never]
                   v == CASE task[u].outcome = "ok" -> ok
                          [] task[u].outcome = "unsafe" -> Failed(w)
                          [] task[u].outcome = "error" -> scheduleRetryOrFail(w, task[u].attempt)
        <4>1. Update(task[u].d, v) /\ task[u].pc = "record"
            BY <2>3, <3>11 DEF Record
        <4>2. ok.status = "success"
            BY <1>r DEF RowType
        <4>3. task[u].outcome \in {"ok", "unsafe", "error"}
            BY <1>0, <3>1, <4>1 DEF DispatchInv, TypeInv, Posted, Tasks
        <4> HIDE DEF ok
        <4>4. v = ok \/ v = Failed(w) \/ v = scheduleRetryOrFail(w, task[u].attempt)
            BY <4>3
        <4> HIDE DEF v
        <4>5. row'[d] = v
            BY <3>3, <4>1
        <4>6. v.status # "pending" \/ (v.proc = "idle" /\ v.next = BACKOFF)
            BY <3>1, <4>2, <4>4, <1>r, RowForms
        <4> QED
            BY <4>5, <4>6 DEF Stranding, Waiting, Never
      <3>12. CASE WriteFails(u)
        <4>1. faults' > faults /\ row' = row
            BY <3>12, <1>t DEF WriteFails, Fault, TypeOK, db
        <4>2. task[u].pc \in {"start", "check"} \/ task[u].pc = "record"
            BY <3>12 DEF WriteFails
        <4> QED
            BY <3>2, <3>4, <4>1, <4>2 DEF Stranding
      <3> QED
          BY <1>4, <3>7, <3>8, <3>9, <3>10, <3>11, <3>12 DEF TaskStep
    <2> QED
        BY <2>2, <2>3
  <1>5. ASSUME NEW r \in Replicas, Crash(r) PROVE Stranding(d)
    <2>1. row' = row /\ faults' > faults
        BY <1>5, <1>t DEF Crash, Fault, TypeOK, db
    <2>2. ASSUME NEW t \in InFlight(d) PROVE task[t].pc \in {"start", "check", "post", "record"} /\ task[t].d = d
        BY <1>0, CallFacts DEF InFlight, live, free, Tasks
    <2>3. CASE \E t \in InFlight(d) : task[t].pc \in {"start", "check"}
      <3>1. row[d].status = "pending" => Waiting(row[d])
          BY <2>2, <2>3, CallLeavesWaiting DEF InFlight, live
      <3> QED
          BY <2>1, <3>1 DEF Stranding
    <2>4. CASE \A t \in InFlight(d) : task[t].pc \in {"post", "record"}
        BY <2>1, <2>4 DEF Stranding
    <2> QED
        BY <2>2, <2>3, <2>4
  <1>6. CASE CancelPending
    <2>1. row'[d].status # "pending"
        BY <1>6, <1>t DEF CancelPending, TypeOK
    <2> QED
        BY <2>1 DEF Stranding
  <1>7. CASE Tick
    <2>1. InFlight(d)' = InFlight(d)
        BY <1>7 DEF Tick, InFlight, live, free
    <2> QED
        BY <1>7, <1>t, <2>1, WaitingKept DEF Stranding, Waiting
  <1>8. ASSUME NEW r \in Replicas, FindDue(r) \/ ClaimFails(r) PROVE Stranding(d)
    <2>1. row' = row /\ task' = task
        BY <1>8 DEF FindDue, ClaimFails, db
    <2> QED
        BY <2>1, <1>1 DEF InFlight, live, free
  <1>9. CASE Deactivate \/ Reactivate \/ (\E e \in Deliveries : DropEvent(e)) \/ UNCHANGED vars
    <2>1. row' = row /\ task' = task
        BY <1>9 DEF Deactivate, Reactivate, DropEvent, vars, db
    <2> QED
        BY <2>1, <1>1 DEF InFlight, live, free
  <1> QED
      BY <1>2, <1>3, <1>4, <1>5, <1>6, <1>7, <1>8, <1>9 DEF Next, RetryStep

\* While calls end within their lease, a pending row is put out of the reach of every
\* claim only by a crash or a failing write after the attempt was marked: no lost
\* event, deactivation, reactivation, refused URL or earlier crash does it.
THEOREM StrandedOnlyByFaults ==
    ASSUME Timely
    PROVE  Spec => StrandedOnlyAfterMark
  <1>1. Init => WaitInv
      BY DispatchInit, NoTaskFree DEF WaitInv, Init
  <1>2. WaitInv /\ [Next]_vars => WaitInv'
      BY WaitStep
  <1>3. WaitInv /\ [Next]_vars =>
            [\A d \in Deliveries :
                row'[d].status = "pending" /\ InFlight(d)' = {} /\ ~Waiting(row[d])' =>
                    \/ row[d].status = "pending" /\ InFlight(d) = {} /\ ~Waiting(row[d])
                    \/ faults' > faults /\ \E t \in InFlight(d) : task[t].pc \in {"post", "record"}]_vars
      BY StrandingStep DEF Stranding
  <1> QED
      BY <1>1, <1>2, <1>3, PTL DEF Spec, StrandedOnlyAfterMark

=============================================================================
