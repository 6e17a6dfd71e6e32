----------------------- MODULE LeaderElectionProofs -----------------------
(***************************************************************************)
(* Proofs about LeaderElection, for any number of instances, any timer     *)
(* settings with RENEW < LEASE and any number of crashes, stops and        *)
(* failing calls, as long as no tick was a stall.                           *)
(***************************************************************************)
EXTENDS LeaderElection, TLAPS

\* The calls that each kind of operation makes, and who makes them.
CallOK(c) ==
    /\ call[c].pc = "free" => call[c] = NoCall
    /\ call[c].pc # "free" => call[c].owner \in Instances /\ Running(call[c].owner)
    /\ call[c].pc = "get" => call[c].kind \in {"renew", "stop"}
    /\ call[c].pc = "got" => call[c].kind \in {"renew", "stop"}
    /\ call[c].pc \in {"set", "answered"} => call[c].kind = "elect"
    /\ call[c].pc = "set" => call[c].seen = None
    /\ call[c].pc \in {"expire", "expired"} => call[c].kind = "renew"
    /\ call[c].pc \in {"del", "deleted"} => call[c].kind = "stop"
    /\ call[c].kind = "stop" => phase[call[c].owner] = "stopping"

CallsOK == \A c \in Calls : CallOK(c)

\* An instance makes one call of releaseLock.
OneStop ==
    \A c, d \in Calls :
        call[c].kind = "stop" /\ call[d].kind = "stop" /\ call[c].owner = call[d].owner => c = d

\* releaseLock deletes the key only while it still has the value it got.
ReleaseOwn ==
    \A c \in Calls :
        (call[c].kind = "stop" /\ (call[c].pc = "del" \/ (call[c].pc = "got" /\ call[c].seen = call[c].owner)))
            => holder = call[c].owner

\* A leader holds the key, and the key outlives its renewal timer unless a
\* renewal is under way.
LeaderHolds ==
    \A i \in Instances :
        Leading(i) => /\ holder = i
                      /\ \/ ttl > renewIn[i]
                         \/ \E c \in Calls : call[c].kind = "renew" /\ call[c].owner = i

\* An election that was won and not yet answered is backed by the full lease.
WonHolds ==
    \A c \in Calls :
        (call[c].pc = "answered" /\ call[c].seen = call[c].owner /\ phase[call[c].owner] = "up")
            => holder = call[c].owner /\ ttl = LEASE

\* So is a renewal that was executed.
RenewedHolds ==
    \A c \in Calls :
        (call[c].pc = "expired" /\ holder # None) => ttl = LEASE

\* An instance that was not started does not lead.
DownIdle == \A i \in Instances : phase[i] = "down" => ~isLeader[i]

LeaderInv ==
    /\ TypeOK /\ DownIdle /\ CallsOK /\ OneStop /\ ReleaseOwn
    /\ LeaderHolds /\ WonHolds /\ RenewedHolds


Pcs == {"free", "get", "got", "set", "answered", "expire", "expired", "del", "deleted"}
CallTable == [Calls -> CallType]

\* Ending a call, moving it on and dropping the calls of an instance keep the
\* table of calls well formed.
LEMMA CallTableType ==
    ASSUME call \in CallTable
    PROVE  /\ \A c \in Calls : End(c) => call' \in CallTable
           /\ \A c \in Calls, pc \in Pcs, seen \in Instances \cup {None} :
                    Answer(c, pc, seen) => call' \in CallTable
           /\ \A c \in Calls, pc \in Pcs : Goto(c, pc) => call' \in CallTable
           /\ \A i \in Instances \cup {None} : Drop(i) => call' \in CallTable
           /\ \A c \in Calls : /\ call[c].owner \in Instances \cup {None}
                              /\ call[c].seen \in Instances \cup {None}
  <1>1. NoCall \in CallType
      BY DEF NoCall, CallType
  <1>2. \A c \in Calls : End(c) => call' \in CallTable
      BY <1>1 DEF End, CallTable
  <1>3. \A c \in Calls, pc \in Pcs, seen \in Instances \cup {None} :
            Answer(c, pc, seen) => call' \in CallTable
      BY DEF Answer, CallTable, CallType, Pcs
  <1>4. \A c \in Calls : /\ call[c].owner \in Instances \cup {None}
                         /\ call[c].seen \in Instances \cup {None}
      BY DEF CallTable, CallType
  <1>5. \A i \in Instances \cup {None} : Drop(i) => call' \in CallTable
      BY <1>1 DEF Drop, CallTable
  <1> QED
      BY <1>2, <1>3, <1>4, <1>5 DEF Goto

\* Initially nobody leads and no call is in flight.
LEMMA TypeInit == Init => TypeOK
  BY ElectionAssumption DEF Init, TypeOK, CallType, NoCall, MaxVacant

\* Every step keeps the variables in their sets.
LEMMA TypeStep == TypeOK /\ [Next]_vars => TypeOK'
  <1> SUFFICES ASSUME TypeOK, [Next]_vars PROVE TypeOK'
      OBVIOUS
  <1> USE ElectionAssumption
  <1>1. ASSUME NEW i \in Instances, Start(i) PROVE TypeOK'
      BY <1>1 DEF Start, TypeOK, CallType, key, timers, budget
  <1>2. ASSUME NEW i \in Instances, RenewTimer(i) PROVE TypeOK'
      BY <1>2 DEF RenewTimer, Send, Call, InFlight, TypeOK, CallType, key, timers, budget
  <1>3. ASSUME NEW i \in Instances, ElectionTimer(i) PROVE TypeOK'
      BY <1>3 DEF ElectionTimer, Send, Call, InFlight, TypeOK, CallType, key, timers, budget
  <1>4. ASSUME NEW i \in Instances, Stop(i) PROVE TypeOK'
    <2>1. CASE isLeader[i]
        BY <1>4, <2>1 DEF Stop, Depart, Send, Call, InFlight, TypeOK, CallType, MaxVacant, key, timers
    <2>2. CASE ~isLeader[i]
      <3>1. isLeader' \in [Instances -> BOOLEAN] /\ told' \in [Instances -> BOOLEAN]
          BY <1>4, <2>2, Zenon DEF Stop, Disconnect, TypeOK
      <3>2. call' \in CallTable
          BY <1>4, <2>2, CallTableType DEF Stop, Disconnect, TypeOK, CallTable
      <3> QED
          BY <1>4, <2>2, <3>1, <3>2 DEF Stop, Depart, Disconnect, TypeOK, CallTable, MaxVacant, key, timers
    <2> QED
        BY <2>1, <2>2
  <1>5. ASSUME NEW i \in Instances, Crash(i) PROVE TypeOK'
    <2>1. call' \in CallTable
        BY <1>5, CallTableType DEF Crash, TypeOK, CallTable
    <2> QED
        BY <1>5, <2>1 DEF Crash, Depart, TypeOK, CallTable, MaxVacant, key, timers
  <1>6. ASSUME NEW c \in Calls, Set(c) PROVE TypeOK'
    <2>1. call' \in CallTable
        BY <1>6, CallTableType DEF Set, TypeOK, CallTable, Pcs
    <2> QED
        BY <1>6, <2>1, CallTableType DEF Set, TypeOK, CallTable, key, timers, budget
  <1>7. ASSUME NEW c \in Calls, Get(c) PROVE TypeOK'
    <2>1. call' \in CallTable
        BY <1>7, CallTableType DEF Get, TypeOK, CallTable, Pcs
    <2> QED
        BY <1>7, <2>1 DEF Get, TypeOK, CallTable, key, timers, budget
  <1>8. ASSUME NEW c \in Calls, Expire(c) PROVE TypeOK'
    <2>1. call' \in CallTable
        BY <1>8, CallTableType DEF Expire, TypeOK, CallTable, Pcs
    <2> QED
        BY <1>8, <2>1, CallTableType DEF Expire, TypeOK, CallTable, key, timers, budget
  <1>9. ASSUME NEW c \in Calls, Del(c) PROVE TypeOK'
    <2>1. call' \in CallTable
        BY <1>9, CallTableType DEF Del, TypeOK, CallTable, Pcs
    <2> QED
        BY <1>9, <2>1, CallTableType DEF Del, TypeOK, CallTable, key, timers, budget
  <1>10. ASSUME NEW c \in Calls, Acquired(c) PROVE TypeOK'
      BY <1>10 DEF Acquired, End, NoCall, TypeOK, CallType, InFlight, key, timers, budget
  <1>11. ASSUME NEW c \in Calls, CheckRenewal(c) PROVE TypeOK'
    <2>1. call' \in CallTable
        BY <1>11, CallTableType DEF CheckRenewal, TypeOK, CallTable, Pcs
    <2>2. isLeader' \in [Instances -> BOOLEAN]
        BY <1>11 DEF CheckRenewal, TypeOK
    <2> QED
        BY <1>11, <2>1, <2>2 DEF CheckRenewal, TypeOK, CallTable, key, timers, budget
  <1>12. ASSUME NEW c \in Calls, Renewed(c) PROVE TypeOK'
      BY <1>12 DEF Renewed, End, NoCall, TypeOK, CallType, InFlight, key, timers, budget
  <1>13. ASSUME NEW c \in Calls, CheckRelease(c) PROVE TypeOK'
    <2>1. call' \in CallTable
        BY <1>13, CallTableType DEF CheckRelease, Disconnect, TypeOK, CallTable, Pcs
    <2>2. isLeader' \in [Instances -> BOOLEAN] /\ told' \in [Instances -> BOOLEAN]
        BY <1>13, Zenon DEF CheckRelease, Disconnect, TypeOK
    <2> QED
        BY <1>13, <2>1, <2>2 DEF CheckRelease, Disconnect, TypeOK, CallTable, MaxVacant, key, timers, budget
  <1>14. ASSUME NEW c \in Calls, Released(c) PROVE TypeOK'
    <2>1. call' \in CallTable
        BY <1>14, CallTableType DEF Released, Disconnect, TypeOK, CallTable, Pcs
    <2>2. isLeader' \in [Instances -> BOOLEAN] /\ told' \in [Instances -> BOOLEAN]
        BY <1>14, Zenon DEF Released, Disconnect, TypeOK
    <2> QED
        BY <1>14, <2>1, <2>2 DEF Released, Disconnect, TypeOK, CallTable, MaxVacant, key, timers, budget
  <1>15. ASSUME NEW c \in Calls, RedisError(c) PROVE TypeOK'
    <2>1. call' \in CallTable
        BY <1>15, CallTableType DEF RedisError, Disconnect, TypeOK, CallTable, Pcs
    <2>2. isLeader' \in [Instances -> BOOLEAN] /\ told' \in [Instances -> BOOLEAN]
        BY <1>15, Zenon DEF RedisError, Disconnect, TypeOK
    <2> QED
        BY <1>15, <2>1, <2>2 DEF RedisError, Disconnect, TypeOK, CallTable, MaxVacant, key, timers, budget
  <1>16. ASSUME NEW c \in Calls, ReleaseError(c) PROVE TypeOK'
    <2>1. call' \in CallTable
        BY <1>16, CallTableType DEF ReleaseError, Disconnect, TypeOK, CallTable, Pcs
    <2>2. isLeader' \in [Instances -> BOOLEAN] /\ told' \in [Instances -> BOOLEAN]
        BY <1>16, Zenon DEF ReleaseError, Disconnect, TypeOK
    <2> QED
        BY <1>16, <2>1, <2>2 DEF ReleaseError, Disconnect, TypeOK, CallTable, MaxVacant, key, timers, budget
  <1>17. CASE Tick
      BY <1>17 DEF Tick, Less, MaxVacant, TypeOK, CallType, key, timers, budget
  <1>18. CASE UNCHANGED vars
      BY <1>18 DEF vars, TypeOK, CallType, key, timers, budget
  <1> QED
      BY <1>1, <1>2, <1>3, <1>4, <1>5, <1>6, <1>7, <1>8, <1>9, <1>10, <1>11, <1>12, <1>13, <1>14, <1>15, <1>16, <1>17, <1>18 DEF Next, Timer, Server, Reply

\* Every variable keeps its type: timers never exceed their intervals, the key
\* its expiry time, and the time without a leader its cap.
THEOREM TypeCorrect == Spec => []TypeOK
  BY TypeInit, TypeStep, PTL DEF Spec

\* Every step that is no stall keeps LeaderInv.
LEMMA LeaderStep ==
    ASSUME stalls = 0, stalls' = 0, LeaderInv, [Next]_vars
    PROVE  LeaderInv'
  <1> USE ElectionAssumption
  <1>0. TypeOK'
      BY TypeStep DEF LeaderInv
  <1> DEFINE Rest == DownIdle /\ CallsOK /\ OneStop /\ ReleaseOwn /\ LeaderHolds /\ WonHolds /\ RenewedHolds
  <1>1. ASSUME NEW i \in Instances, Start(i) PROVE Rest'
    <2>0. DownIdle'
        BY <1>1 DEF Start, LeaderInv, TypeOK, DownIdle, CallsOK, CallOK, Running
    <2>1. CallsOK'
        BY <1>1 DEF Start, LeaderInv, TypeOK, CallType, CallsOK, CallOK, Running, key, timers, budget
    <2>2. OneStop'
        BY <1>1 DEF Start, LeaderInv, TypeOK, CallType, OneStop
    <2>3. ReleaseOwn'
        BY <1>1 DEF Start, LeaderInv, TypeOK, CallType, ReleaseOwn, CallsOK, CallOK, OneStop, Running, key, timers, budget
    <2>4. LeaderHolds'
        BY <1>1 DEF Start, LeaderInv, TypeOK, CallType, DownIdle, LeaderHolds, Leading, key, timers, budget
    <2>5. WonHolds'
        BY <1>1 DEF Start, LeaderInv, TypeOK, CallType, WonHolds, LeaderHolds, Leading, CallsOK, CallOK, Running, key, timers, budget
    <2>6. RenewedHolds'
        BY <1>1 DEF Start, LeaderInv, TypeOK, CallType, RenewedHolds, key, timers, budget
    <2> QED
        BY <2>0, <2>1, <2>2, <2>3, <2>4, <2>5, <2>6
  <1>2. ASSUME NEW i \in Instances, RenewTimer(i) PROVE Rest'
    <2>0. DownIdle'
        BY <1>2 DEF RenewTimer, LeaderInv, TypeOK, DownIdle, CallsOK, CallOK, Running
    <2>1. CallsOK'
        BY <1>2 DEF RenewTimer, Send, Call, InFlight, LeaderInv, TypeOK, CallType, CallsOK, CallOK, Running, key, timers, budget
    <2>2. OneStop'
      <3>1. \A c \in Calls : call'[c].kind = "stop" => call'[c] = call[c]
        <4>1. CASE UNCHANGED call
            BY <4>1
        <4>2. CASE Send(i, "renew", "get")
            BY <4>2 DEF Send, Call, LeaderInv, TypeOK
        <4> QED
            BY <1>2, <4>1, <4>2 DEF RenewTimer
      <3> QED
          BY <3>1 DEF LeaderInv, OneStop
    <2>3. ReleaseOwn'
        BY <1>2 DEF RenewTimer, Send, Call, InFlight, LeaderInv, TypeOK, CallType, ReleaseOwn, CallsOK, CallOK, OneStop, Running, key, timers, budget
    <2>4. LeaderHolds'
        BY <1>2 DEF RenewTimer, Send, Call, InFlight, LeaderInv, TypeOK, CallType, LeaderHolds, Leading, key, timers, budget
    <2>5. WonHolds'
        BY <1>2 DEF RenewTimer, Send, Call, InFlight, LeaderInv, TypeOK, CallType, WonHolds, LeaderHolds, Leading, CallsOK, CallOK, Running, key, timers, budget
    <2>6. RenewedHolds'
        BY <1>2 DEF RenewTimer, Send, Call, InFlight, LeaderInv, TypeOK, CallType, RenewedHolds, key, timers, budget
    <2> QED
        BY <2>0, <2>1, <2>2, <2>3, <2>4, <2>5, <2>6
  <1>3. ASSUME NEW i \in Instances, ElectionTimer(i) PROVE Rest'
    <2>0. DownIdle'
        BY <1>3 DEF ElectionTimer, LeaderInv, TypeOK, DownIdle, CallsOK, CallOK, Running
    <2>1. CallsOK'
        BY <1>3 DEF ElectionTimer, Send, Call, InFlight, LeaderInv, TypeOK, CallType, CallsOK, CallOK, Running, key, timers, budget
    <2>2. OneStop'
        BY <1>3 DEF ElectionTimer, Send, Call, LeaderInv, TypeOK, CallType, OneStop
    <2>3. ReleaseOwn'
        BY <1>3 DEF ElectionTimer, Send, Call, InFlight, LeaderInv, TypeOK, CallType, ReleaseOwn, CallsOK, CallOK, OneStop, Running, key, timers, budget
    <2>4. LeaderHolds'
        BY <1>3 DEF ElectionTimer, Send, Call, InFlight, NoCall, LeaderInv, TypeOK, CallType, LeaderHolds, Leading, CallsOK, CallOK, key, timers, budget
    <2>5. WonHolds'
        BY <1>3 DEF ElectionTimer, Send, Call, InFlight, LeaderInv, TypeOK, CallType, WonHolds, key, timers, budget
    <2>6. RenewedHolds'
        BY <1>3 DEF ElectionTimer, Send, Call, InFlight, LeaderInv, TypeOK, CallType, RenewedHolds, key, timers, budget
    <2> QED
        BY <2>0, <2>1, <2>2, <2>3, <2>4, <2>5, <2>6
  <1>4. ASSUME NEW i \in Instances, Stop(i) PROVE Rest'
    <2>0. DownIdle'
        BY <1>4 DEF Stop, Disconnect, LeaderInv, TypeOK, DownIdle, CallsOK, CallOK, Running
    <2>1. CallsOK'
        BY <1>4 DEF Stop, Depart, Send, Call, InFlight, Disconnect, Drop, NoCall, LeaderInv, TypeOK, CallType, CallsOK, CallOK, Running, key, timers, budget
    <2>2. OneStop'
        BY <1>4 DEF Stop, Depart, Send, Call, InFlight, Disconnect, Drop, NoCall, LeaderInv, TypeOK, CallType, OneStop, CallsOK, CallOK, key, timers, budget
    <2>3. ReleaseOwn'
        BY <1>4 DEF Stop, Depart, Send, Call, InFlight, Disconnect, Drop, NoCall, LeaderInv, TypeOK, CallType, ReleaseOwn, CallsOK, CallOK, OneStop, Running, key, timers, budget
    <2>4. LeaderHolds'
        BY <1>4 DEF Stop, Depart, Send, Call, InFlight, Disconnect, Drop, NoCall, LeaderInv, TypeOK, CallType, LeaderHolds, Leading, key, timers, budget
    <2>5. WonHolds'
        BY <1>4 DEF Stop, Depart, Send, Call, InFlight, Disconnect, Drop, NoCall, LeaderInv, TypeOK, CallType, WonHolds, LeaderHolds, Leading, CallsOK, CallOK, Running, key, timers, budget
    <2>6. RenewedHolds'
        BY <1>4 DEF Stop, Depart, Send, Call, InFlight, Disconnect, Drop, NoCall, LeaderInv, TypeOK, CallType, RenewedHolds, key, timers, budget
    <2> QED
        BY <2>0, <2>1, <2>2, <2>3, <2>4, <2>5, <2>6
  <1>5. ASSUME NEW i \in Instances, Crash(i) PROVE Rest'
    <2>0. DownIdle'
        BY <1>5 DEF Crash, LeaderInv, TypeOK, DownIdle, CallsOK, CallOK, Running
    <2>1. CallsOK'
        BY <1>5 DEF Crash, Depart, Drop, NoCall, LeaderInv, TypeOK, CallType, CallsOK, CallOK, Running, key, timers, budget
    <2>2. OneStop'
        BY <1>5 DEF Crash, Depart, Drop, NoCall, LeaderInv, TypeOK, CallType, OneStop
    <2>3. ReleaseOwn'
        BY <1>5 DEF Crash, Depart, Drop, NoCall, LeaderInv, TypeOK, CallType, ReleaseOwn, CallsOK, CallOK, OneStop, Running, key, timers, budget
    <2>4. LeaderHolds'
        BY <1>5 DEF Crash, Depart, Drop, NoCall, LeaderInv, TypeOK, CallType, LeaderHolds, Leading, key, timers, budget
    <2>5. WonHolds'
        BY <1>5 DEF Crash, Depart, Drop, NoCall, LeaderInv, TypeOK, CallType, WonHolds, LeaderHolds, Leading, CallsOK, CallOK, Running, key, timers, budget
    <2>6. RenewedHolds'
        BY <1>5 DEF Crash, Depart, Drop, NoCall, LeaderInv, TypeOK, CallType, RenewedHolds, key, timers, budget
    <2> QED
        BY <2>0, <2>1, <2>2, <2>3, <2>4, <2>5, <2>6
  <1>6. ASSUME NEW c \in Calls, Set(c) PROVE Rest'
    <2>0. DownIdle'
        BY <1>6 DEF Set, LeaderInv, TypeOK, DownIdle, CallsOK, CallOK, Running
    <2>1. CallsOK'
        BY <1>6 DEF Set, Answer, Goto, LeaderInv, TypeOK, CallType, CallsOK, CallOK, Running, key, timers, budget
    <2>2. OneStop'
        BY <1>6 DEF Set, Answer, Goto, LeaderInv, TypeOK, CallType, OneStop
    <2>3. ReleaseOwn'
        BY <1>6 DEF Set, Answer, Goto, LeaderInv, TypeOK, CallType, ReleaseOwn, CallsOK, CallOK, OneStop, Running, key, timers, budget
    <2>4. LeaderHolds'
        BY <1>6 DEF Set, Answer, Goto, LeaderInv, TypeOK, CallType, LeaderHolds, Leading, key, timers, budget
    <2>5. WonHolds'
        BY <1>6 DEF Set, Answer, Goto, LeaderInv, TypeOK, CallType, WonHolds, CallsOK, CallOK, key
    <2>6. RenewedHolds'
        BY <1>6 DEF Set, Answer, Goto, LeaderInv, TypeOK, CallType, RenewedHolds, key, timers, budget
    <2> QED
        BY <2>0, <2>1, <2>2, <2>3, <2>4, <2>5, <2>6
  <1>7. ASSUME NEW c \in Calls, Get(c) PROVE Rest'
    <2>0. DownIdle'
        BY <1>7 DEF Get, LeaderInv, TypeOK, DownIdle, CallsOK, CallOK, Running
    <2>1. CallsOK'
        BY <1>7 DEF Get, Answer, LeaderInv, TypeOK, CallType, CallsOK, CallOK, Running, key, timers, budget
    <2>2. OneStop'
        BY <1>7 DEF Get, Answer, LeaderInv, TypeOK, CallType, OneStop
    <2>3. ReleaseOwn'
        BY <1>7 DEF Get, Answer, LeaderInv, TypeOK, CallType, ReleaseOwn, CallsOK, CallOK, OneStop, Running, key, timers, budget
    <2>4. LeaderHolds'
        BY <1>7 DEF Get, Answer, LeaderInv, TypeOK, CallType, LeaderHolds, Leading, key, timers, budget
    <2>5. WonHolds'
        BY <1>7 DEF Get, Answer, LeaderInv, TypeOK, CallType, WonHolds, LeaderHolds, Leading, CallsOK, CallOK, Running, key, timers, budget
    <2>6. RenewedHolds'
        BY <1>7 DEF Get, Answer, LeaderInv, TypeOK, CallType, RenewedHolds, key, timers, budget
    <2> QED
        BY <2>0, <2>1, <2>2, <2>3, <2>4, <2>5, <2>6
  <1>8. ASSUME NEW c \in Calls, Expire(c) PROVE Rest'
    <2>0. DownIdle'
        BY <1>8 DEF Expire, LeaderInv, TypeOK, DownIdle, CallsOK, CallOK, Running
    <2>1. CallsOK'
        BY <1>8 DEF Expire, Answer, Goto, LeaderInv, TypeOK, CallType, CallsOK, CallOK, Running, key, timers, budget
    <2>2. OneStop'
        BY <1>8 DEF Expire, Answer, Goto, LeaderInv, TypeOK, CallType, OneStop
    <2>3. ReleaseOwn'
        BY <1>8 DEF Expire, Answer, Goto, LeaderInv, TypeOK, CallType, ReleaseOwn, CallsOK, CallOK, OneStop, Running, key, timers, budget
    <2>4. LeaderHolds'
        BY <1>8 DEF Expire, Answer, Goto, LeaderInv, TypeOK, CallType, LeaderHolds, Leading, key, timers, budget
    <2>5. WonHolds'
        BY <1>8 DEF Expire, Answer, Goto, LeaderInv, TypeOK, CallType, WonHolds, LeaderHolds, Leading, CallsOK, CallOK, Running, key, timers, budget
    <2>6. RenewedHolds'
        BY <1>8 DEF Expire, Answer, Goto, LeaderInv, TypeOK, CallType, RenewedHolds, key, timers, budget
    <2> QED
        BY <2>0, <2>1, <2>2, <2>3, <2>4, <2>5, <2>6
  <1>9. ASSUME NEW c \in Calls, Del(c) PROVE Rest'
    <2>0. DownIdle'
        BY <1>9 DEF Del, LeaderInv, TypeOK, DownIdle, CallsOK, CallOK, Running
    <2>1. CallsOK'
        BY <1>9 DEF Del, Answer, Goto, LeaderInv, TypeOK, CallType, CallsOK, CallOK, Running, key, timers, budget
    <2>2. OneStop'
        BY <1>9 DEF Del, Answer, Goto, LeaderInv, TypeOK, CallType, OneStop
    <2>3. ReleaseOwn'
        BY <1>9 DEF Del, Answer, Goto, LeaderInv, TypeOK, CallType, ReleaseOwn, CallsOK, CallOK, OneStop, Running, key, timers, budget
    <2>4. LeaderHolds'
        BY <1>9 DEF Del, Answer, Goto, LeaderInv, TypeOK, CallType, LeaderHolds, Leading, ReleaseOwn, CallsOK, CallOK, key, timers
    <2>5. WonHolds'
        BY <1>9 DEF Del, Answer, Goto, LeaderInv, TypeOK, CallType, WonHolds, ReleaseOwn, CallsOK, CallOK, key
    <2>6. RenewedHolds'
        BY <1>9 DEF Del, Answer, Goto, LeaderInv, TypeOK, CallType, RenewedHolds, key, timers, budget
    <2> QED
        BY <2>0, <2>1, <2>2, <2>3, <2>4, <2>5, <2>6
  <1>10. ASSUME NEW c \in Calls, Acquired(c) PROVE Rest'
    <2>0. DownIdle'
        BY <1>10 DEF Acquired, LeaderInv, TypeOK, DownIdle, CallsOK, CallOK, Running
    <2>1. CallsOK'
        BY <1>10 DEF Acquired, End, NoCall, LeaderInv, TypeOK, CallType, CallsOK, CallOK, Running, key, timers, budget
    <2>2. OneStop'
        BY <1>10 DEF Acquired, End, NoCall, LeaderInv, TypeOK, CallType, OneStop
    <2>3. ReleaseOwn'
        BY <1>10 DEF Acquired, End, NoCall, LeaderInv, TypeOK, CallType, ReleaseOwn, CallsOK, CallOK, OneStop, Running, key, timers, budget
    <2>4. LeaderHolds'
        BY <1>10 DEF Acquired, End, NoCall, LeaderInv, TypeOK, CallType, LeaderHolds, WonHolds, Leading, CallsOK, CallOK, key, timers
    <2>5. WonHolds'
        BY <1>10 DEF Acquired, End, NoCall, LeaderInv, TypeOK, CallType, WonHolds, LeaderHolds, Leading, CallsOK, CallOK, Running, key, timers, budget
    <2>6. RenewedHolds'
        BY <1>10 DEF Acquired, End, NoCall, LeaderInv, TypeOK, CallType, RenewedHolds, key, timers, budget
    <2> QED
        BY <2>0, <2>1, <2>2, <2>3, <2>4, <2>5, <2>6
  <1>11. ASSUME NEW c \in Calls, CheckRenewal(c) PROVE Rest'
    <2>0. DownIdle'
        BY <1>11 DEF CheckRenewal, LeaderInv, TypeOK, DownIdle, CallsOK, CallOK, Running
    <2>1. CallsOK'
        BY <1>11 DEF CheckRenewal, Answer, Goto, End, NoCall, LeaderInv, TypeOK, CallType, CallsOK, CallOK, Running, key, timers, budget
    <2>2. OneStop'
        BY <1>11 DEF CheckRenewal, Answer, Goto, End, NoCall, LeaderInv, TypeOK, CallType, OneStop
    <2>3. ReleaseOwn'
        BY <1>11 DEF CheckRenewal, Answer, Goto, End, NoCall, LeaderInv, TypeOK, CallType, ReleaseOwn, CallsOK, CallOK, OneStop, Running, key, timers, budget
    <2>4. LeaderHolds'
        BY <1>11 DEF CheckRenewal, Answer, Goto, End, NoCall, LeaderInv, TypeOK, CallType, LeaderHolds, Leading, key, timers, budget
    <2>5. WonHolds'
        BY <1>11 DEF CheckRenewal, Answer, Goto, End, NoCall, LeaderInv, TypeOK, CallType, WonHolds, LeaderHolds, Leading, CallsOK, CallOK, Running, key, timers, budget
    <2>6. RenewedHolds'
        BY <1>11 DEF CheckRenewal, Answer, Goto, End, NoCall, LeaderInv, TypeOK, CallType, RenewedHolds, key, timers, budget
    <2> QED
        BY <2>0, <2>1, <2>2, <2>3, <2>4, <2>5, <2>6
  <1>12. ASSUME NEW c \in Calls, Renewed(c) PROVE Rest'
    <2>0. DownIdle'
        BY <1>12 DEF Renewed, LeaderInv, TypeOK, DownIdle, CallsOK, CallOK, Running
    <2>1. CallsOK'
        BY <1>12 DEF Renewed, End, NoCall, LeaderInv, TypeOK, CallType, CallsOK, CallOK, Running, key, timers, budget
    <2>2. OneStop'
        BY <1>12 DEF Renewed, End, NoCall, LeaderInv, TypeOK, CallType, OneStop
    <2>3. ReleaseOwn'
        BY <1>12 DEF Renewed, End, NoCall, LeaderInv, TypeOK, CallType, ReleaseOwn, CallsOK, CallOK, OneStop, Running, key, timers, budget
    <2>4. LeaderHolds'
        BY <1>12 DEF Renewed, End, NoCall, LeaderInv, TypeOK, CallType, LeaderHolds, RenewedHolds, Leading, CallsOK, CallOK, key, timers
    <2>5. WonHolds'
        BY <1>12 DEF Renewed, End, NoCall, LeaderInv, TypeOK, CallType, WonHolds, LeaderHolds, Leading, CallsOK, CallOK, Running, key, timers, budget
    <2>6. RenewedHolds'
        BY <1>12 DEF Renewed, End, NoCall, LeaderInv, TypeOK, CallType, RenewedHolds, key, timers, budget
    <2> QED
        BY <2>0, <2>1, <2>2, <2>3, <2>4, <2>5, <2>6
  <1>13. ASSUME NEW c \in Calls, CheckRelease(c) PROVE Rest'
    <2>0. DownIdle'
        BY <1>13 DEF CheckRelease, Disconnect, LeaderInv, TypeOK, DownIdle, CallsOK, CallOK, Running
    <2>1. CallsOK'
        BY <1>13 DEF CheckRelease, Answer, Goto, Disconnect, Drop, NoCall, LeaderInv, TypeOK, CallType, CallsOK, CallOK, Running, key, timers, budget
    <2>2. OneStop'
        BY <1>13 DEF CheckRelease, Answer, Goto, Disconnect, Drop, NoCall, LeaderInv, TypeOK, CallType, OneStop
    <2>3. ReleaseOwn'
        BY <1>13 DEF CheckRelease, Answer, Goto, Disconnect, Drop, NoCall, LeaderInv, TypeOK, CallType, ReleaseOwn, CallsOK, CallOK, OneStop, Running, key, timers, budget
    <2>4. LeaderHolds'
        BY <1>13 DEF CheckRelease, Answer, Goto, Disconnect, Drop, NoCall, LeaderInv, TypeOK, CallType, LeaderHolds, Leading, key, timers, budget
    <2>5. WonHolds'
        BY <1>13 DEF CheckRelease, Answer, Goto, Disconnect, Drop, NoCall, LeaderInv, TypeOK, CallType, WonHolds, LeaderHolds, Leading, CallsOK, CallOK, Running, key, timers, budget
    <2>6. RenewedHolds'
        BY <1>13 DEF CheckRelease, Answer, Goto, Disconnect, Drop, NoCall, LeaderInv, TypeOK, CallType, RenewedHolds, key, timers, budget
    <2> QED
        BY <2>0, <2>1, <2>2, <2>3, <2>4, <2>5, <2>6
  <1>14. ASSUME NEW c \in Calls, Released(c) PROVE Rest'
    <2>0. DownIdle'
        BY <1>14 DEF Released, Disconnect, LeaderInv, TypeOK, DownIdle, CallsOK, CallOK, Running
    <2>1. CallsOK'
        BY <1>14 DEF Released, Disconnect, Drop, NoCall, LeaderInv, TypeOK, CallType, CallsOK, CallOK, Running, key, timers, budget
    <2>2. OneStop'
        BY <1>14 DEF Released, Disconnect, Drop, NoCall, LeaderInv, TypeOK, CallType, OneStop
    <2>3. ReleaseOwn'
        BY <1>14 DEF Released, Disconnect, Drop, NoCall, LeaderInv, TypeOK, CallType, ReleaseOwn, CallsOK, CallOK, OneStop, Running, key, timers, budget
    <2>4. LeaderHolds'
        BY <1>14 DEF Released, Disconnect, Drop, NoCall, LeaderInv, TypeOK, CallType, LeaderHolds, Leading, key, timers, budget
    <2>5. WonHolds'
        BY <1>14 DEF Released, Disconnect, Drop, NoCall, LeaderInv, TypeOK, CallType, WonHolds, LeaderHolds, Leading, CallsOK, CallOK, Running, key, timers, budget
    <2>6. RenewedHolds'
        BY <1>14 DEF Released, Disconnect, Drop, NoCall, LeaderInv, TypeOK, CallType, RenewedHolds, key, timers, budget
    <2> QED
        BY <2>0, <2>1, <2>2, <2>3, <2>4, <2>5, <2>6
  <1>15. ASSUME NEW c \in Calls, RedisError(c) PROVE Rest'
    <2>0. DownIdle'
        BY <1>15 DEF RedisError, InFlight, LeaderInv, TypeOK, DownIdle, CallsOK, CallOK, Running
    <2>1. CallsOK'
        BY <1>15 DEF RedisError, End, NoCall, InFlight, LeaderInv, TypeOK, CallType, CallsOK, CallOK, Running, key, timers, budget
    <2>2. OneStop'
        BY <1>15 DEF RedisError, End, NoCall, LeaderInv, TypeOK, CallType, OneStop
    <2>3. ReleaseOwn'
        BY <1>15 DEF RedisError, End, NoCall, InFlight, LeaderInv, TypeOK, CallType, ReleaseOwn, CallsOK, CallOK, OneStop, Running, key, timers, budget
    <2>4. LeaderHolds'
      <3> DEFINE o == call[c].owner
      <3>1. o \in Instances
          BY <1>15 DEF RedisError, InFlight, LeaderInv, CallsOK, CallOK
      <3>2. \A i \in Instances : isLeader'[i] => isLeader[i] /\ (i = o => call[c].kind # "renew")
          BY <1>15, <3>1 DEF RedisError, LeaderInv, TypeOK
      <3>3. \A i \in Instances : Leading(i)' => Leading(i) /\ (i = o => call[c].kind # "renew")
          BY <1>15, <3>2 DEF RedisError, Leading
      <3>4. \A d \in Calls : d # c => call'[d] = call[d]
          BY <1>15 DEF RedisError, End, LeaderInv, TypeOK
      <3> QED
          BY <1>15, <3>3, <3>4 DEF RedisError, LeaderInv, LeaderHolds, key, timers
    <2>5. WonHolds'
        BY <1>15 DEF RedisError, End, NoCall, InFlight, LeaderInv, TypeOK, CallType, WonHolds, LeaderHolds, Leading, CallsOK, CallOK, Running, key, timers, budget
    <2>6. RenewedHolds'
        BY <1>15 DEF RedisError, End, NoCall, InFlight, LeaderInv, TypeOK, CallType, RenewedHolds, key, timers, budget
    <2> QED
        BY <2>0, <2>1, <2>2, <2>3, <2>4, <2>5, <2>6
  <1>16. ASSUME NEW c \in Calls, ReleaseError(c) PROVE Rest'
    <2>0. DownIdle'
        BY <1>16 DEF ReleaseError, Disconnect, InFlight, LeaderInv, TypeOK, DownIdle, CallsOK, CallOK, Running
    <2>1. CallsOK'
        BY <1>16 DEF ReleaseError, Disconnect, Drop, NoCall, InFlight, LeaderInv, TypeOK, CallType, CallsOK, CallOK, Running, key, timers, budget
    <2>2. OneStop'
        BY <1>16 DEF ReleaseError, Disconnect, Drop, NoCall, LeaderInv, TypeOK, CallType, OneStop
    <2>3. ReleaseOwn'
        BY <1>16 DEF ReleaseError, Disconnect, Drop, NoCall, InFlight, LeaderInv, TypeOK, CallType, ReleaseOwn, CallsOK, CallOK, OneStop, Running, key, timers, budget
    <2>4. LeaderHolds'
        BY <1>16 DEF ReleaseError, Disconnect, Drop, NoCall, InFlight, LeaderInv, TypeOK, CallType, LeaderHolds, Leading, key, timers, budget
    <2>5. WonHolds'
        BY <1>16 DEF ReleaseError, Disconnect, Drop, NoCall, InFlight, LeaderInv, TypeOK, CallType, WonHolds, LeaderHolds, Leading, CallsOK, CallOK, Running, key, timers, budget
    <2>6. RenewedHolds'
        BY <1>16 DEF ReleaseError, Disconnect, Drop, NoCall, InFlight, LeaderInv, TypeOK, CallType, RenewedHolds, key, timers, budget
    <2> QED
        BY <2>0, <2>1, <2>2, <2>3, <2>4, <2>5, <2>6
  <1>17. ASSUME Tick PROVE Rest'
    <2>0. DownIdle'
        BY <1>17 DEF Tick, LeaderInv, TypeOK, DownIdle, CallsOK, CallOK, Running
    <2>1. CallsOK'
        BY <1>17 DEF Tick, Prompt, Less, InFlight, NoCall, LeaderInv, TypeOK, CallType, CallsOK, CallOK, Running
    <2>2. OneStop'
        BY <1>17 DEF Tick, Prompt, Less, NoCall, LeaderInv, TypeOK, CallType, OneStop
    <2>3. ReleaseOwn'
        BY <1>17 DEF Tick, Prompt, Less, InFlight, NoCall, LeaderInv, TypeOK, CallType, ReleaseOwn, CallsOK, CallOK, OneStop, Running
    <2>4. LeaderHolds'
        BY <1>17 DEF Tick, Prompt, Less, InFlight, NoCall, LeaderInv, TypeOK, CallType, LeaderHolds, Leading, CallsOK, CallOK
    <2>5. WonHolds'
        BY <1>17 DEF Tick, Prompt, Less, InFlight, NoCall, LeaderInv, TypeOK, CallType, WonHolds, LeaderHolds, Leading, CallsOK, CallOK, Running
    <2>6. RenewedHolds'
        BY <1>17 DEF Tick, Prompt, Less, InFlight, NoCall, LeaderInv, TypeOK, CallType, RenewedHolds
    <2> QED
        BY <2>0, <2>1, <2>2, <2>3, <2>4, <2>5, <2>6
  <1>18. ASSUME UNCHANGED vars PROVE Rest'
      BY <1>18 DEF vars, LeaderInv, DownIdle, CallsOK, CallOK, Running, OneStop, ReleaseOwn, LeaderHolds, Leading, WonHolds, RenewedHolds, key, timers, budget
  <1> QED
      BY <1>0, <1>1, <1>2, <1>3, <1>4, <1>5, <1>6, <1>7, <1>8, <1>9, <1>10, <1>11, <1>12, <1>13, <1>14, <1>15, <1>16, <1>17, <1>18 DEF Next, Timer, Server, Reply, LeaderInv

\* Initially LeaderInv holds.
LEMMA LeaderInit == Init => LeaderInv
  <1> SUFFICES ASSUME Init PROVE LeaderInv
      OBVIOUS
  <1>1. TypeOK
      BY TypeInit
  <1> QED
      BY <1>1 DEF Init, LeaderInv, DownIdle, CallsOK, CallOK, OneStop, ReleaseOwn, LeaderHolds,
         Leading, WonHolds, RenewedHolds, NoCall, Call

\* Leaders hold the key, and the key has one value.
LEMMA LeaderInvImpliesOne == LeaderInv => AtMostOneLeader
  BY DEF LeaderInv, LeaderHolds, AtMostOneLeader

\* A stall is never forgotten.
LEMMA StallsStay == TypeOK /\ [Next]_vars /\ stalls' = 0 => stalls = 0
  <1> SUFFICES ASSUME TypeOK, [Next]_vars, stalls' = 0 PROVE stalls = 0
      OBVIOUS
  <1>1. CASE Tick
      BY <1>1 DEF Tick, TypeOK
  <1>2. ASSUME NEW i \in Instances, Start(i) \/ Timer(i) \/ Stop(i) \/ Crash(i) PROVE stalls' = stalls
      BY <1>2 DEF Start, Timer, RenewTimer, ElectionTimer, Stop, Crash, budget
  <1>3. ASSUME NEW c \in Calls, Server(c) PROVE stalls' = stalls
      BY <1>3 DEF Server, Set, Get, Expire, Del, budget
  <1>4. ASSUME NEW c \in Calls, Reply(c) \/ RedisError(c) \/ ReleaseError(c) PROVE stalls' = stalls
      BY <1>4 DEF Reply, Acquired, CheckRenewal, Renewed, CheckRelease, Released, RedisError, ReleaseError, budget
  <1> QED
      BY <1>1, <1>2, <1>3, <1>4 DEF Next, vars, budget

\* The invariant of all behaviours: LeaderInv until the first stall.
PromptInv == TypeOK /\ (stalls = 0 => LeaderInv)

\* PromptInv is inductive.
LEMMA PromptStep == PromptInv /\ [Next]_vars => PromptInv'
  BY TypeStep, StallsStay, LeaderStep DEF PromptInv

\* leaderElection.js:7: as long as no call and no timer was late, no two running
\* instances believe to be the leader, whatever crashes, stops and Redis errors
\* happen and for any RENEW_INTERVAL_MS below the lease.
THEOREM OneLeader == Spec => []OneLeaderUnlessStalled
  <1>1. Init => PromptInv
      BY LeaderInit, TypeInit DEF PromptInv
  <1>2. PromptInv => OneLeaderUnlessStalled
      BY LeaderInvImpliesOne DEF PromptInv, OneLeaderUnlessStalled
  <1> QED
      BY <1>1, <1>2, PromptStep, PTL DEF Spec

\* As long as nothing was late a key disappears or changes hands only by expiring
\* or because its holder stops: releaseLock never deletes somebody else's lease
\* although it reads and deletes the key in two calls.
THEOREM LeaseSafe == Spec => LeaseEndsByOwner
  <1> DEFINE A == (stalls' = 0 /\ holder # None /\ holder' # holder) => (ttl <= 1 \/ phase[holder] # "up")
  <1>1. Init => PromptInv
      BY LeaderInit, TypeInit DEF PromptInv
  <1>2. PromptInv /\ [Next]_vars => [A]_vars
    <2> SUFFICES ASSUME PromptInv, [Next]_vars, stalls' = 0, holder # None, holder' # holder
                 PROVE  ttl <= 1 \/ phase[holder] # "up"
        BY DEF vars
    <2>0. LeaderInv
        BY StallsStay DEF PromptInv
    <2>1. CASE Tick
        BY <2>0, <2>1 DEF Tick, LeaderInv, TypeOK
    <2>2. ASSUME NEW c \in Calls, Del(c) PROVE phase[holder] # "up"
        BY <2>0, <2>2 DEF Del, LeaderInv, CallsOK, CallOK, ReleaseOwn
    <2>3. ASSUME NEW c \in Calls, Set(c) \/ Get(c) \/ Expire(c) PROVE FALSE
        BY <2>3 DEF Set, Get, Expire, key
    <2>4. ASSUME NEW c \in Calls, Reply(c) \/ RedisError(c) \/ ReleaseError(c) PROVE FALSE
        BY <2>4 DEF Reply, Acquired, CheckRenewal, Renewed, CheckRelease, Released, RedisError, ReleaseError, key
    <2>5. ASSUME NEW i \in Instances, Start(i) \/ Timer(i) \/ Stop(i) \/ Crash(i) PROVE FALSE
        BY <2>5 DEF Start, Timer, RenewTimer, ElectionTimer, Stop, Crash, key
    <2> QED
        BY <2>1, <2>2, <2>3, <2>4, <2>5 DEF Next, Server, vars, key
  <1> QED
      BY <1>1, <1>2, PromptStep, PTL DEF Spec, LeaseEndsByOwner

----------------------------------------------------------------------------
(* Callbacks. *)

\* A running instance has a renewal under way only while it leads, and renews a
\* lease it has seen to be its own; the timer has just fired.
RenewLeads ==
    \A c \in Calls : (call[c].kind = "renew" /\ phase[call[c].owner] = "up") =>
        /\ isLeader[call[c].owner]
        /\ renewIn[call[c].owner] = RENEW
        /\ call[c].pc = "got" => call[c].seen = call[c].owner

\* A running instance has one renewal under way at a time.
OneRenew ==
    \A c, d \in Calls :
        (call[c].kind = "renew" /\ call[d].kind = "renew" /\ call[c].owner = call[d].owner
            /\ phase[call[c].owner] = "up") => c = d

\* The callbacks agree with _isLeader, and nothing was told before the start.
Told ==
    \A i \in Instances :
        /\ phase[i] = "up" => (told[i] <=> isLeader[i])
        /\ phase[i] = "down" => ~told[i]

TellInv == RenewLeads /\ OneRenew /\ Told

\* Until the first stall TellInv is preserved.
LEMMA TellStep ==
    ASSUME LeaderInv, TellInv, [Next]_vars, stalls' = 0, stalls = 0
    PROVE  TellInv'
  <1> USE ElectionAssumption
  <1>1. ASSUME NEW i \in Instances, Start(i) PROVE TellInv'
    <2>1. RenewLeads'
        BY <1>1 DEF Start, LeaderInv, TypeOK, CallType, CallsOK, CallOK, DownIdle, Running, NoCall, key, timers, budget, TellInv, RenewLeads, OneRenew
    <2>2. OneRenew'
        BY <1>1 DEF Start, LeaderInv, TypeOK, CallType, CallsOK, CallOK, DownIdle, Running, NoCall, key, timers, budget, TellInv, OneRenew, RenewLeads
    <2>3. Told'
        BY <1>1 DEF Start, LeaderInv, TypeOK, CallType, CallsOK, CallOK, DownIdle, Running, NoCall, key, timers, budget, TellInv, Told, RenewLeads
    <2> QED
        BY <2>1, <2>2, <2>3 DEF TellInv
  <1>2. ASSUME NEW i \in Instances, RenewTimer(i) PROVE TellInv'
    <2>1. RenewLeads'
        BY <1>2 DEF RenewTimer, Send, Call, InFlight, LeaderInv, TypeOK, CallType, CallsOK, CallOK, DownIdle, Running, NoCall, key, timers, budget, TellInv, RenewLeads, OneRenew
    <2>2. OneRenew'
        BY <1>2 DEF RenewTimer, Send, Call, InFlight, LeaderInv, TypeOK, CallType, CallsOK, CallOK, DownIdle, Running, NoCall, key, timers, budget, TellInv, OneRenew, RenewLeads
    <2>3. Told'
        BY <1>2 DEF RenewTimer, Send, Call, InFlight, LeaderInv, TypeOK, CallType, CallsOK, CallOK, DownIdle, Running, NoCall, key, timers, budget, TellInv, Told, RenewLeads
    <2> QED
        BY <2>1, <2>2, <2>3 DEF TellInv
  <1>3. ASSUME NEW i \in Instances, ElectionTimer(i) PROVE TellInv'
    <2>1. RenewLeads'
        BY <1>3 DEF ElectionTimer, Send, Call, InFlight, LeaderInv, TypeOK, CallType, CallsOK, CallOK, DownIdle, Running, NoCall, key, timers, budget, TellInv, RenewLeads, OneRenew
    <2>2. OneRenew'
        BY <1>3 DEF ElectionTimer, Send, Call, InFlight, LeaderInv, TypeOK, CallType, CallsOK, CallOK, DownIdle, Running, NoCall, key, timers, budget, TellInv, OneRenew, RenewLeads
    <2>3. Told'
        BY <1>3 DEF ElectionTimer, Send, Call, InFlight, LeaderInv, TypeOK, CallType, CallsOK, CallOK, DownIdle, Running, NoCall, key, timers, budget, TellInv, Told, RenewLeads
    <2> QED
        BY <2>1, <2>2, <2>3 DEF TellInv
  <1>4. ASSUME NEW i \in Instances, Stop(i) PROVE TellInv'
    <2>1. RenewLeads'
        BY <1>4 DEF Stop, Depart, Send, Call, InFlight, Disconnect, Drop, LeaderInv, TypeOK, CallType, CallsOK, CallOK, DownIdle, Running, NoCall, key, timers, budget, TellInv, RenewLeads, OneRenew
    <2>2. OneRenew'
        BY <1>4 DEF Stop, Depart, Send, Call, InFlight, Disconnect, Drop, LeaderInv, TypeOK, CallType, CallsOK, CallOK, DownIdle, Running, NoCall, key, timers, budget, TellInv, OneRenew, RenewLeads
    <2>3. Told'
        BY <1>4 DEF Stop, Depart, Send, Call, InFlight, Disconnect, Drop, LeaderInv, TypeOK, CallType, CallsOK, CallOK, DownIdle, Running, NoCall, key, timers, budget, TellInv, Told, RenewLeads
    <2> QED
        BY <2>1, <2>2, <2>3 DEF TellInv
  <1>5. ASSUME NEW i \in Instances, Crash(i) PROVE TellInv'
    <2>1. RenewLeads'
        BY <1>5 DEF Crash, Depart, Drop, LeaderInv, TypeOK, CallType, CallsOK, CallOK, DownIdle, Running, NoCall, key, timers, budget, TellInv, RenewLeads, OneRenew
    <2>2. OneRenew'
        BY <1>5 DEF Crash, Depart, Drop, LeaderInv, TypeOK, CallType, CallsOK, CallOK, DownIdle, Running, NoCall, key, timers, budget, TellInv, OneRenew, RenewLeads
    <2>3. Told'
        BY <1>5 DEF Crash, Depart, Drop, LeaderInv, TypeOK, CallType, CallsOK, CallOK, DownIdle, Running, NoCall, key, timers, budget, TellInv, Told, RenewLeads
    <2> QED
        BY <2>1, <2>2, <2>3 DEF TellInv
  <1>6. ASSUME NEW c \in Calls, Set(c) PROVE TellInv'
    <2>1. RenewLeads'
        BY <1>6 DEF Set, Answer, Goto, LeaderInv, TypeOK, CallType, CallsOK, CallOK, DownIdle, Running, NoCall, key, timers, budget, TellInv, RenewLeads, OneRenew
    <2>2. OneRenew'
        BY <1>6 DEF Set, Answer, Goto, LeaderInv, TypeOK, CallType, CallsOK, CallOK, DownIdle, Running, NoCall, key, timers, budget, TellInv, OneRenew, RenewLeads
    <2>3. Told'
        BY <1>6 DEF Set, Answer, Goto, LeaderInv, TypeOK, CallType, CallsOK, CallOK, DownIdle, Running, NoCall, key, timers, budget, TellInv, Told, RenewLeads
    <2> QED
        BY <2>1, <2>2, <2>3 DEF TellInv
  <1>7. ASSUME NEW c \in Calls, Get(c) PROVE TellInv'
    <2>1. RenewLeads'
        BY <1>7 DEF Get, Answer, LeaderInv, TypeOK, CallType, CallsOK, CallOK, DownIdle, Running, NoCall, key, timers, budget, TellInv, RenewLeads, OneRenew, LeaderHolds, Leading
    <2>2. OneRenew'
        BY <1>7 DEF Get, Answer, LeaderInv, TypeOK, CallType, CallsOK, CallOK, DownIdle, Running, NoCall, key, timers, budget, TellInv, OneRenew, RenewLeads, LeaderHolds, Leading
    <2>3. Told'
        BY <1>7 DEF Get, Answer, LeaderInv, TypeOK, CallType, CallsOK, CallOK, DownIdle, Running, NoCall, key, timers, budget, TellInv, Told, RenewLeads, LeaderHolds, Leading
    <2> QED
        BY <2>1, <2>2, <2>3 DEF TellInv
  <1>8. ASSUME NEW c \in Calls, Expire(c) PROVE TellInv'
    <2>1. RenewLeads'
        BY <1>8 DEF Expire, Goto, Answer, LeaderInv, TypeOK, CallType, CallsOK, CallOK, DownIdle, Running, NoCall, key, timers, budget, TellInv, RenewLeads, OneRenew
    <2>2. OneRenew'
        BY <1>8 DEF Expire, Goto, Answer, LeaderInv, TypeOK, CallType, CallsOK, CallOK, DownIdle, Running, NoCall, key, timers, budget, TellInv, OneRenew, RenewLeads
    <2>3. Told'
        BY <1>8 DEF Expire, Goto, Answer, LeaderInv, TypeOK, CallType, CallsOK, CallOK, DownIdle, Running, NoCall, key, timers, budget, TellInv, Told, RenewLeads
    <2> QED
        BY <2>1, <2>2, <2>3 DEF TellInv
  <1>9. ASSUME NEW c \in Calls, Del(c) PROVE TellInv'
    <2>1. RenewLeads'
        BY <1>9 DEF Del, Goto, Answer, LeaderInv, TypeOK, CallType, CallsOK, CallOK, DownIdle, Running, NoCall, key, timers, budget, TellInv, RenewLeads, OneRenew
    <2>2. OneRenew'
        BY <1>9 DEF Del, Goto, Answer, LeaderInv, TypeOK, CallType, CallsOK, CallOK, DownIdle, Running, NoCall, key, timers, budget, TellInv, OneRenew, RenewLeads
    <2>3. Told'
        BY <1>9 DEF Del, Goto, Answer, LeaderInv, TypeOK, CallType, CallsOK, CallOK, DownIdle, Running, NoCall, key, timers, budget, TellInv, Told, RenewLeads
    <2> QED
        BY <2>1, <2>2, <2>3 DEF TellInv
  <1>10. ASSUME NEW c \in Calls, Acquired(c) PROVE TellInv'
    <2>1. RenewLeads'
        BY <1>10 DEF Acquired, End, LeaderInv, TypeOK, CallType, CallsOK, CallOK, DownIdle, Running, NoCall, key, timers, budget, TellInv, RenewLeads, OneRenew
    <2>2. OneRenew'
        BY <1>10 DEF Acquired, End, LeaderInv, TypeOK, CallType, CallsOK, CallOK, DownIdle, Running, NoCall, key, timers, budget, TellInv, OneRenew, RenewLeads
    <2>3. Told'
        BY <1>10 DEF Acquired, End, LeaderInv, TypeOK, CallType, CallsOK, CallOK, DownIdle, Running, NoCall, key, timers, budget, TellInv, Told, RenewLeads
    <2> QED
        BY <2>1, <2>2, <2>3 DEF TellInv
  <1>11. ASSUME NEW c \in Calls, CheckRenewal(c) PROVE TellInv'
    <2>1. RenewLeads'
        BY <1>11 DEF CheckRenewal, Goto, Answer, End, LeaderInv, TypeOK, CallType, CallsOK, CallOK, DownIdle, Running, NoCall, key, timers, budget, TellInv, RenewLeads, OneRenew
    <2>2. OneRenew'
        BY <1>11 DEF CheckRenewal, Goto, Answer, End, LeaderInv, TypeOK, CallType, CallsOK, CallOK, DownIdle, Running, NoCall, key, timers, budget, TellInv, OneRenew, RenewLeads
    <2>3. Told'
        BY <1>11 DEF CheckRenewal, Goto, Answer, End, LeaderInv, TypeOK, CallType, CallsOK, CallOK, DownIdle, Running, NoCall, key, timers, budget, TellInv, Told, RenewLeads
    <2> QED
        BY <2>1, <2>2, <2>3 DEF TellInv
  <1>12. ASSUME NEW c \in Calls, Renewed(c) PROVE TellInv'
    <2>1. RenewLeads'
        BY <1>12 DEF Renewed, End, LeaderInv, TypeOK, CallType, CallsOK, CallOK, DownIdle, Running, NoCall, key, timers, budget, TellInv, RenewLeads, OneRenew
    <2>2. OneRenew'
        BY <1>12 DEF Renewed, End, LeaderInv, TypeOK, CallType, CallsOK, CallOK, DownIdle, Running, NoCall, key, timers, budget, TellInv, OneRenew, RenewLeads
    <2>3. Told'
        BY <1>12 DEF Renewed, End, LeaderInv, TypeOK, CallType, CallsOK, CallOK, DownIdle, Running, NoCall, key, timers, budget, TellInv, Told, RenewLeads
    <2> QED
        BY <2>1, <2>2, <2>3 DEF TellInv
  <1>13. ASSUME NEW c \in Calls, CheckRelease(c) PROVE TellInv'
    <2>1. RenewLeads'
        BY <1>13 DEF CheckRelease, Goto, Answer, Disconnect, Drop, LeaderInv, TypeOK, CallType, CallsOK, CallOK, DownIdle, Running, NoCall, key, timers, budget, TellInv, RenewLeads, OneRenew
    <2>2. OneRenew'
      <3>1. \A d \in Calls : call'[d].kind = "renew" => call[d].kind = "renew" /\ call'[d].owner = call[d].owner
          BY <1>13 DEF CheckRelease, Goto, Answer, Disconnect, Drop, LeaderInv, TypeOK, CallType, NoCall
      <3>2. \A j \in Instances : phase'[j] = "up" => phase[j] = "up"
          BY <1>13 DEF CheckRelease, Disconnect, LeaderInv, TypeOK
      <3>3. \A d \in Calls : call[d].kind = "renew" => call[d].owner \in Instances
          BY DEF LeaderInv, CallsOK, CallOK, NoCall
      <3> QED
          BY <3>1, <3>2, <3>3 DEF TellInv, OneRenew
    <2>3. Told'
        BY <1>13 DEF CheckRelease, Goto, Answer, Disconnect, Drop, LeaderInv, TypeOK, CallType, CallsOK, CallOK, DownIdle, Running, NoCall, key, timers, budget, TellInv, Told, RenewLeads
    <2> QED
        BY <2>1, <2>2, <2>3 DEF TellInv
  <1>14. ASSUME NEW c \in Calls, Released(c) PROVE TellInv'
    <2>1. RenewLeads'
        BY <1>14 DEF Released, Disconnect, Drop, LeaderInv, TypeOK, CallType, CallsOK, CallOK, DownIdle, Running, NoCall, key, timers, budget, TellInv, RenewLeads, OneRenew
    <2>2. OneRenew'
        BY <1>14 DEF Released, Disconnect, Drop, LeaderInv, TypeOK, CallType, CallsOK, CallOK, DownIdle, Running, NoCall, key, timers, budget, TellInv, OneRenew, RenewLeads
    <2>3. Told'
        BY <1>14 DEF Released, Disconnect, Drop, LeaderInv, TypeOK, CallType, CallsOK, CallOK, DownIdle, Running, NoCall, key, timers, budget, TellInv, Told, RenewLeads
    <2> QED
        BY <2>1, <2>2, <2>3 DEF TellInv
  <1>15. ASSUME NEW c \in Calls, RedisError(c) PROVE TellInv'
    <2>1. RenewLeads'
        BY <1>15 DEF RedisError, End, InFlight, LeaderInv, TypeOK, CallType, CallsOK, CallOK, DownIdle, Running, NoCall, key, timers, budget, TellInv, RenewLeads, OneRenew
    <2>2. OneRenew'
        BY <1>15 DEF RedisError, End, InFlight, LeaderInv, TypeOK, CallType, CallsOK, CallOK, DownIdle, Running, NoCall, key, timers, budget, TellInv, OneRenew, RenewLeads
    <2>3. Told'
        BY <1>15 DEF RedisError, End, InFlight, LeaderInv, TypeOK, CallType, CallsOK, CallOK, DownIdle, Running, NoCall, key, timers, budget, TellInv, Told, RenewLeads
    <2> QED
        BY <2>1, <2>2, <2>3 DEF TellInv
  <1>16. ASSUME NEW c \in Calls, ReleaseError(c) PROVE TellInv'
    <2>1. RenewLeads'
        BY <1>16 DEF ReleaseError, Disconnect, Drop, InFlight, LeaderInv, TypeOK, CallType, CallsOK, CallOK, DownIdle, Running, NoCall, key, timers, budget, TellInv, RenewLeads, OneRenew
    <2>2. OneRenew'
        BY <1>16 DEF ReleaseError, Disconnect, Drop, InFlight, LeaderInv, TypeOK, CallType, CallsOK, CallOK, DownIdle, Running, NoCall, key, timers, budget, TellInv, OneRenew, RenewLeads
    <2>3. Told'
        BY <1>16 DEF ReleaseError, Disconnect, Drop, InFlight, LeaderInv, TypeOK, CallType, CallsOK, CallOK, DownIdle, Running, NoCall, key, timers, budget, TellInv, Told, RenewLeads
    <2> QED
        BY <2>1, <2>2, <2>3 DEF TellInv
  <1>17. ASSUME Tick PROVE TellInv'
    <2>1. RenewLeads'
        BY <1>17 DEF Tick, Prompt, InFlight, Less, LeaderInv, TypeOK, CallType, CallsOK, CallOK, DownIdle, Running, NoCall, key, timers, budget, TellInv, RenewLeads, OneRenew
    <2>2. OneRenew'
        BY <1>17 DEF Tick, Prompt, InFlight, Less, LeaderInv, TypeOK, CallType, CallsOK, CallOK, DownIdle, Running, NoCall, key, timers, budget, TellInv, OneRenew, RenewLeads
    <2>3. Told'
        BY <1>17 DEF Tick, Prompt, InFlight, Less, LeaderInv, TypeOK, CallType, CallsOK, CallOK, DownIdle, Running, NoCall, key, timers, budget, TellInv, Told, RenewLeads
    <2> QED
        BY <2>1, <2>2, <2>3 DEF TellInv
  <1>18. ASSUME UNCHANGED vars PROVE TellInv'
      BY <1>18 DEF vars, key, timers, budget, TellInv, RenewLeads, OneRenew, Told
  <1> QED
      BY <1>1, <1>2, <1>3, <1>4, <1>5, <1>6, <1>7, <1>8, <1>9, <1>10, <1>11, <1>12, <1>13, <1>14, <1>15, <1>16, <1>17, <1>18 DEF Next, Timer, Server, Reply

\* leaderElection.js:121: until a call or a timer is late, every loss of leadership
\* of a running instance is reported to it and every gain announced, for any number
\* of crashes, stops and Redis errors.
THEOREM LossReported == Spec => []LossReportedUnlessStalled
  <1> DEFINE Inv == PromptInv /\ (stalls = 0 => TellInv)
  <1>1. Init => Inv
    <2>1. Init => PromptInv
        BY LeaderInit, TypeInit DEF PromptInv
    <2>2. Init => TellInv
        BY DEF Init, TellInv, RenewLeads, OneRenew, Told, NoCall
    <2> QED
        BY <2>1, <2>2
  <1>2. Inv /\ [Next]_vars => Inv'
      BY PromptStep, StallsStay, TellStep DEF PromptInv
  <1>3. Inv => LossReportedUnlessStalled
      BY DEF TellInv, Told, LossReportedUnlessStalled
  <1> QED
      BY <1>1, <1>2, <1>3, PTL DEF Spec

----------------------------------------------------------------------------
(* Failover. *)

\* A stop is under way until its instance is gone; it is one call, and the time
\* without a leader is counted from its end.
StopsQuiet ==
    \A i \in Instances : phase[i] = "stopping" =>
        vacant = 0 /\ \E c \in Calls : call[c].kind = "stop" /\ call[c].owner = i

\* The key that a running instance leads by, will learn to have, can wait for, or
\* is about to take.
Succession(i) ==
    \/ isLeader[i]
    \/ \E c \in Calls : call[c].pc = "answered" /\ call[c].seen = i /\ call[c].owner = i
    \/ holder # None /\ vacant + ttl <= LEASE
    \/ holder = None /\ \/ vacant + pollIn[i] <= LEASE + POLL
                        \/ \E c \in Calls : call[c].pc = "set" /\ call[c].owner = i

\* Time without a leader is counted only while a running instance is to follow.
Followed == vacant > 0 => \E i \in Instances : phase[i] = "up" /\ Succession(i)

FailoverInv == StopsQuiet /\ vacant <= LEASE + POLL /\ Followed

\* Until the first stall an instance that stops has its call of releaseLock under
\* way: only that call's end removes it, and no time passes before.
LEMMA StopsStep ==
    ASSUME LeaderInv, StopsQuiet, [Next]_vars, stalls' = 0, stalls = 0
    PROVE  StopsQuiet'
  <1> USE ElectionAssumption
  <1>1. ASSUME NEW i \in Instances, Start(i) PROVE StopsQuiet'
      BY <1>1 DEF Start, LeaderInv, TypeOK, CallType, CallsOK, CallOK, Running, NoCall, key, timers, budget, StopsQuiet
  <1>2. ASSUME NEW i \in Instances, RenewTimer(i) PROVE StopsQuiet'
    <2>1. phase' = phase /\ vacant' = vacant
        BY <1>2 DEF RenewTimer
    <2>2. \A c \in Calls : call[c].kind = "stop" => call'[c] = call[c]
        BY <1>2 DEF RenewTimer, Send, InFlight, LeaderInv, TypeOK, CallsOK, CallOK, NoCall
    <2> QED
        BY <2>1, <2>2 DEF StopsQuiet
  <1>3. ASSUME NEW i \in Instances, ElectionTimer(i) PROVE StopsQuiet'
      BY <1>3 DEF ElectionTimer, Send, Call, InFlight, LeaderInv, TypeOK, CallType, CallsOK, CallOK, Running, NoCall, key, timers, budget, StopsQuiet
  <1>4. ASSUME NEW i \in Instances, Stop(i) PROVE StopsQuiet'
      BY <1>4 DEF Stop, Depart, Send, Call, InFlight, Disconnect, Drop, LeaderInv, TypeOK, CallType, CallsOK, CallOK, Running, NoCall, key, timers, budget, StopsQuiet
  <1>5. ASSUME NEW i \in Instances, Crash(i) PROVE StopsQuiet'
      BY <1>5 DEF Crash, Depart, Drop, LeaderInv, TypeOK, CallType, CallsOK, CallOK, Running, NoCall, key, timers, budget, StopsQuiet
  <1>6. ASSUME NEW c \in Calls, Set(c) PROVE StopsQuiet'
      BY <1>6 DEF Set, Answer, Goto, LeaderInv, TypeOK, CallType, CallsOK, CallOK, Running, NoCall, key, timers, budget, StopsQuiet
  <1>7. ASSUME NEW c \in Calls, Get(c) PROVE StopsQuiet'
      BY <1>7 DEF Get, Answer, LeaderInv, TypeOK, CallType, CallsOK, CallOK, Running, NoCall, key, timers, budget, StopsQuiet
  <1>8. ASSUME NEW c \in Calls, Expire(c) PROVE StopsQuiet'
      BY <1>8 DEF Expire, Goto, Answer, LeaderInv, TypeOK, CallType, CallsOK, CallOK, Running, NoCall, key, timers, budget, StopsQuiet
  <1>9. ASSUME NEW c \in Calls, Del(c) PROVE StopsQuiet'
      BY <1>9 DEF Del, Goto, Answer, LeaderInv, TypeOK, CallType, CallsOK, CallOK, Running, NoCall, key, timers, budget, StopsQuiet
  <1>10. ASSUME NEW c \in Calls, Acquired(c) PROVE StopsQuiet'
      BY <1>10 DEF Acquired, End, LeaderInv, TypeOK, CallType, CallsOK, CallOK, Running, NoCall, key, timers, budget, StopsQuiet
  <1>11. ASSUME NEW c \in Calls, CheckRenewal(c) PROVE StopsQuiet'
      BY <1>11 DEF CheckRenewal, Goto, Answer, End, LeaderInv, TypeOK, CallType, CallsOK, CallOK, Running, NoCall, key, timers, budget, StopsQuiet
  <1>12. ASSUME NEW c \in Calls, Renewed(c) PROVE StopsQuiet'
      BY <1>12 DEF Renewed, End, LeaderInv, TypeOK, CallType, CallsOK, CallOK, Running, NoCall, key, timers, budget, StopsQuiet
  <1>13. ASSUME NEW c \in Calls, CheckRelease(c) PROVE StopsQuiet'
      BY <1>13 DEF CheckRelease, Goto, Answer, Disconnect, Drop, LeaderInv, TypeOK, CallType, CallsOK, CallOK, Running, NoCall, key, timers, budget, StopsQuiet
  <1>14. ASSUME NEW c \in Calls, Released(c) PROVE StopsQuiet'
      BY <1>14 DEF Released, Disconnect, Drop, LeaderInv, TypeOK, CallType, CallsOK, CallOK, Running, NoCall, key, timers, budget, StopsQuiet
  <1>15. ASSUME NEW c \in Calls, RedisError(c) PROVE StopsQuiet'
      BY <1>15 DEF RedisError, End, InFlight, LeaderInv, TypeOK, CallType, CallsOK, CallOK, Running, NoCall, key, timers, budget, StopsQuiet
  <1>16. ASSUME NEW c \in Calls, ReleaseError(c) PROVE StopsQuiet'
      BY <1>16 DEF ReleaseError, Disconnect, Drop, InFlight, LeaderInv, TypeOK, CallType, CallsOK, CallOK, Running, NoCall, key, timers, budget, StopsQuiet
  <1>17. ASSUME Tick PROVE StopsQuiet'
      BY <1>17 DEF Tick, Prompt, InFlight, LeaderInv, TypeOK, CallType, CallsOK, CallOK, Running, NoCall, key, timers, budget, StopsQuiet
  <1>18. ASSUME UNCHANGED vars PROVE StopsQuiet'
      BY <1>18 DEF vars, key, timers, budget, StopsQuiet
  <1> QED
      BY <1>1, <1>2, <1>3, <1>4, <1>5, <1>6, <1>7, <1>8, <1>9, <1>10, <1>11, <1>12, <1>13, <1>14, <1>15, <1>16, <1>17, <1>18 DEF Next, Timer, Server, Reply

\* Until the first stall every step leaves a running instance in line: a lease
\* that is waited for is prolonged only by a leader, and whoever polls a free key
\* takes it.
LEMMA FollowedStep ==
    ASSUME LeaderInv, TellInv, FailoverInv, [Next]_vars, stalls' = 0, stalls = 0,
           ~ Tick
    PROVE  Followed' /\ vacant' <= LEASE + POLL
  <1> USE ElectionAssumption
  <1>0. vacant \in Nat /\ LEASE + POLL \in Nat /\ ttl \in Nat /\ pollIn \in [Instances -> Nat]
      BY DEF LeaderInv, TypeOK, MaxVacant
  <1>1. vacant' = 0 \/ vacant' = vacant
      BY DEF Next, Timer, Server, Reply, Start, RenewTimer, ElectionTimer, Stop, Crash, Depart, Set, Get, Expire,
             Del, Acquired, CheckRenewal, Renewed, CheckRelease, Released, RedisError, ReleaseError, vars
  <1>2. vacant' <= LEASE + POLL
      BY <1>0, <1>1 DEF FailoverInv
  <1> SUFFICES ASSUME vacant' > 0 PROVE \E i \in Instances : phase'[i] = "up" /\ Succession(i)'
      BY <1>2 DEF Followed
  <1>3. vacant' = vacant /\ vacant > 0
      BY <1>1
  <1>4. PICK j \in Instances : phase[j] = "up" /\ Succession(j)
      BY <1>3 DEF FailoverInv, Followed
  <1>5. \A i \in Instances : phase[i] # "stopping"
      BY <1>3 DEF FailoverInv, StopsQuiet
  <1>6. \A c \in Calls : call[c].pc # "free" => phase[call[c].owner] = "up" /\ call[c].owner \in Instances /\ call[c].kind # "stop"
      BY <1>5 DEF LeaderInv, CallsOK, CallOK, Running
  <1>7. ASSUME NEW i \in Instances, Start(i) PROVE phase'[j] = "up" /\ Succession(j)'
      BY <1>4, <1>7 DEF Start, Succession, LeaderInv, TypeOK, CallType, NoCall, key, timers, budget
  <1>8. ASSUME NEW i \in Instances, RenewTimer(i) PROVE phase'[j] = "up" /\ Succession(j)'
      BY <1>4, <1>8 DEF RenewTimer, Send, Call, InFlight, Succession, LeaderInv, TypeOK, CallType, NoCall, key, timers, budget
  <1>9. ASSUME NEW i \in Instances, ElectionTimer(i) PROVE phase'[j] = "up" /\ Succession(j)'
      BY <1>4, <1>9 DEF ElectionTimer, Send, Call, InFlight, Succession, LeaderInv, TypeOK, CallType, NoCall, key, timers, budget
  <1>10. ASSUME NEW c \in Calls, Set(c) PROVE \E i \in Instances : phase'[i] = "up" /\ Succession(i)'
    <2>1. CASE holder = None
      <3>1. call'[c].pc = "answered" /\ call'[c].seen = call[c].owner /\ call'[c].owner = call[c].owner
          BY <1>10, <2>1 DEF Set, Answer, LeaderInv, TypeOK, CallType, NoCall, key, timers, budget
      <3>2. phase'[call[c].owner] = "up" /\ call[c].owner \in Instances
          BY <1>6, <1>10 DEF Set
      <3> QED
          BY <3>1, <3>2 DEF Succession
    <2>2. CASE holder # None
        BY <1>4, <1>10, <2>2 DEF Set, Goto, Answer, Succession, LeaderInv, TypeOK, CallType, NoCall, key, timers, budget
    <2> QED
        BY <2>1, <2>2
  <1>11. ASSUME NEW c \in Calls, Get(c) PROVE phase'[j] = "up" /\ Succession(j)'
      BY <1>4, <1>11 DEF Get, Answer, Succession, LeaderInv, TypeOK, CallType, NoCall, key, timers, budget
  <1>12. ASSUME NEW c \in Calls, Expire(c) PROVE \E i \in Instances : phase'[i] = "up" /\ Succession(i)'
    <2>1. call[c].kind = "renew"
        BY <1>12 DEF Expire, LeaderInv, CallsOK, CallOK
    <2>2. call[c].owner \in Instances /\ phase'[call[c].owner] = "up" /\ isLeader'[call[c].owner]
        BY <1>6, <1>12, <2>1 DEF Expire, TellInv, RenewLeads
    <2> QED
        BY <2>2 DEF Succession
  <1>13. ASSUME NEW c \in Calls, Acquired(c) PROVE phase'[j] = "up" /\ Succession(j)'
      BY <1>4, <1>13 DEF Acquired, End, Succession, LeaderInv, TypeOK, CallType, NoCall, key, timers, budget
  <1>14. ASSUME NEW c \in Calls, CheckRenewal(c) PROVE phase'[j] = "up" /\ Succession(j)'
    <2>1. call[c].seen = call[c].owner
        BY <1>6, <1>14 DEF CheckRenewal, TellInv, RenewLeads
    <2> QED
        BY <1>4, <1>14, <2>1 DEF CheckRenewal, Goto, Answer, Succession, LeaderInv, TypeOK, CallType, NoCall, key, timers, budget
  <1>15. ASSUME NEW c \in Calls, Renewed(c) PROVE phase'[j] = "up" /\ Succession(j)'
      BY <1>4, <1>15 DEF Renewed, End, Succession, LeaderInv, TypeOK, CallType, NoCall, key, timers, budget
  <1>16. ASSUME NEW c \in Calls, Del(c) \/ CheckRelease(c) \/ Released(c) PROVE FALSE
    <2>1. call[c].pc # "free" /\ call[c].kind = "stop"
        BY <1>16 DEF Del, CheckRelease, Released, LeaderInv, CallsOK, CallOK
    <2> QED
        BY <1>6, <2>1
  <1>17. ASSUME NEW i \in Instances, Stop(i) \/ Crash(i) PROVE FALSE
    <2>1. Stop(i) => vacant' = 0
        BY Zenon DEF Stop, Depart
    <2>2. Crash(i) => vacant' = 0
        BY Zenon DEF Crash, Depart
    <2> QED
        BY <1>3, <1>17, <2>1, <2>2
  <1>18. ASSUME NEW c \in Calls, RedisError(c) \/ ReleaseError(c) PROVE FALSE
      BY <1>3, <1>18 DEF RedisError, ReleaseError
  <1>19. ASSUME UNCHANGED vars PROVE phase'[j] = "up" /\ Succession(j)'
      BY <1>4, <1>19 DEF vars, key, timers, Succession
  <1> QED
      BY <1>7, <1>8, <1>9, <1>10, <1>11, <1>12, <1>13, <1>14, <1>15, <1>16, <1>17, <1>18, <1>19
      DEF Next, Timer, Server, Reply

\* A tick that finds nothing late brings the end of the lease, or of the poll, nearer
\* by the tick it counts.
LEMMA FollowedTick ==
    ASSUME LeaderInv, FailoverInv, Tick, stalls' = 0, stalls = 0
    PROVE  Followed' /\ vacant' <= LEASE + POLL
  <1> USE ElectionAssumption
  <1>0. /\ vacant \in Nat /\ LEASE \in Nat /\ POLL \in Nat /\ ttl \in 0..LEASE
        /\ pollIn \in [Instances -> 0..POLL] /\ vacant < MaxVacant
      BY DEF LeaderInv, TypeOK, MaxVacant, FailoverInv
  <1>1. Prompt
      BY <1>0 DEF Tick, LeaderInv, TypeOK
  <1>2. CASE \E i \in Instances : Leading(i)
      BY <1>0, <1>2 DEF Tick, Followed
  <1>3. CASE ~ \E i \in Instances : phase[i] = "up"
    <2>1. vacant' = 0
        BY <1>0, <1>3 DEF Tick, Leading, FailoverInv, Followed
    <2> QED
        BY <1>0, <2>1 DEF Followed
  <1>4. CASE (\E i \in Instances : phase[i] = "up") /\ \A i \in Instances : ~Leading(i)
    <2>1. vacant' = vacant + 1
        BY <1>0, <1>4 DEF Tick
    <2>2. PICK j \in Instances : phase[j] = "up" /\ (vacant > 0 => Succession(j))
        BY <1>0, <1>4 DEF FailoverInv, Followed
    <2>3. \/ holder # None /\ vacant + ttl <= LEASE
          \/ holder = None /\ vacant + pollIn[j] <= LEASE + POLL
      <3>1. CASE vacant = 0
          BY <1>0, <3>1
      <3>2. CASE vacant > 0
          BY <1>1, <1>4, <2>2, <3>2 DEF Succession, Prompt, InFlight, Leading
      <3> QED
          BY <1>0, <3>1, <3>2
    <2>4. pollIn[j] > 0 /\ pollIn'[j] = pollIn[j] - 1 /\ phase'[j] = "up"
        BY <1>0, <1>1, <2>2 DEF Tick, Prompt, Less
    <2>5. vacant' <= LEASE + POLL /\ Succession(j)'
      <3>1. CASE holder # None /\ ttl > 1
          BY <1>0, <2>1, <2>3, <3>1 DEF Tick, Less, Succession
      <3>2. CASE ~(holder # None /\ ttl > 1)
        <4>1. holder' = None
            BY <3>2 DEF Tick
        <4>2. vacant' + pollIn'[j] <= LEASE + POLL
            BY <1>0, <2>1, <2>3, <2>4, <3>2
        <4> QED
            BY <1>0, <2>1, <2>4, <4>1, <4>2 DEF Succession
      <3> QED
          BY <3>1, <3>2
    <2> QED
        BY <2>4, <2>5 DEF Followed
  <1> QED
      BY <1>2, <1>3, <1>4

\* leaderElection.js:8: for any number of instances, until a call or a timer is late,
\* a running instance leads again after at most the rest of the lease and one poll,
\* whatever crashes, stops and Redis errors there were before.
THEOREM FailoverInTime == Spec => []FailoverBounded
  <1> DEFINE Inv == PromptInv /\ (stalls = 0 => TellInv /\ FailoverInv)
  <1>1. Init => Inv
    <2>1. Init => PromptInv
        BY LeaderInit, TypeInit DEF PromptInv
    <2>2. Init => TellInv
        BY DEF Init, TellInv, RenewLeads, OneRenew, Told, NoCall
    <2>3. Init => FailoverInv
        BY ElectionAssumption DEF Init, FailoverInv, StopsQuiet, Followed
    <2> QED
        BY <2>1, <2>2, <2>3
  <1>2. Inv /\ [Next]_vars => Inv'
    <2> SUFFICES ASSUME Inv, [Next]_vars, stalls' = 0
                 PROVE  TellInv' /\ FailoverInv'
        BY PromptStep
    <2>1. stalls = 0 /\ LeaderInv /\ TellInv /\ FailoverInv
        BY StallsStay DEF PromptInv
    <2>2. TellInv'
        BY <2>1, TellStep
    <2>3. StopsQuiet'
        BY <2>1, StopsStep DEF FailoverInv
    <2>4. Followed' /\ vacant' <= LEASE + POLL
        BY <2>1, FollowedStep, FollowedTick
    <2> QED
        BY <2>2, <2>3, <2>4, ElectionAssumption DEF FailoverInv
  <1>3. Inv => FailoverBounded
      BY DEF FailoverInv, FailoverBounded
  <1> QED
      BY <1>1, <1>2, <1>3, PTL DEF Spec

----------------------------------------------------------------------------
(* The election implements the abstract lease. *)

\* Until the first stall every step of the election grants the lease, lets its
\* holder lead, ends leadership, frees a lease by which nobody leads, or does none
\* of these.
LEMMA LeaseStep ==
    ASSUME LeaderInv, LeaderInv', [Next]_vars, stalls = 0, stalls' = 0
    PROVE  Lease!Next \/ UNCHANGED <<holder, Leaders>>
  <1>1. Leaders \subseteq {holder} /\ Leaders' \subseteq {holder'} /\ None \notin Leaders'
      BY ElectionAssumption DEF LeaderInv, LeaderHolds, Leaders, Leading
  <1>2. (stalls' > 0) = FALSE
      OBVIOUS
  <1>3. CASE holder' = holder
    <2>1. Leaders' = {} \/ (Leaders' = {holder} /\ holder # None)
        BY <1>1, <1>3
    <2> QED
        BY <1>2, <1>3, <2>1 DEF Lease!Next, Lease!Lead, Lease!StepDown
  <1>4. ASSUME holder' = None, Leaders' = Leaders PROVE Lease!Next
    <2>1. Leaders = {}
        BY <1>1, <1>4
    <2> QED
        BY <1>2, <1>4, <2>1 DEF Lease!Next, Lease!Free
  <1>5. ASSUME NEW c \in Calls, Set(c), holder' # holder PROVE Lease!Next
    <2>1. holder = None /\ holder' = call[c].owner /\ Leaders' = Leaders
        BY <1>5 DEF Set, key, Leaders, Leading
    <2>2. call[c].owner \in Instances
        BY <1>5 DEF Set, LeaderInv, CallsOK, CallOK
    <2> QED
        BY <1>2, <2>1, <2>2 DEF Lease!Next, Lease!Grant
  <1>6. ASSUME NEW c \in Calls, Del(c) PROVE Lease!Next
      BY <1>4, <1>6 DEF Del, Leaders, Leading
  <1>7. ASSUME Tick, holder' # holder PROVE Lease!Next
      BY <1>4, <1>7 DEF Tick, Leaders, Leading
  <1>8. ASSUME NEW i \in Instances, Start(i) \/ Timer(i) \/ Crash(i) PROVE holder' = holder
      BY <1>8 DEF Start, Timer, RenewTimer, ElectionTimer, Crash, key
  <1>9. ASSUME NEW i \in Instances, Stop(i) PROVE holder' = holder
      BY <1>9, Zenon DEF Stop, key
  <1>10. ASSUME NEW c \in Calls, Get(c) \/ Expire(c) \/ Reply(c) \/ RedisError(c) \/ ReleaseError(c)
         PROVE  holder' = holder
      BY <1>10 DEF Get, Expire, Reply, Acquired, CheckRenewal, Renewed, CheckRelease, Released,
                   RedisError, ReleaseError, key
  <1>11. UNCHANGED vars => holder' = holder
      BY DEF vars, key
  <1> QED
      BY <1>3, <1>5, <1>6, <1>7, <1>8, <1>9, <1>10, <1>11 DEF Next, Server

\* leaderElection.js:7: the election implements AbstractLease for any number of
\* instances: until a call or a timer is late only the holder of the key leads, and
\* whatever crashes, stops and Redis errors there are, the key is freed only when
\* nobody leads by it.
THEOREM ElectionImplementsLease == Spec => ImplementsLease
  <1>1. Init => Lease!Init
    <2>1. Init => Leaders = {} /\ (stalls > 0) = FALSE
        BY DEF Init, Leaders, Leading
    <2> QED
        BY <2>1 DEF Init, Lease!Init
  <1>2. Init => PromptInv
      BY LeaderInit, TypeInit DEF PromptInv
  <1>3. PromptInv /\ PromptInv' /\ [Next]_vars => [Lease!Next]_<<holder, Leaders, stalls > 0>>
    <2> SUFFICES ASSUME PromptInv, PromptInv', [Next]_vars
                 PROVE  [Lease!Next]_<<holder, Leaders, stalls > 0>>
        OBVIOUS
    <2>1. stalls \in Nat /\ stalls' \in Nat
        BY DEF PromptInv, TypeOK
    <2>2. CASE stalls' # 0
      <3>1. (stalls' > 0) = TRUE
          BY <2>1, <2>2
      <3> QED
          BY <3>1 DEF Lease!Next
    <2>3. CASE stalls' = 0
      <3>1. stalls = 0 /\ LeaderInv /\ LeaderInv'
          BY <2>3, StallsStay DEF PromptInv
      <3>2. (stalls > 0)' = (stalls > 0)
          BY <2>3, <3>1
      <3> QED
          BY <2>3, <3>1, <3>2, LeaseStep
    <2> QED
        BY <2>2, <2>3
  <1> QED
      BY <1>1, <1>2, <1>3, PromptStep, PTL DEF Spec, ImplementsLease, Lease!Spec

=============================================================================
