--------------------------- MODULE LeaderElection ---------------------------
(***************************************************************************)
(* Redis-based leader election of the indexer daemon:                      *)
(* src/indexer/src/leaderElection.js.                                      *)
(*                                                                         *)
(* Every instance runs two setInterval timers: a leader renews its lease,  *)
(* a standby tries to acquire it.  Each call to Redis is a message: the    *)
(* server executes the command in one step and the instance handles the    *)
(* reply in a later one, so calls of one instance may overlap.             *)
(*                                                                         *)
(* Time: the TTL of the key and both timers are kept as the ticks that are *)
(* left.  A tick that passes while a call is in flight or a timer is due   *)
(* is a stall (a slow Redis, a paused process); MaxStalls = 0 says that    *)
(* calls are short against a tick.  A restarted process has another        *)
(* instance id, so an instance never comes back.                           *)
(***************************************************************************)
EXTENDS Integers

CONSTANTS
    Instances,
    Calls,          \* bound: how many calls to Redis may be in flight
    None,           \* the key does not exist
    LEASE,          \* LEASE_TTL_S
    RENEW,          \* RENEW_INTERVAL_MS
    POLL,           \* ELECTION_POLL_MS
    MaxErrors,      \* bound: calls to Redis that fail
    MaxDepartures,  \* bound: instances that crash or are stopped
    MaxStalls       \* bound: ticks that find a call in flight or a timer due

ASSUME ElectionAssumption ==
    /\ None \notin Instances
    /\ RENEW \in Nat \ {0} /\ POLL \in Nat \ {0}
    /\ LEASE \in Nat /\ RENEW < LEASE
    /\ MaxErrors \in Nat /\ MaxDepartures \in Nat /\ MaxStalls \in Nat

VARIABLES
    holder,         \* the value of LEADER_KEY, or None
    ttl,            \* what is left of its expiry time; 0 without a key
    phase,          \* of an instance: down, up, stopping, gone
    isLeader,       \* _isLeader
    told,           \* the last callback was onBecomeLeader
    renewIn,        \* time until _renewTimer fires
    pollIn,         \* time until _electionTimer fires
    call,           \* the calls in flight
    errors, departures, stalls,
    vacant          \* ticks without a leader since the last disturbance

key == <<holder, ttl>>
timers == <<renewIn, pollIn>>
budget == <<errors, departures, stalls>>
vars == <<key, phase, isLeader, told, timers, call, budget, vacant>>

NoCall == [pc |-> "free", kind |-> "none", owner |-> None, seen |-> None]

Call(i, kind, pc) == [pc |-> pc, kind |-> kind, owner |-> i, seen |-> None]

Init ==
    /\ holder = None /\ ttl = 0
    /\ phase = [i \in Instances |-> "down"]
    /\ isLeader = [i \in Instances |-> FALSE]
    /\ told = [i \in Instances |-> FALSE]
    /\ renewIn = [i \in Instances |-> 0]
    /\ pollIn = [i \in Instances |-> 0]
    /\ call = [c \in Calls |-> NoCall]
    /\ errors = 0 /\ departures = 0 /\ stalls = 0 /\ vacant = 0

Running(i) == phase[i] \in {"up", "stopping"}
Leading(i) == phase[i] = "up" /\ isLeader[i]
InFlight(c) == call[c].pc # "free"

----------------------------------------------------------------------------
(* start and its two timers. *)

Start(i) ==
    /\ phase[i] = "down"
    /\ phase' = [phase EXCEPT ![i] = "up"]
    /\ renewIn' = [renewIn EXCEPT ![i] = RENEW]
    /\ pollIn' = [pollIn EXCEPT ![i] = POLL]
    /\ UNCHANGED <<key, isLeader, told, call, budget, vacant>>

Send(i, kind, pc) ==
    \E c \in Calls : ~InFlight(c) /\ call' = [call EXCEPT ![c] = Call(i, kind, pc)]

RenewTimer(i) ==
    /\ phase[i] = "up" /\ renewIn[i] = 0
    /\ renewIn' = [renewIn EXCEPT ![i] = RENEW]
    /\ IF isLeader[i] THEN Send(i, "renew", "get") ELSE UNCHANGED call
    /\ UNCHANGED <<key, phase, isLeader, told, pollIn, budget, vacant>>

\* Mutant: an instance that was a leader does not stand again.
ElectionTimerOnce(i) ==
    /\ phase[i] = "up" /\ pollIn[i] = 0
    /\ pollIn' = [pollIn EXCEPT ![i] = POLL]
    /\ IF told[i] THEN UNCHANGED call ELSE Send(i, "elect", "set")
    /\ UNCHANGED <<key, phase, isLeader, told, renewIn, budget, vacant>>

ElectionTimer(i) ==
    /\ phase[i] = "up" /\ pollIn[i] = 0
    /\ pollIn' = [pollIn EXCEPT ![i] = POLL]
    /\ IF isLeader[i] THEN UNCHANGED call ELSE Send(i, "elect", "set")
    /\ UNCHANGED <<key, phase, isLeader, told, renewIn, budget, vacant>>

----------------------------------------------------------------------------
(* Redis executes the commands. *)

\* The call moves on, having seen a value of the key.
Answer(c, pc, seen) ==
    call' = [call EXCEPT ![c] = [pc |-> pc, kind |-> @.kind, owner |-> @.owner, seen |-> seen]]

Goto(c, pc) == Answer(c, pc, call[c].seen)

\* Mutant: the expiry time is given in another unit.
SetTooLong(c) ==
    /\ call[c].pc = "set"
    /\ IF holder = None
       THEN /\ holder' = call[c].owner /\ ttl' = 3 * LEASE
            /\ Answer(c, "answered", call[c].owner)
       ELSE Goto(c, "answered") /\ UNCHANGED key
    /\ UNCHANGED <<phase, isLeader, told, timers, budget, vacant>>

\* Mutant: SET without NX.
SetAlways(c) ==
    /\ call[c].pc = "set"
    /\ holder' = call[c].owner /\ ttl' = LEASE
    /\ Answer(c, "answered", call[c].owner)
    /\ UNCHANGED <<phase, isLeader, told, timers, budget, vacant>>

\* SET LEADER_KEY id NX EX: the reply is OK iff `seen' is the instance itself.
Set(c) ==
    /\ call[c].pc = "set"
    /\ IF holder = None
       THEN /\ holder' = call[c].owner /\ ttl' = LEASE
            /\ Answer(c, "answered", call[c].owner)
       ELSE Goto(c, "answered") /\ UNCHANGED key
    /\ UNCHANGED <<phase, isLeader, told, timers, budget, vacant>>

Get(c) ==
    /\ call[c].pc = "get"
    /\ Answer(c, "got", holder)
    /\ UNCHANGED <<key, phase, isLeader, told, timers, budget, vacant>>

\* Mutant: the expiry time of the key is not renewed.
ExpireForgotten(c) ==
    /\ call[c].pc = "expire"
    /\ Goto(c, "expired")
    /\ UNCHANGED <<key, phase, isLeader, told, timers, budget, vacant>>

\* EXPIRE renews whatever lease there is.
Expire(c) ==
    /\ call[c].pc = "expire"
    /\ ttl' = IF holder = None THEN 0 ELSE LEASE
    /\ Goto(c, "expired")
    /\ UNCHANGED <<holder, phase, isLeader, told, timers, budget, vacant>>

Del(c) ==
    /\ call[c].pc = "del"
    /\ holder' = None /\ ttl' = 0
    /\ Goto(c, "deleted")
    /\ UNCHANGED <<phase, isLeader, told, timers, budget, vacant>>

----------------------------------------------------------------------------
(* The instances handle the replies. *)

End(c) == call' = [call EXCEPT ![c] = NoCall]

\* tryAcquireLock, and onBecomeLeader.
Acquired(c) ==
    LET i == call[c].owner
        won == call[c].seen = i
    IN  /\ call[c].pc = "answered"
        /\ isLeader' = [isLeader EXCEPT ![i] = won \/ @]
        /\ told' = [told EXCEPT ![i] = won \/ @]
        /\ End(c)
        /\ UNCHANGED <<key, phase, timers, budget, vacant>>

\* renewLock after its get.  It clears _isLeader itself, so that the test that
\* follows it in the timer does not call onLoseLeadership.
CheckRenewal(c) ==
    LET i == call[c].owner
    IN  /\ call[c].pc = "got" /\ call[c].kind = "renew"
        /\ IF call[c].seen = i
           THEN Goto(c, "expire") /\ UNCHANGED isLeader
           ELSE End(c) /\ isLeader' = [isLeader EXCEPT ![i] = FALSE]
        /\ UNCHANGED <<key, phase, told, timers, budget, vacant>>

Renewed(c) ==
    /\ call[c].pc = "expired"
    /\ End(c)
    /\ UNCHANGED <<key, phase, isLeader, told, timers, budget, vacant>>

\* Mutant: the error handler of the timer calls no callback.
RedisErrorSilent(c) ==
    LET i == call[c].owner
        lost == call[c].kind = "renew" /\ isLeader[i]
    IN  /\ InFlight(c) /\ call[c].kind \in {"renew", "elect"} /\ errors < MaxErrors
        /\ isLeader' = [isLeader EXCEPT ![i] = @ /\ ~lost]
        /\ errors' = errors + 1
        /\ vacant' = 0
        /\ End(c)
        /\ UNCHANGED <<key, phase, told, timers, departures, stalls>>

\* A call of a timer rejects, before or after Redis executed its command; a
\* failed renewal gives up leadership, a failed election changes nothing.
RedisError(c) ==
    LET i == call[c].owner
        lost == call[c].kind = "renew" /\ isLeader[i]
    IN  /\ InFlight(c) /\ call[c].kind \in {"renew", "elect"} /\ errors < MaxErrors
        /\ isLeader' = [isLeader EXCEPT ![i] = @ /\ ~lost]
        /\ told' = [told EXCEPT ![i] = @ /\ ~lost]
        /\ errors' = errors + 1
        /\ vacant' = 0
        /\ End(c)
        /\ UNCHANGED <<key, phase, timers, departures, stalls>>

----------------------------------------------------------------------------
(* stop and releaseLock; crashes. *)

\* The client is gone: no reply will come.
Drop(i) == call' = [c \in Calls |-> IF call[c].owner = i THEN NoCall ELSE call[c]]

\* Disconnecting rejects the calls in flight; if releaseLock left _isLeader set,
\* a rejected renewal clears it.
Disconnect(i, leads) ==
    LET renewing == \E c \in Calls : call[c].owner = i /\ call[c].kind = "renew"
    IN  /\ phase' = [phase EXCEPT ![i] = "gone"]
        /\ isLeader' = [isLeader EXCEPT ![i] = leads /\ ~renewing]
        /\ told' = [told EXCEPT ![i] = @ /\ ~(leads /\ renewing)]
        /\ Drop(i)

Depart ==
    /\ departures < MaxDepartures
    /\ departures' = departures + 1
    /\ vacant' = 0

Stop(i) ==
    /\ phase[i] = "up"
    /\ Depart
    /\ IF isLeader[i]
       THEN /\ Send(i, "stop", "get")
            /\ phase' = [phase EXCEPT ![i] = "stopping"]
            /\ UNCHANGED <<isLeader, told>>
       ELSE Disconnect(i, FALSE)
    /\ UNCHANGED <<key, timers, errors, stalls>>

\* releaseLock after its get.
CheckRelease(c) ==
    LET i == call[c].owner
    IN  /\ call[c].pc = "got" /\ call[c].kind = "stop"
        /\ IF call[c].seen = i
           THEN Goto(c, "del") /\ UNCHANGED <<phase, isLeader, told>>
           ELSE Disconnect(i, FALSE)
        /\ UNCHANGED <<key, timers, budget, vacant>>

Released(c) ==
    /\ call[c].pc = "deleted"
    /\ Disconnect(call[c].owner, FALSE)
    /\ UNCHANGED <<key, timers, budget, vacant>>

\* releaseLock rejects: stop disconnects all the same, _isLeader is not cleared.
ReleaseError(c) ==
    LET i == call[c].owner
    IN  /\ InFlight(c) /\ call[c].kind = "stop" /\ errors < MaxErrors
        /\ errors' = errors + 1
        /\ vacant' = 0
        /\ Disconnect(i, isLeader[i])
        /\ UNCHANGED <<key, timers, departures, stalls>>

\* The process dies; its lease stays until it expires.
Crash(i) ==
    /\ Running(i)
    /\ Depart
    /\ phase' = [phase EXCEPT ![i] = "gone"]
    /\ isLeader' = [isLeader EXCEPT ![i] = FALSE]
    /\ told' = [told EXCEPT ![i] = FALSE]
    /\ Drop(i)
    /\ UNCHANGED <<key, timers, errors, stalls>>

----------------------------------------------------------------------------
Less(n) == IF n > 0 THEN n - 1 ELSE 0

\* Nothing is late: no call is in flight and no timer is due.
Prompt ==
    /\ \A c \in Calls : ~InFlight(c)
    /\ \A i \in Instances : phase[i] = "up" => renewIn[i] > 0 /\ pollIn[i] > 0

\* The longest time without a leader that is told apart.
MaxVacant == LEASE + POLL + 1

Tick ==
    /\ \E i \in Instances : Running(i)
    /\ IF Prompt THEN UNCHANGED stalls ELSE stalls < MaxStalls /\ stalls' = stalls + 1
    /\ ttl' = Less(ttl)
    /\ holder' = IF ttl > 1 THEN holder ELSE None
    /\ renewIn' = [i \in Instances |-> Less(renewIn[i])]
    /\ pollIn' = [i \in Instances |-> Less(pollIn[i])]
    /\ vacant' = IF \E i \in Instances : Leading(i) THEN 0
                 ELSE IF (\E i \in Instances : phase[i] = "up") /\ vacant < MaxVacant
                 THEN vacant + 1 ELSE vacant
    /\ UNCHANGED <<phase, isLeader, told, call, errors, departures>>

Timer(i) == RenewTimer(i) \/ ElectionTimer(i)

Server(c) == Set(c) \/ Get(c) \/ Expire(c) \/ Del(c)

Reply(c) == Acquired(c) \/ CheckRenewal(c) \/ Renewed(c) \/ CheckRelease(c) \/ Released(c)

Next ==
    \/ \E i \in Instances : Start(i) \/ Timer(i) \/ Stop(i) \/ Crash(i)
    \/ \E c \in Calls : Server(c) \/ Reply(c) \/ RedisError(c) \/ ReleaseError(c)
    \/ Tick

(***************************************************************************)
(* Fairness: instances are started, timers fire, Redis answers and time    *)
(* passes.  Nothing forces a crash, a stop or an error.                    *)
(***************************************************************************)
Fairness ==
    /\ WF_vars(Tick)
    /\ \A i \in Instances : WF_vars(Start(i)) /\ WF_vars(RenewTimer(i)) /\ WF_vars(ElectionTimer(i))
    /\ \A c \in Calls : WF_vars(Server(c)) /\ WF_vars(Reply(c))

Spec == Init /\ [][Next]_vars /\ Fairness

----------------------------------------------------------------------------
CallType ==
    [pc : {"free", "get", "got", "set", "answered", "expire", "expired", "del", "deleted"},
     kind : {"none", "renew", "elect", "stop"},
     owner : Instances \cup {None}, seen : Instances \cup {None}]

\* The values every variable takes.
TypeOK ==
    /\ holder \in Instances \cup {None} /\ ttl \in 0..LEASE
    /\ phase \in [Instances -> {"down", "up", "stopping", "gone"}]
    /\ isLeader \in [Instances -> BOOLEAN] /\ told \in [Instances -> BOOLEAN]
    /\ renewIn \in [Instances -> 0..RENEW] /\ pollIn \in [Instances -> 0..POLL]
    /\ call \in [Calls -> CallType]
    /\ errors \in 0..MaxErrors /\ departures \in 0..MaxDepartures /\ stalls \in 0..MaxStalls
    /\ vacant \in 0..MaxVacant

\* leaderElection.js:7: "Only the leader processes ledgers": no two running
\* instances have _isLeader set.
AtMostOneLeader == \A i, j \in Instances : Leading(i) /\ Leading(j) => i = j

\* As long as nothing was late there was never more than one leader.
OneLeaderUnlessStalled == stalls = 0 => AtMostOneLeader

\* A lease ends by expiring or by its holder's own stop: as long as nothing was
\* late, no other instance takes over or deletes the key of a running instance
\* (releaseLock compares the value it got before it deletes).
LeaseEndsByOwner ==
    [][(stalls' = 0 /\ holder # None /\ holder' # holder) => (ttl <= 1 \/ phase[holder] # "up")]_vars

\* When a leader dies or gives up and nothing is late, a running instance leads
\* again after at most the rest of the lease and one election poll.
FailoverBounded == stalls = 0 => vacant <= LEASE + POLL

\* As long as an instance runs there is a leader again and again, whatever
\* crashes, stops, errors and stalls there were.
LeaderAgain == []<>((\E i \in Instances : Leading(i)) \/ (\A i \in Instances : phase[i] = "gone"))

Leaders == {i \in Instances : Leading(i)}

\* The lease as the program that runs only on the leader sees it.
Lease == INSTANCE AbstractLease WITH leaders <- Leaders, late <- stalls > 0

\* Until a call or a timer is late only the holder of the lease leads, and a lease
\* is freed (it expires, or releaseLock deletes it) only when nobody leads by it,
\* so that there is never a second leader (leaderElection.js:7).
ImplementsLease == Lease!Spec

\* leaderElection.js:112: start takes onBecomeLeader and onLoseLeadership.  renewLock
\* clears _isLeader before the timer tests it, so the loss of a stolen lease is not
\* reported; but that takes a stall: as long as nothing was late, a running
\* instance leads exactly if the last callback it got was onBecomeLeader.
LossReportedUnlessStalled ==
    stalls = 0 => \A i \in Instances : phase[i] = "up" => (told[i] <=> isLeader[i])

=============================================================================
