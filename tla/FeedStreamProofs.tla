-------------------------- MODULE FeedStreamProofs --------------------------
(***************************************************************************)
(* For any number of messages, restarts, lost connections and failing      *)
(* calls and any size of a replay: the numbers of messages, and what a     *)
(* client that resumes has received.                                       *)
(***************************************************************************)
EXTENDS FeedStream, WellFoundedInduction, TLAPS

\* A message that has its number for good, or may still get it.
Live(m) == m \in rows \/ stage[m] = "creating"

\* How calls and rows go together.
Calls ==
    /\ counter <= published /\ lastRead <= published
    /\ \A m \in Messages : m > published => stage[m] = "new" /\ m \notin rows
    /\ \A m \in Messages : m <= published => 1 <= seq[m] /\ seq[m] <= published
    /\ \A m \in Messages : label[m] <= published
    /\ \A m \in Messages : stage[m] \in {"stored", "fanout", "sent"} => m \in rows
    /\ last <= published /\ first <= published

\* The counter is at least the number of every message that was published by a process
\* that was up, and their numbers are in the order of the calls.
Numbers ==
    /\ proc = "read" => \A m \in rows \ early : seq[m] <= lastRead
    /\ proc = "up" => \A m \in Messages \ early : Live(m) => seq[m] <= counter
    /\ \A m, n \in Messages \ early : Live(m) /\ Live(n) /\ m < n => seq[m] < seq[n]

\* Nobody else has taken a number, or the message is marked.
Labels ==
    /\ \A m \in Messages \ early :
          stage[m] \in {"creating", "stored"} => proc = "up" /\ (seq[m] = counter \/ m \in overlapped)
    /\ LabelsRunAhead

\* What ResumesComplete demands of the past.
Smooth == overlapped = {} /\ early = {} /\ faults = 0 /\ ~cut

\* Every message from the first on has been received or is still coming: live, by the
\* replay under way or by the one of the next connection.
Coming(m) ==
    \/ m \in got \/ Unsent(m)
    \/ ~connected /\ last < seq[m]
    \/ replay = "asked" /\ from < seq[m]
    \/ replay = "read" /\ m \in batch

Resuming ==
    Smooth =>
        /\ \A m \in Messages : Unsent(m) => m = published
        /\ last = 0 \/ \E g \in got : last = seq[g]
        /\ first > 0 => last > 0
        /\ \A m \in batch : replay = "read" => from < seq[m]
        /\ \A m \in rows : first > 0 /\ first <= seq[m] => Coming(m)

StreamInv == TypeOK /\ Calls /\ Numbers /\ Labels /\ Resuming

----------------------------------------------------------------------------
LEMMA Bounds == MaxMessages \in Nat \ {0} /\ MaxFaults \in Nat /\ MaxStops \in Nat /\ MaxDrops \in Nat
  BY StreamAssumption

\* A set of natural numbers up to n that is not empty has its maximum.
LEMMA MaxIsGreatest ==
    ASSUME NEW n \in Nat, NEW T \in SUBSET (0..n), T # {}
    PROVE  Max(T) \in T /\ \A y \in T : y <= Max(T)
<1> DEFINE U == {k \in Nat : \E t \in T : k = n - t}
<1>1. PICK t \in T : TRUE
  OBVIOUS
<1>2. U \in SUBSET Nat /\ n - t \in U
  OBVIOUS
<1>3. PICK k \in U : \A j \in U : ~(<<j, k>> \in OpToRel(<, Nat))
  BY <1>2, NatLessThanWellFounded, WFMin
<1>4. PICK x \in T : k = n - x
  OBVIOUS
<1>5. ASSUME NEW y \in T
      PROVE  x >= y
  <2>1. n - y \in U
    OBVIOUS
  <2>2. <<n - y, k>> \in Nat \X Nat /\ ~(<<n - y, k>> \in OpToRel(<, Nat))
    BY <1>3, <2>1
  <2>3. ~(n - y < k)
    BY <2>2 DEF OpToRel
  <2>4. QED
    BY <1>4, <2>3
<1>6. Max(T) \in T /\ \A y \in T : Max(T) >= y
  BY <1>5 DEF Max
<1>7. QED
  BY <1>6

\* The numbers of a set of messages.
LEMMA NumbersOf ==
    ASSUME NEW n \in Nat, NEW f, NEW T, T # {}, \A m \in T : f[m] \in 0..n
    PROVE  /\ \E g \in T : Max({f[m] : m \in T}) = f[g]
           /\ \A m \in T : f[m] <= Max({f[k] : k \in T})
<1> DEFINE V == {f[m] : m \in T}
<1>1. V \in SUBSET (0..n) /\ V # {}
  OBVIOUS
<1>2. Max(V) \in V /\ \A y \in V : y <= Max(V)
  BY <1>1, MaxIsGreatest
<1>3. QED
  BY <1>2

LEMMA StreamInit == Init => StreamInv
<1> SUFFICES ASSUME Init
             PROVE  StreamInv
  OBVIOUS
<1>1. \A m \in Messages : stage[m] = "new" /\ seq[m] = 0 /\ label[m] = 0 /\ m \in Nat /\ m > 0
  BY DEF Init, Messages
<1>2. TypeOK
  <2>1. connected = FALSE /\ cut = FALSE /\ replay = "none"
    BY DEF Init
  <2>2. stage \in [Messages -> {"new"}] /\ seq \in [Messages -> 0..MaxMessages] /\ label \in [Messages -> 0..MaxMessages]
    BY Bounds DEF Init
  <2>3. /\ proc = "down" /\ counter \in 0..MaxMessages /\ lastRead \in 0..MaxMessages /\ published \in 0..MaxMessages
        /\ from \in 0..MaxMessages /\ last \in 0..MaxMessages /\ first \in 0..MaxMessages
        /\ faults \in 0..MaxFaults /\ stops \in 0..MaxStops /\ drops \in 0..MaxDrops
    BY Bounds DEF Init
  <2>4. stage \in [Messages -> {"new", "creating", "stored", "fanout", "sent", "failed", "lost"}]
    BY <2>2
  <2>5. QED
    BY <2>1, <2>2, <2>3, <2>4, Zenon DEF Init, TypeOK
<1>3. Calls /\ Numbers /\ Labels
  BY <1>1 DEF Init, Calls, Numbers, Labels, LabelsRunAhead, Live
<1>4. Resuming
  BY <1>1 DEF Init, Resuming, Unsent
<1>5. QED
  BY <1>2, <1>3, <1>4 DEF StreamInv

\* The steps, and the variables that a group of them leaves alone.
LEMMA Steps ==
    ASSUME [Next]_vars
    PROVE  \/ Start \/ ReadLast \/ Initialize \/ InitializeFails \/ Stop \/ Publish
           \/ \E m \in Messages : Commit(m) \/ Emit(m) \/ Broadcast(m) \/ CreateFails(m) \/ DistributeFails(m)
           \/ Connect \/ Disconnect \/ ReplayRead \/ ReplaySend \/ ReplayFails
           \/ UNCHANGED vars
  BY DEF Next, Server, Deliver

----------------------------------------------------------------------------
(* Types and calls. *)

\* Facts about numbers that the steps below use.
LEMMA Typed ==
    ASSUME TypeOK, Calls
    PROVE  /\ published \in Nat /\ published <= MaxMessages /\ counter \in Nat /\ lastRead \in Nat
           /\ \A m \in Messages : m \in Nat /\ m > 0 /\ seq[m] \in Nat /\ label[m] \in Nat
           /\ rows \subseteq Messages /\ \A m \in rows : m <= published /\ seq[m] \in 0..published
           /\ last \in Nat /\ from \in Nat /\ first \in Nat
<1>1. published \in Nat /\ published <= MaxMessages /\ counter \in Nat /\ lastRead \in Nat
      /\ last \in Nat /\ from \in Nat /\ first \in Nat
  BY Bounds DEF TypeOK
<1>2. \A m \in Messages : m \in Nat /\ m > 0 /\ seq[m] \in Nat /\ label[m] \in Nat
  BY Bounds DEF TypeOK, Messages
<1>3. rows \subseteq Messages
  BY DEF TypeOK
<1>4. \A m \in rows : m <= published
  BY <1>1, <1>2, <1>3 DEF Calls
<1>5. \A m \in rows : seq[m] \in 0..published
  BY <1>1, <1>2, <1>3, <1>4 DEF Calls
<1>6. QED
  BY <1>1, <1>2, <1>3, <1>4, <1>5

\* The parts of TypeOK that are not numbers.
LEMMA SwitchesKept ==
    ASSUME TypeOK, [Next]_vars
    PROVE  /\ connected' \in BOOLEAN /\ (connected' => proc' = "up")
           /\ replay' \in {"none", "asked", "read"} /\ (replay' # "none" => connected')
           /\ cut' \in BOOLEAN /\ proc' \in {"down", "boot", "read", "up", "headless"}
<1> USE DEF TypeOK, client, observed, publisher, budget
<1>1. CASE Start \/ ReadLast \/ Initialize \/ InitializeFails
  <2>1. proc # "up" /\ UNCHANGED <<connected, replay, cut>>
    BY <1>1 DEF Start, ReadLast, Initialize, InitializeFails
  <2>2. proc' \in {"down", "boot", "read", "up", "headless"}
    BY <1>1 DEF Start, ReadLast, Initialize, InitializeFails
  <2>3. QED
    BY <2>1, <2>2, Zenon
<1>2. CASE Stop
  BY <1>2, Zenon DEF Stop, HangUp
<1>3. CASE Publish
  BY <1>3, Zenon DEF Publish
<1>4. ASSUME NEW m \in Messages, Commit(m) \/ Emit(m) \/ Broadcast(m) \/ CreateFails(m) \/ DistributeFails(m)
      PROVE  UNCHANGED <<connected, proc, replay, cut>>
  BY <1>4, Zenon DEF Commit, Emit, Broadcast, CreateFails, DistributeFails
<1>5. CASE Connect
  BY <1>5, Zenon DEF Connect
<1>6. CASE Disconnect
  BY <1>6, Zenon DEF Disconnect, HangUp
<1>7. CASE ReplayRead \/ ReplaySend \/ ReplayFails
  BY <1>7, Zenon DEF ReplayRead, ReplaySend, ReplayFails
<1>8. CASE UNCHANGED vars
  BY <1>8, Zenon DEF vars
<1>9. QED
  BY <1>1, <1>2, <1>3, <1>4, <1>5, <1>6, <1>7, <1>8, Steps, Zenon

\* The rest of TypeOK.
Data ==
    /\ counter \in 0..MaxMessages /\ lastRead \in 0..MaxMessages /\ published \in 0..MaxMessages
    /\ stage \in [Messages -> {"new", "creating", "stored", "fanout", "sent", "failed", "lost"}]
    /\ seq \in [Messages -> 0..MaxMessages] /\ label \in [Messages -> 0..MaxMessages]
    /\ rows \subseteq Messages /\ batch \subseteq rows /\ got \subseteq rows
    /\ from \in 0..MaxMessages /\ last \in 0..MaxMessages /\ first \in 0..MaxMessages
    /\ early \subseteq Messages /\ overlapped \subseteq Messages
    /\ faults \in 0..MaxFaults /\ stops \in 0..MaxStops /\ drops \in 0..MaxDrops

LEMMA DataTyped == TypeOK => Data
  BY DEF TypeOK, Data

\* Steps of the process.
LEMMA ProcessData ==
    ASSUME Data, Calls, TypeOK, Start \/ ReadLast \/ Initialize \/ InitializeFails \/ UNCHANGED vars
    PROVE  Data' /\ Calls'
<1>1. /\ UNCHANGED <<published, stage, seq, label, rows, connected, replay, batch, from, last, first, got>>
      /\ UNCHANGED <<early, overlapped, stops, drops>>
  BY DEF Start, ReadLast, Initialize, InitializeFails, vars, publisher, client, observed, budget
<1>2. faults' \in 0..MaxFaults
  BY Bounds DEF Start, ReadLast, Initialize, InitializeFails, Fault, vars, budget, Data
<1>3. lastRead' \in 0..published /\ counter' \in 0..published
  <2>1. published \in Nat /\ counter \in 0..published /\ lastRead \in 0..published /\ \A m \in rows : seq[m] \in 0..published
    BY Typed DEF Calls
  <2>2. CASE Start \/ Initialize \/ InitializeFails \/ UNCHANGED vars
    BY <2>1, <2>2 DEF Start, Initialize, InitializeFails, vars
  <2>3. CASE ReadLast
    <3>1. rows # {} => Max({seq[m] : m \in rows}) \in 0..published
      <4>1. ASSUME rows # {}
            PROVE  \E g \in rows : Max({seq[m] : m \in rows}) = seq[g]
        BY <2>1, <4>1, NumbersOf
      <4>2. QED
        BY <2>1, <4>1
    <3>2. counter' = counter /\ lastRead' = IF rows = {} THEN 0 ELSE Max({seq[m] : m \in rows})
      BY <2>3 DEF ReadLast
    <3>3. QED
      BY <2>1, <3>1, <3>2
  <2>4. QED
    BY <2>2, <2>3
<1>4. Data'
  <2>1. lastRead' \in 0..MaxMessages /\ counter' \in 0..MaxMessages
    BY <1>3, Bounds DEF Data
  <2>2. QED
    BY <1>1, <1>2, <2>1 DEF Data
<1>5. Calls'
  <2>1. counter' <= published' /\ lastRead' <= published'
    BY <1>1, <1>3, Typed
  <2>2. QED
    BY <1>1, <2>1 DEF Calls
<1>6. QED
  BY <1>4, <1>5

\* A process or a connection ends.
LEMMA HangUpData ==
    ASSUME Data, Calls, TypeOK, Stop \/ Disconnect \/ Connect \/ ReplayFails
    PROVE  Data' /\ Calls'
<1>1. /\ UNCHANGED <<counter, published, seq, label, rows, last, first, got, early, overlapped>>
      /\ batch' \in {batch, {}} /\ lastRead' \in {lastRead, 0} /\ from' \in {0, last}
  BY DEF Stop, Disconnect, Connect, ReplayFails, HangUp, publisher, client, observed
<1>2. faults' \in 0..MaxFaults /\ stops' \in 0..MaxStops /\ drops' \in 0..MaxDrops
  BY Bounds DEF Stop, Disconnect, Connect, ReplayFails, Fault, budget, Data
<1>3. /\ stage' \in [Messages -> {"new", "creating", "stored", "fanout", "sent", "failed", "lost"}]
      /\ \A m \in Messages : stage'[m] = stage[m] \/ (Unsent(m) /\ stage'[m] = "lost")
  <2>1. CASE Stop
    BY <2>1 DEF Stop, Data
  <2>2. CASE Disconnect \/ Connect \/ ReplayFails
    BY <2>2 DEF Disconnect, Connect, ReplayFails, publisher, Data
  <2>3. QED
    BY <2>1, <2>2
<1>4. Data'
  BY <1>1, <1>2, <1>3, Bounds DEF Data
<1>5. Calls'
  <2>1. lastRead' <= published /\ published \in Nat
    BY <1>1, Typed DEF Calls
  <2>2. \A m \in Messages : m > published => stage'[m] = "new" /\ m \notin rows
    BY <1>3 DEF Calls, Unsent
  <2>3. \A m \in Messages : stage'[m] \in {"stored", "fanout", "sent"} => m \in rows
    BY <1>3 DEF Calls
  <2>4. QED
    BY <1>1, <2>1, <2>2, <2>3 DEF Calls
<1>6. QED
  BY <1>4, <1>5

\* A call of publish.
LEMMA PublishData ==
    ASSUME Data, Calls, TypeOK, Publish
    PROVE  /\ Data' /\ Calls' /\ published + 1 \in Messages
           /\ published' = published + 1 /\ counter' = counter + 1
           /\ seq'[published + 1] = counter + 1 /\ stage'[published + 1] = "creating"
           /\ \A n \in Messages : n # published + 1 => seq'[n] = seq[n] /\ stage'[n] = stage[n]
           /\ UNCHANGED <<proc, lastRead, label, rows, connected, replay, batch, from, last, first, got, cut, faults>>
<1> DEFINE m == published + 1
<1>1. /\ UNCHANGED <<proc, lastRead, label, rows, connected, replay, batch, from, last, first, got, cut, faults, stops, drops>>
      /\ published' = m /\ counter' = counter + 1 /\ published < MaxMessages
      /\ seq' = [seq EXCEPT ![m] = counter + 1] /\ stage' = [stage EXCEPT ![m] = "creating"]
      /\ early' \in {early, early \cup {m}} /\ overlapped' = overlapped \cup {n \in Messages : Unsent(n)}
  BY DEF Publish, client, budget
<1>2. published \in Nat /\ m \in Messages /\ counter \in Nat /\ counter <= published /\ m \in Nat
  BY <1>1, Bounds, Typed DEF Messages, Calls
<1>3. /\ seq'[m] = counter + 1 /\ stage'[m] = "creating"
      /\ \A n \in Messages : n # m => seq'[n] = seq[n] /\ stage'[n] = stage[n]
  BY <1>1, <1>2 DEF Data
<1>4. Data'
  <2>1. counter + 1 \in 0..MaxMessages /\ m \in 0..MaxMessages
    BY <1>1, <1>2, Bounds
  <2>2. seq' \in [Messages -> 0..MaxMessages]
        /\ stage' \in [Messages -> {"new", "creating", "stored", "fanout", "sent", "failed", "lost"}]
    BY <1>1, <2>1 DEF Data
  <2>3. early' \subseteq Messages /\ overlapped' \subseteq Messages
    BY <1>1, <1>2 DEF Data
  <2>4. QED
    BY <1>1, <2>1, <2>2, <2>3 DEF Data
<1>5. Calls'
  <2>1. \A n \in Messages : n \in Nat /\ seq[n] \in Nat /\ label[n] \in Nat
    BY Typed
  <2>2. lastRead \in Nat /\ last \in Nat /\ first \in Nat
    BY Typed
  <2>3. /\ counter' <= published' /\ lastRead' <= published' /\ last' <= published' /\ first' <= published'
        /\ \A n \in Messages : label'[n] <= published'
    BY <1>1, <1>2, <2>1, <2>2 DEF Calls
  <2>4. \A n \in Messages : n > published' => stage'[n] = "new" /\ n \notin rows'
    BY <1>1, <1>2, <1>3, <2>1 DEF Calls
  <2>5. \A n \in Messages : n <= published' => 1 <= seq'[n] /\ seq'[n] <= published'
    <3>1. ASSUME NEW n \in Messages, n <= published + 1
          PROVE  1 <= seq'[n] /\ seq'[n] <= published + 1
      <4>1. CASE n = m
        BY <1>2, <1>3, <4>1
      <4>2. CASE n # m
        <5>1. n <= published /\ seq'[n] = seq[n]
          BY <1>2, <1>3, <2>1, <3>1, <4>2
        <5>2. QED
          BY <1>2, <2>1, <5>1 DEF Calls
      <4>3. QED
        BY <4>1, <4>2
    <3>2. QED
      BY <1>1, <3>1
  <2>6. \A n \in Messages : stage'[n] \in {"stored", "fanout", "sent"} => n \in rows'
    BY <1>1, <1>3 DEF Calls
  <2>7. QED
    BY <2>3, <2>4, <2>5, <2>6 DEF Calls
<1>6. QED
  BY <1>1, <1>2, <1>3, <1>4, <1>5

\* A step of a call.
LEMMA CallData ==
    ASSUME Data, Calls, TypeOK, NEW m \in Messages,
           Commit(m) \/ Emit(m) \/ Broadcast(m) \/ CreateFails(m) \/ DistributeFails(m)
    PROVE  Data' /\ Calls'
<1>1. UNCHANGED <<proc, counter, lastRead, published, seq, connected, replay, batch, from, early, overlapped, cut, stops, drops>>
  BY DEF Commit, Emit, Broadcast, CreateFails, DistributeFails, client, observed, budget
<1>2. faults' \in 0..MaxFaults
  BY Bounds DEF Commit, Emit, Broadcast, CreateFails, DistributeFails, Fault, budget, Data
<1>3. /\ stage' \in [Messages -> {"new", "creating", "stored", "fanout", "sent", "failed", "lost"}]
      /\ \A n \in Messages : n # m => stage'[n] = stage[n]
      /\ stage[m] # "new" /\ stage'[m] \in {"stored", "fanout", "sent", "failed"}
  <2>1. stage[m] # "new" /\ \E v \in {"stored", "fanout", "sent", "failed"} : stage' = [stage EXCEPT ![m] = v]
    BY DEF Commit, Emit, Broadcast, CreateFails, DistributeFails
  <2>2. QED
    BY <2>1 DEF Data
<1>4. /\ rows \subseteq rows' /\ rows' \subseteq rows \cup {m}
      /\ stage'[m] \in {"stored", "fanout", "sent"} => m \in rows'
  <2>1. CASE Commit(m) \/ CreateFails(m)
    BY <2>1 DEF Commit, CreateFails, Data
  <2>2. CASE Emit(m) \/ Broadcast(m) \/ DistributeFails(m)
    BY <2>2 DEF Emit, Broadcast, DistributeFails, Calls
  <2>3. QED
    BY <2>1, <2>2
<1>5. m <= published
  BY <1>3, Typed DEF Calls
<1>6. /\ label' \in [Messages -> 0..MaxMessages] /\ \A n \in Messages : label'[n] <= published
      /\ last' \in 0..MaxMessages /\ last' <= published /\ first' \in 0..MaxMessages /\ first' <= published
      /\ got \subseteq got' /\ got' \subseteq got \cup {m} /\ (got' # got => m \in rows)
  <2>1. CASE Emit(m)
    <3>1. label' = [label EXCEPT ![m] = counter] /\ UNCHANGED <<last, first, got>>
      BY <2>1 DEF Emit, client
    <3>2. QED
      BY <3>1, Typed DEF Data, Calls
  <2>2. CASE Broadcast(m)
    <3>1. /\ UNCHANGED label
          /\ \/ UNCHANGED <<last, first, got>>
             \/ got' = got \cup {m} /\ last' = label[m] /\ first' \in {first, label[m]}
      BY <2>2 DEF Broadcast, Send
    <3>2. m \in rows
      BY <2>2 DEF Broadcast, Calls
    <3>3. QED
      BY <3>1, <3>2 DEF Data, Calls
  <2>3. CASE Commit(m) \/ CreateFails(m) \/ DistributeFails(m)
    BY <2>3 DEF Commit, CreateFails, DistributeFails, client, Data, Calls
  <2>4. QED
    BY <2>1, <2>2, <2>3
<1>7. Data'
  BY <1>1, <1>2, <1>3, <1>4, <1>6 DEF Data
<1>8. Calls'
  <2>1. \A n \in Messages : n > published => stage'[n] = "new" /\ n \notin rows'
    BY <1>3, <1>4, <1>5, Typed DEF Calls
  <2>2. \A n \in Messages : stage'[n] \in {"stored", "fanout", "sent"} => n \in rows'
    BY <1>3, <1>4 DEF Calls
  <2>3. QED
    BY <1>1, <1>6, <2>1, <2>2 DEF Calls
<1>9. QED
  BY <1>7, <1>8

\* The replay.
LEMMA ReplayData ==
    ASSUME Data, Calls, TypeOK, ReplayRead \/ ReplaySend
    PROVE  Data' /\ Calls'
<1>1. UNCHANGED <<counter, lastRead, published, stage, seq, label, rows, first, early, overlapped, faults, stops, drops>>
  BY DEF ReplayRead, ReplaySend, publisher, observed, budget
<1>2. batch' \subseteq rows /\ got' \subseteq rows /\ from' \in {from, 0}
  <2>1. CASE ReplayRead
    BY <2>1 DEF ReplayRead, Missed, Data
  <2>2. CASE ReplaySend
    BY <2>2 DEF ReplaySend, Data
  <2>3. QED
    BY <2>1, <2>2
<1>3. last' \in 0..published
  <2>1. published \in Nat /\ last \in 0..published /\ batch \subseteq rows /\ \A n \in rows : seq[n] \in 0..published
    BY Typed DEF Calls, Data
  <2>2. ASSUME batch # {}
        PROVE  Max({seq[n] : n \in batch}) \in 0..published
    <3>1. \E g \in batch : Max({seq[n] : n \in batch}) = seq[g]
      BY <2>1, <2>2, NumbersOf
    <3>2. QED
      BY <2>1, <3>1
  <2>3. last' = last \/ (batch # {} /\ last' = Max({seq[n] : n \in batch}))
    BY DEF ReplayRead, ReplaySend
  <2>4. QED
    BY <2>1, <2>2, <2>3
<1>4. last' \in 0..MaxMessages /\ last' <= published
  BY <1>3, Bounds DEF Data
<1>5. QED
  BY <1>1, <1>2, <1>4, Bounds DEF Data, Calls

LEMMA TypeNext ==
    ASSUME TypeOK, Calls, [Next]_vars
    PROVE  TypeOK' /\ Calls'
<1>0. Data
  BY DataTyped
<1>1. Data' /\ Calls'
  BY <1>0, ProcessData, HangUpData, PublishData, CallData, ReplayData, Steps, Zenon
<1>2. /\ connected' \in BOOLEAN /\ (connected' => proc' = "up")
      /\ replay' \in {"none", "asked", "read"} /\ (replay' # "none" => connected')
      /\ cut' \in BOOLEAN /\ proc' \in {"down", "boot", "read", "up", "headless"}
  BY SwitchesKept
<1>3. QED
  BY <1>1, <1>2, Zenon DEF Data, TypeOK

----------------------------------------------------------------------------
(* Numbers and labels. *)

\* Live messages keep their number; only Publish makes one.
LEMMA LiveKept ==
    ASSUME TypeOK, [Next]_vars, ~Publish
    PROVE  /\ UNCHANGED <<seq, published, early, overlapped>>
           /\ \A m \in Messages : Live(m)' => Live(m)
<1>1. CASE Start \/ ReadLast \/ Initialize \/ InitializeFails \/ Connect \/ Disconnect \/ ReplayRead \/ ReplaySend \/ ReplayFails
  <2>1. UNCHANGED <<seq, published, early, overlapped, rows, stage>>
    BY <1>1 DEF Start, ReadLast, Initialize, InitializeFails, Connect, Disconnect, HangUp, ReplayRead, ReplaySend, ReplayFails,
       publisher, observed
  <2>2. QED
    BY <2>1 DEF Live
<1>2. CASE Stop
  <2>1. UNCHANGED <<seq, published, early, overlapped, rows>> /\ \A m \in Messages : stage'[m] = "creating" => stage[m] = "creating"
    BY <1>2 DEF Stop
  <2>2. QED
    BY <2>1 DEF Live
<1>3. ASSUME NEW m \in Messages, Commit(m) \/ CreateFails(m)
      PROVE  UNCHANGED <<seq, published, early, overlapped>> /\ \A n \in Messages : Live(n)' => Live(n)
  <2>1. /\ UNCHANGED <<seq, published, early, overlapped>> /\ rows' \subseteq rows \cup {m} /\ stage[m] = "creating"
        /\ \E v \in {"stored", "failed"} : stage' = [stage EXCEPT ![m] = v]
    BY <1>3 DEF Commit, CreateFails, observed
  <2>2. QED
    BY <2>1 DEF Live, TypeOK
<1>4. ASSUME NEW m \in Messages, Emit(m) \/ Broadcast(m) \/ DistributeFails(m)
      PROVE  UNCHANGED <<seq, published, early, overlapped>> /\ \A n \in Messages : Live(n)' => Live(n)
  <2>1. /\ UNCHANGED <<seq, published, early, overlapped, rows>>
        /\ \E v \in {"fanout", "sent", "failed"} : stage' = [stage EXCEPT ![m] = v]
    BY <1>4 DEF Emit, Broadcast, DistributeFails, observed
  <2>2. QED
    BY <2>1 DEF Live, TypeOK
<1>5. CASE UNCHANGED vars
  <2>1. UNCHANGED <<seq, published, early, overlapped, rows, stage>>
    BY <1>5 DEF vars, publisher, observed
  <2>2. QED
    BY <2>1 DEF Live
<1>6. QED
  BY <1>1, <1>2, <1>3, <1>4, <1>5, Steps

\* What a call of publish does to the live messages, and to the observations.
LEMMA PublishLive ==
    ASSUME TypeOK, Calls, Publish
    PROVE  /\ \A n \in Messages : n # published + 1 => (Live(n)' <=> Live(n))
           /\ \A n \in Messages : Live(n) => n <= published
           /\ early' = (IF proc = "up" THEN early ELSE early \cup {published + 1})
           /\ overlapped' = overlapped \cup {n \in Messages : Unsent(n)}
<1>1. \A n \in Messages : n # published + 1 => (Live(n)' <=> Live(n))
  BY PublishData, DataTyped DEF Live
<1>2. \A n \in Messages : Live(n) => n <= published
  BY Typed DEF Calls, Live
<1>3. QED
  BY <1>1, <1>2 DEF Publish

LEMMA NumbersNext ==
    ASSUME TypeOK, Calls, Numbers, Labels, [Next]_vars
    PROVE  Numbers'
<1>0. /\ \A n \in Messages : n \in Nat /\ n > 0 /\ seq[n] \in Nat
      /\ published \in Nat /\ counter \in Nat /\ lastRead \in Nat /\ rows \subseteq Messages
      /\ \A n \in rows : seq[n] \in 0..published
  BY Typed
<1>1. CASE Publish
  <2> DEFINE m == published + 1
  <2>1. /\ m \in Messages /\ counter' = counter + 1 /\ seq'[m] = counter + 1
        /\ \A n \in Messages : n # m => seq'[n] = seq[n]
        /\ UNCHANGED <<proc, lastRead, rows>>
    BY <1>1, PublishData, DataTyped
  <2>2. /\ \A n \in Messages : n # m => (Live(n)' <=> Live(n))
        /\ \A n \in Messages : Live(n) => n <= published
        /\ early \subseteq early' /\ (proc # "up" => m \in early')
    BY <1>1, PublishLive
  <2>3. proc' = "read" => \A n \in rows' \ early' : seq'[n] <= lastRead'
    <3>1. m \notin rows
      BY <1>0, <2>1, <2>2 DEF Live
    <3>2. \A n \in rows : n \in Messages /\ seq'[n] = seq[n]
      BY <1>0, <2>1, <3>1
    <3>3. QED
      BY <2>1, <2>2, <3>2 DEF Numbers
  <2>4. proc' = "up" => \A n \in Messages \ early' : Live(n)' => seq'[n] <= counter'
    <3>1. ASSUME proc = "up", NEW n \in Messages \ early', Live(n)'
          PROVE  seq'[n] <= counter + 1
      <4>1. CASE n = m
        BY <1>0, <2>1, <4>1
      <4>2. CASE n # m
        <5>1. seq'[n] = seq[n] /\ seq[n] <= counter
          BY <2>1, <2>2, <3>1, <4>2 DEF Numbers
        <5>2. QED
          BY <1>0, <5>1
      <4>3. QED
        BY <4>1, <4>2
    <3>2. QED
      BY <2>1, <3>1
  <2>5. ASSUME NEW k \in Messages \ early', NEW n \in Messages \ early', Live(k)', Live(n)', k < n
        PROVE  seq'[k] < seq'[n]
    <3>1. CASE n = m
      <4>1. proc = "up" /\ k # m /\ k \in Messages \ early /\ Live(k)
        BY <1>0, <2>2, <2>5, <3>1
      <4>2. seq'[k] = seq[k] /\ seq[k] <= counter
        BY <2>1, <4>1 DEF Numbers
      <4>3. QED
        BY <1>0, <2>1, <3>1, <4>2
    <3>2. CASE n # m
      <4>1. k # m
        BY <1>0, <2>2, <2>5, <3>2
      <4>2. QED
        BY <2>1, <2>2, <2>5, <3>2, <4>1 DEF Numbers
    <3>3. QED
      BY <3>1, <3>2
  <2>6. QED
    BY <2>3, <2>4, <2>5 DEF Numbers
<1>2. CASE ~Publish
  <2>1. UNCHANGED <<seq, published, early, overlapped>> /\ \A n \in Messages : Live(n)' => Live(n)
    BY <1>2, LiveKept
  <2>2. \A k, n \in Messages \ early' : Live(k)' /\ Live(n)' /\ k < n => seq'[k] < seq'[n]
    BY <2>1 DEF Numbers
  <2>3. CASE ReadLast
    <3>1. lastRead' = IF rows = {} THEN 0 ELSE Max({seq[n] : n \in rows})
      BY <2>3 DEF ReadLast
    <3>2. ASSUME NEW n \in rows
          PROVE  seq[n] <= Max({seq[k] : k \in rows})
      BY <1>0, NumbersOf
    <3>3. UNCHANGED rows /\ proc' = "read"
      BY <2>3 DEF ReadLast, publisher
    <3>4. QED
      BY <2>1, <2>2, <3>1, <3>2, <3>3 DEF Numbers
  <2>4. CASE Initialize
    <3>1. proc = "read" /\ proc' = "up" /\ counter' = (IF lastRead > 0 THEN lastRead ELSE counter) /\ UNCHANGED <<rows, stage>>
      BY <2>4 DEF Initialize, publisher
    <3>2. ASSUME NEW n \in Messages \ early, Live(n)
          PROVE  seq[n] <= counter'
      <4>1. n \in rows
        BY <3>1, <3>2 DEF Labels, Live
      <4>2. seq[n] <= lastRead /\ 1 <= seq[n]
        BY <3>1, <3>2, <4>1, Typed DEF Numbers, Calls
      <4>3. QED
        BY <1>0, <3>1, <4>2
    <3>3. QED
      BY <2>1, <2>2, <3>1, <3>2 DEF Numbers, Live
  <2>5. CASE Start \/ Stop \/ InitializeFails
    <3>1. proc' # "read" /\ proc' # "up"
      BY <2>5 DEF Start, Stop, InitializeFails
    <3>2. QED
      BY <2>2, <3>1 DEF Numbers
  <2>6. CASE UNCHANGED <<proc, counter, lastRead>>
    <3>1. proc = "read" => \A n \in rows' \ early' : seq'[n] <= lastRead'
      <4>1. ASSUME proc = "read", NEW n \in rows', n \notin early
            PROVE  n \in rows
        <5>1. n \in Messages /\ Live(n)
          BY <2>1, <4>1, TypeNext DEF Live, TypeOK
        <5>2. stage[n] # "creating"
          BY <4>1, <5>1 DEF Labels
        <5>3. QED
          BY <5>1, <5>2 DEF Live
      <4>2. QED
        BY <2>1, <2>6, <4>1 DEF Numbers
    <3>2. QED
      BY <2>1, <2>2, <2>6, <3>1 DEF Numbers
  <2>7. ASSUME NEW n \in Messages, Commit(n) \/ Emit(n) \/ Broadcast(n) \/ CreateFails(n) \/ DistributeFails(n)
        PROVE  UNCHANGED <<proc, counter, lastRead>>
    BY <2>7 DEF Commit, Emit, Broadcast, CreateFails, DistributeFails
  <2>8. CASE Connect \/ Disconnect \/ ReplayRead \/ ReplaySend \/ ReplayFails \/ UNCHANGED vars
    <3>1. UNCHANGED <<proc, counter, lastRead>>
      BY <2>8 DEF Connect, Disconnect, ReplayRead, ReplaySend, ReplayFails, vars
    <3>2. QED
      BY <2>6, <3>1
  <2>9. QED
    BY <1>2, <2>3, <2>4, <2>5, <2>6, <2>7, <2>8, Steps
<1>3. QED
  BY <1>1, <1>2

LEMMA LabelsNext ==
    ASSUME TypeOK, Calls, Numbers, Labels, [Next]_vars
    PROVE  Labels'
<1>0. /\ \A n \in Messages : n \in Nat /\ n > 0 /\ seq[n] \in Nat
      /\ published \in Nat /\ counter \in Nat /\ rows \subseteq Messages
  BY Typed
<1>1. CASE Publish
  <2> DEFINE m == published + 1
  <2>1. /\ m \in Messages /\ counter' = counter + 1 /\ seq'[m] = counter + 1 /\ stage'[m] = "creating"
        /\ \A n \in Messages : n # m => seq'[n] = seq[n] /\ stage'[n] = stage[n]
        /\ UNCHANGED <<proc, label>>
    BY <1>1, PublishData, DataTyped
  <2>2. /\ early \subseteq early' /\ (proc # "up" => m \in early')
        /\ overlapped' = overlapped \cup {n \in Messages : Unsent(n)}
    BY <1>1, PublishLive
  <2>3. ASSUME NEW n \in Messages \ early', stage'[n] \in {"creating", "stored"}
        PROVE  proc' = "up" /\ (seq'[n] = counter' \/ n \in overlapped')
    <3>1. CASE n = m
      BY <2>1, <2>2, <2>3, <3>1
    <3>2. CASE n # m
      BY <2>1, <2>2, <2>3, <3>2 DEF Labels, Unsent
    <3>3. QED
      BY <3>1, <3>2
  <2>4. LabelsRunAhead'
    BY <2>1, <2>2 DEF Labels, LabelsRunAhead
  <2>5. QED
    BY <2>3, <2>4 DEF Labels
<1>2. CASE ~Publish
  <2>1. UNCHANGED <<seq, published, early, overlapped>>
    BY <1>2, LiveKept
  <2>2. CASE Start \/ ReadLast \/ Initialize \/ InitializeFails
    <3>1. proc # "up" /\ UNCHANGED <<stage, label>>
      BY <2>2 DEF Start, ReadLast, Initialize, InitializeFails, publisher
    <3>2. QED
      BY <2>1, <3>1 DEF Labels, LabelsRunAhead
  <2>3. CASE Stop
    <3>1. /\ UNCHANGED label
          /\ \A n \in Messages : stage'[n] \notin {"creating", "stored"}
          /\ \A n \in Messages : stage'[n] \in {"fanout", "sent"} => stage[n] = stage'[n]
      BY <2>3 DEF Stop, Unsent
    <3>2. QED
      BY <2>1, <3>1 DEF Labels, LabelsRunAhead
  <2>4. ASSUME NEW m \in Messages, Commit(m) \/ CreateFails(m) \/ Broadcast(m) \/ DistributeFails(m)
        PROVE  Labels'
    <3>1. /\ UNCHANGED <<proc, counter, label>>
          /\ \/ stage[m] = "creating" /\ \E v \in {"stored", "failed"} : stage' = [stage EXCEPT ![m] = v]
             \/ stage[m] = "fanout" /\ \E v \in {"sent", "failed"} : stage' = [stage EXCEPT ![m] = v]
      BY <2>4 DEF Commit, CreateFails, Broadcast, DistributeFails
    <3>2. QED
      BY <2>1, <3>1 DEF Labels, LabelsRunAhead, TypeOK
  <2>5. ASSUME NEW m \in Messages, Emit(m)
        PROVE  Labels'
    <3>1. /\ UNCHANGED <<proc, counter>> /\ stage[m] = "stored" /\ m \in rows
          /\ label' = [label EXCEPT ![m] = counter] /\ \E v \in {"fanout", "sent"} : stage' = [stage EXCEPT ![m] = v]
      BY <2>5 DEF Emit, Calls
    <3>2. m \notin early => proc = "up" /\ (seq[m] = counter \/ m \in overlapped)
      BY <3>1 DEF Labels
    <3>3. m \notin early => seq[m] <= counter
      BY <3>1, <3>2 DEF Numbers, Live
    <3>4. \A n \in Messages : n # m => stage'[n] = stage[n] /\ label'[n] = label[n]
      BY <3>1 DEF TypeOK
    <3>5. label'[m] = counter /\ stage'[m] \notin {"creating", "stored"}
      BY <3>1 DEF TypeOK
    <3>6. QED
      BY <2>1, <3>1, <3>2, <3>3, <3>4, <3>5 DEF Labels, LabelsRunAhead
  <2>6. CASE Connect \/ Disconnect \/ ReplayRead \/ ReplaySend \/ ReplayFails \/ UNCHANGED vars
    <3>1. UNCHANGED <<proc, counter, stage, label>>
      BY <2>6 DEF Connect, Disconnect, ReplayRead, ReplaySend, ReplayFails, vars, publisher
    <3>2. QED
      BY <2>1, <3>1 DEF Labels, LabelsRunAhead
  <2>7. QED
    BY <1>2, <2>2, <2>3, <2>4, <2>5, <2>6, Steps
<1>3. QED
  BY <1>1, <1>2

----------------------------------------------------------------------------
(* What a client receives. *)

LEMMA SmoothBefore ==
    ASSUME TypeOK, Calls, [Next]_vars, Smooth'
    PROVE  Smooth /\ faults' = faults
<1>1. overlapped = {} /\ early = {}
  <2>1. CASE Publish
    BY <2>1, PublishLive DEF Smooth
  <2>2. CASE ~Publish
    BY <2>2, LiveKept DEF Smooth
  <2>3. QED
    BY <2>1, <2>2
<1>2. faults = 0
  <2>1. faults' = faults \/ faults' = faults + 1
    BY Steps DEF Start, ReadLast, Initialize, InitializeFails, Stop, Publish, Commit, Emit, Broadcast, CreateFails, DistributeFails,
       Connect, Disconnect, ReplayRead, ReplaySend, ReplayFails, vars, budget, Fault
  <2>2. QED
    BY <2>1, Bounds DEF Smooth, TypeOK
<1>3. ~cut
  <2>1. cut' = cut \/ (cut => cut')
    <3>1. CASE Stop \/ Disconnect
      BY <3>1, Zenon DEF Stop, Disconnect, HangUp
    <3>2. CASE ReplayRead
      BY <3>2, Zenon DEF ReplayRead
    <3>3. CASE ~(Stop \/ Disconnect \/ ReplayRead)
      BY <3>3, Steps, Zenon DEF Start, ReadLast, Initialize, InitializeFails, Publish, Commit, Emit, Broadcast, CreateFails,
         DistributeFails, Connect, ReplaySend, ReplayFails, vars, observed
    <3>4. QED
      BY <3>1, <3>2, <3>3
  <2>2. QED
    BY <2>1, Zenon DEF Smooth
<1>4. QED
  BY <1>1, <1>2, <1>3 DEF Smooth

\* Messages are numbered as they come, so an unsent one is above all the client has.
LEMMA UnsentAbove ==
    ASSUME TypeOK, Calls, Numbers, Resuming, Smooth, NEW m \in rows, Unsent(m)
    PROVE  /\ m = published
           /\ \A n \in rows : n # m => seq[n] < seq[m]
           /\ m \notin got => last < seq[m]
<1>0. /\ \A n \in Messages : n \in Nat /\ seq[n] \in Nat
      /\ published \in Nat /\ rows \subseteq Messages /\ \A n \in rows : n <= published
      /\ got \subseteq rows
  BY Typed DEF TypeOK
<1>1. m = published
  BY <1>0 DEF Resuming
<1>2. ASSUME NEW n \in rows, n # m
      PROVE  seq[n] < seq[m]
  BY <1>0, <1>1, <1>2 DEF Numbers, Live, Smooth
<1>3. ASSUME m \notin got
      PROVE  last < seq[m]
  <2>1. CASE last = 0
    BY <1>0, <1>1, <2>1 DEF Calls
  <2>2. ASSUME NEW g \in got, last = seq[g]
        PROVE  last < seq[m]
    BY <1>0, <1>2, <1>3, <2>2
  <2>3. QED
    BY <2>1, <2>2 DEF Resuming
<1>4. QED
  BY <1>1, <1>2, <1>3

\* The client's connection ends.
LEMMA HangUpResumes ==
    ASSUME TypeOK, Calls, Numbers, Resuming, Smooth, Smooth', Stop \/ Disconnect
    PROVE  Resuming'
<1>1. /\ UNCHANGED <<seq, rows, published, last, first, got>> /\ replay' = "none" /\ batch' = {} /\ ~connected'
      /\ \A m \in Messages : Unsent(m)' => Unsent(m)
      /\ Stop => \A m \in Messages : ~Unsent(m)'
      /\ Disconnect => \A m \in Messages : Unsent(m)' <=> Unsent(m)
  BY DEF Stop, Disconnect, HangUp, publisher, Unsent
<1>2. replay # "none" => last = from
  BY Zenon DEF Stop, Disconnect, HangUp, Smooth
<1>3. ASSUME NEW m \in rows, first > 0, first <= seq[m]
      PROVE  Coming(m)'
  <2>1. Coming(m) /\ m \in Messages
    BY <1>3 DEF Resuming, TypeOK
  <2>2. CASE m \in got
    BY <1>1, <2>2 DEF Coming
  <2>3. CASE Unsent(m) /\ m \notin got
    <3>1. last < seq[m]
      BY <2>3, UnsentAbove
    <3>2. QED
      BY <1>1, <3>1 DEF Coming
  <2>4. CASE ~connected /\ last < seq[m]
    BY <1>1, <2>4 DEF Coming
  <2>5. CASE replay = "asked" /\ from < seq[m]
    BY <1>1, <1>2, <2>5 DEF Coming
  <2>6. CASE replay = "read" /\ m \in batch
    <3>1. from < seq[m]
      BY <2>6 DEF Resuming
    <3>2. QED
      BY <1>1, <1>2, <2>6, <3>1 DEF Coming
  <2>7. QED
    BY <2>1, <2>2, <2>3, <2>4, <2>5, <2>6 DEF Coming
<1>4. \A m \in Messages : Unsent(m)' => m = published'
  BY <1>1 DEF Resuming
<1>5. last' = 0 \/ \E g \in got' : last' = seq'[g]
  BY <1>1 DEF Resuming
<1>6. first' > 0 => last' > 0
  BY <1>1 DEF Resuming
<1>7. QED
  BY <1>1, <1>3, <1>4, <1>5, <1>6 DEF Resuming

\* A step of a call.
LEMMA CallResumes ==
    ASSUME TypeOK, Calls, Numbers, Labels, Resuming, Smooth, NEW m \in Messages, Commit(m) \/ Emit(m)
    PROVE  Resuming'
<1>1. /\ UNCHANGED <<seq, published, connected, replay, batch, from, last, first, got>>
      /\ rows' = rows \/ rows' = rows \cup {m}
  BY DEF Commit, Emit, client
<1>2. Unsent(m) /\ \A n \in Messages : Unsent(n)' <=> Unsent(n)
  <2>1. Emit(m) => proc = "up"
    BY DEF Emit, Labels, Smooth
  <2>2. stage[m] \in {"creating", "stored"} /\ \E v \in {"stored", "fanout"} : stage' = [stage EXCEPT ![m] = v]
    BY <2>1 DEF Commit, Emit
  <2>3. QED
    BY <2>2 DEF TypeOK, Unsent
<1>3. ASSUME NEW n \in rows', first > 0, first <= seq[n]
      PROVE  Coming(n)'
  <2>1. CASE n = m
    BY <1>2, <2>1 DEF Coming
  <2>2. CASE n # m
    <3>1. n \in rows /\ n \in Messages /\ Coming(n)
      BY <1>1, <1>3, <2>2 DEF Resuming, TypeOK
    <3>2. QED
      BY <1>1, <1>2, <3>1 DEF Coming
  <2>3. QED
    BY <2>1, <2>2
<1>4. QED
  BY <1>1, <1>2, <1>3 DEF Resuming

LEMMA BroadcastResumes ==
    ASSUME TypeOK, Calls, Numbers, Labels, Resuming, Smooth, NEW m \in Messages, Broadcast(m)
    PROVE  Resuming'
<1>0. /\ \A n \in Messages : n \in Nat /\ seq[n] \in Nat /\ label[n] \in Nat
      /\ published \in Nat /\ rows \subseteq Messages /\ first \in Nat /\ last \in Nat /\ got \subseteq rows
  BY Typed DEF TypeOK
<1>1. /\ UNCHANGED <<seq, published, rows, connected, replay, batch, from>>
      /\ stage[m] = "fanout" /\ stage' = [stage EXCEPT ![m] = "sent"] /\ m \in rows
  BY DEF Broadcast, Calls
<1>2. /\ Unsent(m) /\ \A n \in Messages : n # m => (Unsent(n)' <=> Unsent(n))
      /\ ~(stage'[m] \in {"creating", "stored", "fanout"})
  BY <1>1 DEF TypeOK, Unsent
<1>3. /\ m = published /\ \A n \in rows : n # m => seq[n] < seq[m] 
      /\ m \notin got => last < seq[m]
  BY <1>1, <1>2, UnsentAbove
<1>4. label[m] = seq[m] /\ 1 <= seq[m]
  <2>1. label[m] = seq[m]
    BY <1>1 DEF Labels, LabelsRunAhead, Smooth
  <2>2. QED
    BY <1>0, <1>3, <2>1 DEF Calls
<1>5. \A n \in Messages : Unsent(n)' => n = published'
  BY <1>1, <1>2 DEF Resuming, Unsent
<1>6. CASE connected
  <2>1. got' = got \cup {m} /\ last' = seq[m] /\ first' = (IF first = 0 THEN seq[m] ELSE first)
    BY <1>4, <1>6 DEF Broadcast, Send
  <2>2. ASSUME NEW n \in rows, first' > 0, first' <= seq[n]
        PROVE  Coming(n)'
    <3>1. CASE n = m
      BY <2>1, <3>1 DEF Coming
    <3>2. CASE n # m
      <4>1. first > 0
        BY <1>0, <1>1, <1>3, <2>1, <2>2, <3>2
      <4>2. Coming(n) /\ n \in Messages
        BY <1>0, <2>1, <2>2, <4>1 DEF Resuming
      <4>3. n \in got \/ Unsent(n) \/ (replay = "asked" /\ from < seq[n]) \/ (replay = "read" /\ n \in batch)
        BY <1>6, <4>2 DEF Coming
      <4>4. QED
        BY <1>1, <1>2, <2>1, <3>2, <4>2, <4>3 DEF Coming
    <3>3. QED
      BY <3>1, <3>2
  <2>3. last' > 0 /\ \E g \in got' : last' = seq'[g]
    BY <1>0, <1>1, <1>4, <2>1
  <2>4. \A n \in batch' : replay' = "read" => from' < seq'[n]
    BY <1>1 DEF Resuming
  <2>5. QED
    BY <1>1, <1>5, <2>2, <2>3, <2>4 DEF Resuming
<1>7. CASE ~connected
  <2>1. UNCHANGED <<got, last, first>>
    BY <1>7 DEF Broadcast
  <2>2. ASSUME NEW n \in rows, first > 0, first <= seq[n]
        PROVE  Coming(n)'
    <3>1. CASE n = m
      BY <1>1, <1>3, <1>7, <2>1, <3>1 DEF Coming
    <3>2. CASE n # m
      <4>1. Coming(n) /\ n \in Messages
        BY <1>0, <2>2 DEF Resuming
      <4>2. QED
        BY <1>1, <1>2, <2>1, <3>2, <4>1 DEF Coming
    <3>3. QED
      BY <3>1, <3>2
  <2>3. /\ last' = 0 \/ \E g \in got' : last' = seq'[g]
        /\ first' > 0 => last' > 0
        /\ \A n \in batch' : replay' = "read" => from' < seq'[n]
    BY <1>1, <2>1 DEF Resuming
  <2>4. QED
    BY <1>1, <1>5, <2>1, <2>2, <2>3 DEF Resuming
<1>8. QED
  BY <1>6, <1>7

LEMMA PublishResumes ==
    ASSUME TypeOK, Calls, Resuming, Smooth, Smooth', Publish
    PROVE  Resuming'
<1>1. /\ \A n \in Messages : n # published + 1 => seq'[n] = seq[n] /\ stage'[n] = stage[n]
      /\ published' = published + 1
      /\ UNCHANGED <<rows, connected, replay, batch, from, last, first, got>>
  BY PublishData, DataTyped
<1>2. \A n \in Messages : ~Unsent(n)
  BY PublishLive DEF Smooth
<1>3. \A n \in rows : n \in Messages /\ n # published + 1 /\ seq'[n] = seq[n]
  BY <1>1, Typed
<1>4. \A n \in Messages : Unsent(n)' => n = published'
  BY <1>1, <1>2 DEF Unsent
<1>5. ASSUME NEW n \in rows, first > 0, first <= seq[n]
      PROVE  Coming(n)'
  <2>1. Coming(n) /\ ~Unsent(n)
    BY <1>2, <1>3, <1>5 DEF Resuming
  <2>2. QED
    BY <1>1, <1>3, <2>1 DEF Coming
<1>6. batch \subseteq rows /\ got \subseteq rows
  BY DEF TypeOK
<1>7. /\ last' = 0 \/ \E g \in got' : last' = seq'[g]
      /\ first' > 0 => last' > 0
      /\ \A n \in batch' : replay' = "read" => from' < seq'[n]
  BY <1>1, <1>3, <1>6 DEF Resuming
<1>8. QED
  BY <1>1, <1>3, <1>4, <1>5, <1>7 DEF Resuming

LEMMA ConnectResumes ==
    ASSUME TypeOK, Resuming, Smooth, Connect
    PROVE  Resuming'
<1>1. /\ UNCHANGED <<seq, published, rows, stage, batch, last, first, got>> /\ from' = last
      /\ replay' = (IF last > 0 THEN "asked" ELSE "none") /\ ~connected /\ replay = "none"
  BY DEF Connect, publisher, TypeOK
<1>2. ASSUME NEW n \in rows, first > 0, first <= seq[n]
      PROVE  Coming(n)'
  <2>1. Coming(n) /\ last > 0
    BY <1>2 DEF Resuming
  <2>2. n \in got \/ Unsent(n) \/ last < seq[n]
    BY <1>1, <2>1 DEF Coming
  <2>3. QED
    BY <1>1, <2>1, <2>2 DEF Coming, Unsent
<1>3. QED
  BY <1>1, <1>2 DEF Resuming, Unsent

LEMMA ReplayReadResumes ==
    ASSUME TypeOK, Resuming, Smooth, Smooth', ReplayRead
    PROVE  Resuming'
<1>1. /\ UNCHANGED <<seq, published, rows, stage, connected, from, last, first, got>>
      /\ replay = "asked" /\ replay' = "read"
  BY DEF ReplayRead, publisher
<1>2. PICK shown \in SUBSET rows : batch' = Missed(shown) /\ Unseen(shown) = {}
  <2>1. PICK shown \in SUBSET rows : cut' = (cut \/ batch' # Missed(shown) \/ Unseen(shown) # {})
    BY DEF ReplayRead
  <2>2. ~cut'
    BY DEF Smooth
  <2>3. batch' = Missed(shown) /\ Unseen(shown) = {}
    BY <2>1, <2>2, Zenon
  <2>4. QED
    BY <2>3
<1>3. ASSUME NEW n \in rows, first > 0, first <= seq[n]
      PROVE  Coming(n)'
  <2>1. Coming(n)
    BY <1>3 DEF Resuming
  <2>2. CASE from < seq[n]
    <3>1. CASE n \in shown
      <4>1. n \in Missed(shown)
        BY <2>2, <3>1 DEF Missed
      <4>2. QED
        BY <1>1, <1>2, <4>1 DEF Coming
    <3>2. CASE n \notin shown
      <4>1. Unsent(n)
        BY <1>2, <1>3, <2>2, <3>2 DEF Unseen
      <4>2. QED
        BY <1>1, <4>1 DEF Coming, Unsent
    <3>3. QED
      BY <3>1, <3>2
  <2>3. CASE n \in got \/ Unsent(n) \/ (~connected /\ last < seq[n])
    BY <1>1, <2>3 DEF Coming, Unsent
  <2>4. QED
    BY <1>1, <2>1, <2>2, <2>3 DEF Coming
<1>4. \A n \in batch' : from' < seq'[n]
  BY <1>1, <1>2 DEF Missed
<1>5. QED
  BY <1>1, <1>3, <1>4 DEF Resuming, Unsent

LEMMA ReplaySendResumes ==
    ASSUME TypeOK, Calls, Resuming, Smooth, ReplaySend
    PROVE  Resuming'
<1>0. /\ published \in Nat /\ batch \subseteq rows /\ \A n \in rows : seq[n] \in 0..published /\ 1 <= seq[n]
      /\ last \in Nat
  BY Typed DEF TypeOK, Calls
<1>1. /\ UNCHANGED <<seq, published, rows, stage, connected, first>> /\ got' = got \cup batch
      /\ replay = "read" /\ replay' = "none" /\ batch' = {}
      /\ last' = IF batch = {} THEN last ELSE Max({seq[n] : n \in batch})
  BY DEF ReplaySend, publisher
<1>2. connected
  BY <1>1, Zenon DEF TypeOK
<1>3. ASSUME NEW n \in rows, first > 0, first <= seq[n]
      PROVE  Coming(n)'
  <2>1. n \in got \/ Unsent(n) \/ n \in batch
    BY <1>1, <1>2, <1>3 DEF Resuming, Coming
  <2>2. QED
    BY <1>1, <2>1 DEF Coming, Unsent
<1>4. (last' = 0 \/ \E g \in got' : last' = seq'[g]) /\ (first' > 0 => last' > 0)
  <2>1. CASE batch = {}
    BY <1>1, <2>1 DEF Resuming
  <2>2. CASE batch # {}
    <3>1. PICK g \in batch : Max({seq[n] : n \in batch}) = seq[g]
      BY <1>0, <2>2, NumbersOf
    <3>2. last' = seq[g] /\ g \in got' /\ seq'[g] = seq[g]
      BY <1>1, <2>2, <3>1
    <3>3. seq[g] > 0
      BY <1>0
    <3>4. QED
      BY <3>2, <3>3
  <2>3. QED
    BY <2>1, <2>2
<1>5. QED
  BY <1>1, <1>3, <1>4 DEF Resuming, Unsent

LEMMA ResumingNext ==
    ASSUME StreamInv, [Next]_vars
    PROVE  Resuming'
<1> USE DEF StreamInv
<1>1. CASE ~Smooth'
  BY <1>1 DEF Resuming
<1>2. CASE Smooth'
  <2>1. Smooth /\ faults' = faults /\ faults \in Nat
    BY <1>2, SmoothBefore, Bounds DEF TypeOK
  <2>2. ~InitializeFails /\ ~ReplayFails /\ \A m \in Messages : ~CreateFails(m) /\ ~DistributeFails(m)
    BY <2>1 DEF InitializeFails, ReplayFails, CreateFails, DistributeFails, Fault
  <2>3. CASE Start \/ ReadLast \/ Initialize \/ UNCHANGED vars
    <3>1. UNCHANGED <<stage, seq, published, rows, connected, replay, batch, from, last, first, got>>
      BY <2>3 DEF Start, ReadLast, Initialize, vars, publisher, client
    <3>2. QED
      BY <2>1, <3>1 DEF Resuming, Coming, Unsent
  <2>4. QED
    BY <1>2, <2>1, <2>2, <2>3, Steps, HangUpResumes, CallResumes, BroadcastResumes, PublishResumes, ConnectResumes,
       ReplayReadResumes, ReplaySendResumes, Zenon
<1>3. QED
  BY <1>1, <1>2

----------------------------------------------------------------------------
(* The theorems. *)

LEMMA StreamCorrect == Spec => []StreamInv
<1>1. Init => StreamInv
  BY StreamInit
<1>2. StreamInv /\ [Next]_vars => StreamInv'
  BY TypeNext, NumbersNext, LabelsNext, ResumingNext DEF StreamInv
<1>3. QED
  BY <1>1, <1>2, PTL DEF Spec

\* The counter, the labels and what the client knows stay within the messages published,
\* and the client has nothing that is not stored.
THEOREM TypeCorrect == Spec => []TypeOK
<1>1. StreamInv => TypeOK
  BY DEF StreamInv
<1>2. QED
  BY <1>1, StreamCorrect, PTL

\* Whatever restarts and failures happen, only a message published before initialize is
\* done can share its number with another.
THEOREM NumbersAreUnique == Spec => []NumbersUnique
<1>1. StreamInv => NumbersUnique
  <2> SUFFICES ASSUME StreamInv, NEW m \in rows, NEW n \in rows, m # n, seq[m] = seq[n], m \notin early, n \notin early
               PROVE  FALSE
    BY DEF NumbersUnique
  <2>1. m \in Messages /\ n \in Messages /\ m \in Nat /\ n \in Nat /\ seq[m] \in Nat /\ Live(m) /\ Live(n)
    BY Typed DEF StreamInv, TypeOK, Live
  <2>2. CASE m < n
    BY <2>1, <2>2 DEF StreamInv, Numbers
  <2>3. CASE n < m
    BY <2>1, <2>3 DEF StreamInv, Numbers
  <2>4. QED
    BY <2>1, <2>2, <2>3
<1>2. QED
  BY <1>1, StreamCorrect, PTL

\* Whatever restarts and failures happen, the number a message is emitted with differs from
\* the stored one only if publishes overlap, and is then higher.
THEOREM LabelsAhead == Spec => []LabelsRunAhead
<1>1. StreamInv => LabelsRunAhead
  BY DEF StreamInv, Labels
<1>2. QED
  BY <1>1, StreamCorrect, PTL

\* Under the conditions of ResumesComplete a client misses nothing, whatever the number of
\* restarts and lost connections.
THEOREM ResumeLosesNothing == Spec => []ResumesComplete
<1>1. StreamInv => ResumesComplete
  <2> SUFFICES ASSUME StreamInv, Smooth, connected, replay = "none", \A m \in Messages : ~Unsent(m),
                      NEW m \in rows, first > 0, first <= seq[m]
               PROVE  m \in got
    BY DEF ResumesComplete, Smooth
  <2>1. Coming(m) /\ ~Unsent(m)
    BY DEF StreamInv, Resuming, TypeOK
  <2>2. QED
    BY <2>1, Zenon DEF Coming
<1>2. QED
  BY <1>1, StreamCorrect, PTL
=============================================================================
