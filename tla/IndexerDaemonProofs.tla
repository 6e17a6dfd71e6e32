------------------------- MODULE IndexerDaemonProofs -------------------------
(***************************************************************************)
(* For every history of the network, page size and number of failures and  *)
(* restarts: what the daemon has passed is in the table save for the cuts  *)
(* and what full pages left out, and an event is repeated only by failed   *)
(* rounds.                                                                 *)
(***************************************************************************)
EXTENDS IndexerDaemon, WellFoundedInduction, TLAPS

\* A set of natural numbers that is not empty has a least element.
LEMMA LeastNat ==
    ASSUME NEW T \in SUBSET Nat, T # {}
    PROVE  \E x \in T : \A y \in T : x <= y
<1>1. PICK x \in T : \A y \in T : ~(<<y, x>> \in OpToRel(<, Nat))
  BY NatLessThanWellFounded, WFMin
<1>2. ASSUME NEW y \in T
      PROVE  x <= y
  <2>1. <<y, x>> \in Nat \X Nat /\ ~(<<y, x>> \in OpToRel(<, Nat))
    BY <1>1
  <2>2. ~(y < x)
    BY <2>1 DEF OpToRel
  <2>3. QED
    BY <2>2
<1>3. QED
  BY <1>2

\* A set of ledgers that is not empty has a greatest element.
LEMMA GreatestLedger ==
    ASSUME NEW T \in SUBSET Ledgers, T # {}
    PROVE  \E x \in T : \A y \in T : y <= x
<1> DEFINE U == {n \in Nat : \E l \in T : n = MaxLedger - l}
<1>0. MaxLedger \in Nat
  BY DaemonAssumption
<1>1. PICK l \in T : TRUE
  OBVIOUS
<1>2. MaxLedger - l \in U
  BY <1>0 DEF Ledgers
<1>3. PICK n \in U : \A m \in U : n <= m
  BY <1>2, LeastNat
<1>4. PICK x \in T : n = MaxLedger - x
  OBVIOUS
<1>5. ASSUME NEW y \in T
      PROVE  y <= x
  <2>1. MaxLedger - y \in U
    BY <1>0 DEF Ledgers
  <2>2. QED
    BY <1>0, <1>3, <1>4, <2>1 DEF Ledgers
<1>6. QED
  BY <1>5

\* The counts of events per ledger.
LEMMA Counts ==
    /\ MaxLedger \in Nat \ {0}
    /\ \A l \in 0..MaxLedger : EventsUpTo[l] \in Nat /\ EventsUpTo[l] <= EventsUpTo[MaxLedger]
    /\ \A k, l \in 0..MaxLedger : k <= l => EventsUpTo[k] <= EventsUpTo[l]
    /\ EventsUpTo[0] = 0
<1>1. MaxLedger \in 0..MaxLedger
  BY DaemonAssumption
<1>2. QED
  BY <1>1, DaemonAssumption

\* Every event belongs to a ledger.
LEMMA EventHasLedger ==
    ASSUME NEW i \in Events
    PROVE  \E l \in Ledgers : i \in In(l)
<1> DEFINE T == {l \in 0..MaxLedger : i <= EventsUpTo[l]}
<1>1. T \in SUBSET Nat /\ MaxLedger \in T
  BY Counts DEF Events
<1>2. PICK l \in T : \A k \in T : l <= k
  BY <1>1, LeastNat
<1>3. l # 0
  BY Counts DEF Events
<1>4. l - 1 \in 0..MaxLedger /\ l - 1 \notin T /\ l \in Ledgers
  BY <1>2, <1>3, Counts DEF Ledgers
<1>5. i > EventsUpTo[l - 1] /\ i <= EventsUpTo[l]
  BY <1>4, Counts DEF Events
<1>6. QED
  BY <1>4, <1>5, Counts DEF In, Events

\* Events of a ledger are events, between those of the ledgers before and after.
LEMMA Order ==
    ASSUME NEW l \in Ledgers, NEW i \in In(l)
    PROVE  /\ i \in Events
           /\ \A k \in 0..MaxLedger : k < l => EventsUpTo[k] < i
           /\ \A k \in 0..MaxLedger : l <= k => i <= EventsUpTo[k]
<1>1. l \in 0..MaxLedger /\ l - 1 \in 0..MaxLedger
  BY Counts DEF Ledgers
<1>2. i \in Nat /\ EventsUpTo[l - 1] < i /\ i <= EventsUpTo[l] /\ i \in Int
  BY <1>1, Counts DEF In
<1>3. ASSUME NEW k \in 0..MaxLedger, k < l
      PROVE  EventsUpTo[k] < i
  BY <1>1, <1>2, <1>3, Counts DEF Ledgers
<1>4. ASSUME NEW k \in 0..MaxLedger, l <= k
      PROVE  i <= EventsUpTo[k]
  BY <1>1, <1>2, <1>4, Counts
<1>5. i \in Events
  BY <1>1, <1>2, Counts DEF Events
<1>6. QED
  BY <1>3, <1>4, <1>5

\* maxLedger is the greatest ledger with rows.
LEMMA Highest ==
    /\ WithRows = {} => maxLedger = 0
    /\ WithRows # {} => /\ maxLedger \in WithRows /\ maxLedger \in Ledgers
                        /\ \A k \in WithRows : k <= maxLedger
<1>1. CASE WithRows # {}
  <2>1. WithRows \in SUBSET Ledgers
    BY DEF WithRows
  <2>2. \E x \in WithRows : \A y \in WithRows : y <= x
    BY <1>1, <2>1, GreatestLedger
  <2>3. maxLedger \in WithRows /\ \A k \in WithRows : k <= maxLedger
    BY <1>1, <2>2 DEF maxLedger
  <2>4. QED
    BY <1>1, <2>1, <2>3
<1>2. QED
  BY <1>1 DEF maxLedger

----------------------------------------------------------------------------
(* The invariant. *)

\* A round inserts the events from its cursor on without a gap; nothing beyond the ledgers
\* that have been reported is stored.
Writing ==
    /\ dirty /\ cursor <= latest /\ latest <= tip
    /\ EventsUpTo[cursor - 1] + 1 <= next /\ next <= end + 1 /\ end <= EventsUpTo[latest]
    /\ \A i \in Events : EventsUpTo[cursor - 1] < i /\ i < next => Stored(i)
    /\ \A i \in Events : Stored(i) => i <= EventsUpTo[latest]

\* Nothing at or after the cursor is stored.
Clean == \A i \in Events : Stored(i) => i <= EventsUpTo[cursor - 1]

\* The ledger a restart resumes after is settled.
Closed == \A l \in WithRows : (\A k \in WithRows : k <= l) /\ origin <= l => Settled(l)

DaemonInv ==
    /\ TypeOK /\ LOOKBACK < tip
    /\ pc # "down" => 1 <= cursor
    /\ pc = "write" => Writing
    /\ pc # "down" /\ ~dirty => Clean
    /\ pc = "down" => Closed
    /\ \A i \in Events : Stored(i) => i <= EventsUpTo[tip]
    /\ MissedOnlyAtCut
    /\ NoHoles

\* Initially the table is empty.
LEMMA DaemonInit == Init => DaemonInv
<1> SUFFICES ASSUME Init
             PROVE  DaemonInv
  OBVIOUS
<1>0. /\ MaxLedger \in Nat \ {0} /\ LOOKBACK \in 0..(MaxLedger - 1) /\ EventsUpTo[MaxLedger] \in Nat
      /\ MaxFailures \in Nat /\ MaxStops \in Nat
  BY DaemonAssumption
<1>1. TypeOK /\ LOOKBACK < tip
  <2>1. shutdown \in BOOLEAN /\ dirty \in BOOLEAN
    BY DEF Init
  <2>2. tip \in Ledgers /\ rows \in [Events -> Nat] /\ origin \in 1..(MaxLedger + 1) /\ cuts \subseteq Ledgers
        /\ dropped \subseteq Events
    BY <1>0 DEF Init, Ledgers
  <2>3. /\ saved \in 0..(MaxLedger + 1) /\ cursor \in 0..(MaxLedger + 1) /\ latest \in 0..MaxLedger
        /\ next \in Nat /\ end \in 0..EventsUpTo[MaxLedger]
        /\ failures \in 0..MaxFailures /\ stops \in 0..MaxStops
    BY <1>0 DEF Init
  <2>4. QED
    BY <1>0, <2>1, <2>2, <2>3 DEF TypeOK, Init
<1>2. \A i \in Events : ~Stored(i)
  BY DEF Init, Stored
<1>3. WithRows = {}
  BY <1>2, Order DEF WithRows
<1>4. MissedOnlyAtCut /\ NoHoles /\ Closed
  BY <1>3 DEF Init, MissedOnlyAtCut, NoHoles, Closed, Ledgers
<1>5. QED
  BY <1>1, <1>2, <1>4 DEF DaemonInv, Init

\* Rows and cuts only grow, so what is settled stays settled; rows that do not change
\* leave the ledgers with rows as they are.
LEMMA SettledStays ==
    ASSUME TypeOK, TypeOK', \A i \in Events : Stored(i) => Stored(i)', cuts \subseteq cuts', dropped \subseteq dropped',
           NEW l \in Ledgers, Settled(l)
    PROVE  Settled(l)'
<1>1. CASE l \in cuts
  BY <1>1 DEF Settled
<1>2. CASE \A i \in In(l) : Stored(i) \/ i \in dropped
  BY <1>2, Order DEF Settled
<1>3. QED
  BY <1>1, <1>2 DEF Settled

\* A step that leaves rows, cursor, origin and cuts alone.
LEMMA TableKept ==
    ASSUME DaemonInv, UNCHANGED <<rows, cursor, origin, cuts, dropped>>
    PROVE  /\ MissedOnlyAtCut' /\ NoHoles' /\ (Closed => Closed')
           /\ (Clean => Clean') /\ WithRows' = WithRows
           /\ \A i \in Events : Stored(i)' <=> Stored(i)
<1>1. \A i \in Events : Stored(i)' <=> Stored(i)
  BY DEF Stored
<1>2. \A l \in Ledgers : Settled(l)' <=> Settled(l)
  BY DEF Settled, Stored
<1>3. WithRows' = WithRows
  BY DEF WithRows, Stored
<1>4. MissedOnlyAtCut' /\ NoHoles'
  BY <1>2, <1>3 DEF MissedOnlyAtCut, NoHoles, DaemonInv
<1>5. Closed => Closed'
  BY <1>2, <1>3 DEF Closed, WithRows
<1>6. Clean => Clean'
  BY <1>1 DEF Clean
<1>7. QED
  BY <1>1, <1>3, <1>4, <1>5, <1>6

\* Steps that move the program counter only.
LEMMA QuietKeeps ==
    ASSUME DaemonInv, UNCHANGED <<rows, cursor, origin, cuts, dropped, dirty, next, end, latest>>,
           TypeOK', tip <= tip', pc' = "write" => pc = "write", pc' = "down" <=> pc = "down"
    PROVE  DaemonInv'
<1>1. MissedOnlyAtCut' /\ NoHoles' /\ (Closed => Closed') /\ (Clean => Clean')
      /\ \A i \in Events : Stored(i)' <=> Stored(i)
  BY TableKept
<1>2. tip \in 0..MaxLedger /\ tip' \in 0..MaxLedger /\ EventsUpTo[tip] \in Nat /\ EventsUpTo[tip'] \in Nat
      /\ EventsUpTo[tip] <= EventsUpTo[tip']
  BY Counts DEF DaemonInv, TypeOK, Ledgers
<1>3. (\A i \in Events : Stored(i) => i <= EventsUpTo[tip])'
  BY <1>1, <1>2, Counts DEF DaemonInv, Events
<1>4. pc' = "write" => Writing'
  BY <1>1, Counts DEF DaemonInv, Writing, TypeOK, Ledgers
<1>5. (LOOKBACK < tip)'
  BY DaemonAssumption DEF DaemonInv, TypeOK, Ledgers
<1>6. QED
  BY <1>1, <1>3, <1>4, <1>5 DEF DaemonInv

\* The page of a round begins with the first event of the cursor's ledger.
LEMMA FetchKeeps ==
    ASSUME DaemonInv, FetchPage
    PROVE  DaemonInv'
<1>0. /\ tip \in 0..MaxLedger /\ cursor - 1 \in 0..MaxLedger /\ 1 <= cursor /\ cursor <= tip
      /\ EventsUpTo[cursor - 1] \in Nat /\ EventsUpTo[tip] \in Nat /\ EventsUpTo[MaxLedger] \in Nat
      /\ EventsUpTo[cursor - 1] <= EventsUpTo[tip] /\ EventsUpTo[tip] <= EventsUpTo[MaxLedger]
      /\ PAGE_LIMIT \in Nat \ {0}
  <2>1. tip \in Ledgers /\ cursor \in 0..(MaxLedger + 1) /\ 1 <= cursor /\ cursor <= tip
    BY DEF FetchPage, DaemonInv, TypeOK
  <2>2. tip \in 0..MaxLedger /\ cursor - 1 \in 0..MaxLedger /\ cursor - 1 <= tip
    BY <2>1, Counts DEF Ledgers
  <2>3. QED
    BY <2>1, <2>2, Counts, DaemonAssumption
<1>1. /\ pc' = "write" /\ dirty' = TRUE /\ latest' = tip /\ next' = EventsUpTo[cursor - 1] + 1
      /\ end' = Least(EventsUpTo[cursor - 1] + PAGE_LIMIT, EventsUpTo[tip])
      /\ UNCHANGED <<tip, rows, saved, cursor, shutdown, origin, cuts, dropped, failures, stops>>
  BY DEF FetchPage, budget
<1>2. end' \in Nat /\ next' \in Nat /\ next' <= end' + 1 /\ end' <= EventsUpTo[tip]
  <2>1. CASE EventsUpTo[cursor - 1] + PAGE_LIMIT <= EventsUpTo[tip]
    BY <1>0, <1>1, <2>1 DEF Least
  <2>2. CASE ~(EventsUpTo[cursor - 1] + PAGE_LIMIT <= EventsUpTo[tip])
    BY <1>0, <1>1, <2>2 DEF Least
  <2>3. QED
    BY <2>1, <2>2
<1>3. TypeOK'
  BY <1>0, <1>1, <1>2 DEF DaemonInv, TypeOK
<1>4. MissedOnlyAtCut' /\ NoHoles' /\ \A i \in Events : Stored(i)' <=> Stored(i)
  BY <1>1, TableKept
<1>5. (\A i \in Events : Stored(i) => i <= EventsUpTo[tip])'
  BY <1>1, <1>4 DEF DaemonInv
<1>6. Writing'
  <2>1. \A j \in Events : ~(EventsUpTo[cursor - 1] < j /\ j < EventsUpTo[cursor - 1] + 1)
    BY <1>0, Counts DEF Events
  <2>2. (\A j \in Events : Stored(j) => j <= EventsUpTo[latest])'
    BY <1>1, <1>5
  <2>3. QED
    BY <1>0, <1>1, <1>2, <2>1, <2>2 DEF Writing
<1>7. QED
  BY <1>0, <1>1, <1>3, <1>4, <1>5, <1>6 DEF DaemonInv

\* Inserting the next event of a page, by InsertEvent or by an INSERT whose answer is lost.
LEMMA InsertKeeps ==
    ASSUME DaemonInv, pc = "write", next <= end, rows' = [rows EXCEPT ![next] = @ + 1],
           UNCHANGED <<tip, cursor, origin, cuts, dropped, dirty>>
    PROVE  /\ MissedOnlyAtCut' /\ NoHoles' /\ rows' \in [Events -> Nat]
           /\ next \in Events /\ rows'[next] > 0 /\ next <= EventsUpTo[latest] /\ next <= EventsUpTo[tip]
           /\ \A i \in Events : i # next => (Stored(i)' <=> Stored(i))
<1>0. /\ Writing /\ 1 <= cursor /\ TypeOK
      /\ cursor \in 0..(MaxLedger + 1) /\ latest \in 0..MaxLedger /\ tip \in 0..MaxLedger /\ latest <= tip
      /\ \A k \in 0..MaxLedger : EventsUpTo[k] \in Nat /\ EventsUpTo[k] <= EventsUpTo[MaxLedger]
      /\ EventsUpTo[latest] <= EventsUpTo[tip] /\ next \in Nat /\ end \in Nat
      /\ cursor - 1 \in 0..MaxLedger /\ EventsUpTo[cursor - 1] \in Nat
  BY Counts DEF DaemonInv, TypeOK, Writing, Ledgers
<1>1. next \in Events /\ next <= EventsUpTo[latest] /\ next <= EventsUpTo[tip]
  BY <1>0, Counts DEF Writing, Events
<1>2. rows' \in [Events -> Nat] /\ rows'[next] = rows[next] + 1 /\ rows[next] \in Nat
      /\ \A i \in Events : i # next => rows'[i] = rows[i]
  BY <1>0, <1>1 DEF TypeOK
<1>3. rows'[next] > 0 /\ \A i \in Events : i # next => (Stored(i)' <=> Stored(i))
  BY <1>1, <1>2 DEF Stored
<1>4. \A i \in Events : Stored(i) => Stored(i)'
  BY <1>3 DEF Stored
<1>5. \A l \in Ledgers : Settled(l) => Settled(l)'
  BY <1>4, Order DEF Settled
<1>6. MissedOnlyAtCut'
  BY <1>5 DEF MissedOnlyAtCut, DaemonInv
<1>7. ASSUME NEW l \in WithRows', NEW k \in Ledgers, origin <= k, k < l
      PROVE  Settled(k)'
  <2>1. l \in Ledgers
    BY <1>7 DEF WithRows
  <2>2. CASE l \in WithRows
    BY <1>5, <1>7, <2>2 DEF NoHoles, DaemonInv
  <2>3. CASE l \notin WithRows
    <3>1. next \in In(l)
      <4>1. PICK i \in In(l) : Stored(i)'
        BY <1>7 DEF WithRows
      <4>2. i \in Events /\ ~Stored(i)
        BY <2>1, <2>3, Order DEF WithRows
      <4>3. QED
        BY <1>3, <4>1, <4>2
    <3>2. CASE k < cursor
      BY <1>5, <1>7, <3>2 DEF MissedOnlyAtCut, DaemonInv
    <3>3. CASE cursor <= k
      <4>1. ASSUME NEW i \in In(k)
            PROVE  Stored(i)'
        <5>1. i \in Events /\ EventsUpTo[cursor - 1] < i
          BY <1>0, <3>3, Order DEF Ledgers
        <5>2. i <= EventsUpTo[k] /\ EventsUpTo[k] < next
          BY <1>7, <2>1, <3>1, Order, Counts DEF Ledgers
        <5>3. i < next
          BY <1>0, <1>1, <5>1, <5>2, Counts DEF Events, Ledgers
        <5>4. Stored(i)
          BY <1>0, <5>1, <5>3 DEF Writing
        <5>5. QED
          BY <1>4, <5>1, <5>4
      <4>2. QED
        BY <4>1 DEF Settled
    <3>4. QED
      BY <1>0, <3>2, <3>3 DEF Ledgers
  <2>4. QED
    BY <2>2, <2>3
<1>8. NoHoles'
  BY <1>7 DEF NoHoles
<1>9. QED
  BY <1>1, <1>2, <1>3, <1>6, <1>8

LEMMA InsertEventKeeps ==
    ASSUME DaemonInv, InsertEvent
    PROVE  DaemonInv'
<1> USE DEF InsertEvent, observed, budget
<1>1. /\ MissedOnlyAtCut' /\ NoHoles' /\ rows' \in [Events -> Nat]
      /\ next \in Events /\ rows'[next] > 0 /\ next <= EventsUpTo[latest] /\ next <= EventsUpTo[tip]
      /\ \A i \in Events : i # next => (Stored(i)' <=> Stored(i))
  BY InsertKeeps
<1>2. TypeOK'
  BY <1>1 DEF DaemonInv, TypeOK
<1>3. Writing'
  <2>1. Writing /\ next \in Nat /\ end \in Nat /\ next' = next + 1 /\ end' = end
        /\ cursor - 1 \in 0..MaxLedger /\ EventsUpTo[cursor - 1] \in Nat
    BY Counts DEF DaemonInv, TypeOK
  <2>2. \A i \in Events : EventsUpTo[cursor - 1] < i /\ i < next + 1 => Stored(i)'
    BY <1>1, <2>1, Counts DEF Writing, Events, Stored
  <2>3. \A i \in Events : Stored(i)' => i <= EventsUpTo[latest]
    BY <1>1, <2>1 DEF Writing
  <2>4. QED
    BY <2>1, <2>2, <2>3 DEF Writing
<1>4. (\A i \in Events : Stored(i) => i <= EventsUpTo[tip])'
  BY <1>1 DEF DaemonInv
<1>5. QED
  BY <1>1, <1>2, <1>3, <1>4 DEF DaemonInv, Writing

\* A round that ends has inserted its page, and drops the rest up to the latest ledger it
\* was told of.
LEMMA EndRoundKeeps ==
    ASSUME DaemonInv, EndRound
    PROVE  DaemonInv'
<1>1. /\ pc' = "save" /\ cursor' = latest + 1 /\ dirty' = FALSE /\ dropped' = dropped \cup Rest
      /\ UNCHANGED <<tip, rows, saved, next, end, latest, shutdown, origin, cuts, failures, stops>>
  BY DEF EndRound, budget
<1>2. /\ latest \in 0..MaxLedger /\ cursor \in 0..(MaxLedger + 1) /\ 1 <= cursor /\ cursor <= latest
      /\ cursor - 1 \in 0..MaxLedger /\ EventsUpTo[cursor - 1] \in Nat /\ EventsUpTo[latest] \in Nat
      /\ EventsUpTo[latest] <= EventsUpTo[MaxLedger] /\ EventsUpTo[MaxLedger] \in Nat
      /\ next = end + 1 /\ end \in Nat /\ cursor' - 1 = latest
  BY <1>1, Counts DEF EndRound, DaemonInv, TypeOK, Writing
<1>4. TypeOK'
  <2>1. cursor' \in 0..(MaxLedger + 1)
    BY <1>1, <1>2, Counts
  <2>2. Rest \subseteq Events
    BY <1>2 DEF Rest, Events
  <2>3. dropped' \subseteq Events
    BY <1>1, <2>2 DEF DaemonInv, TypeOK
  <2>4. QED
    BY <1>1, <2>1, <2>3 DEF DaemonInv, TypeOK
<1>5. \A i \in Events : Stored(i)' <=> Stored(i)
  BY <1>1 DEF Stored
<1>6. \A l \in Ledgers : Settled(l) => Settled(l)'
  BY <1>1 DEF Settled, Stored
<1>7. Clean'
  <2>1. \A i \in Events : Stored(i) => i <= EventsUpTo[latest]
    BY DEF EndRound, DaemonInv, Writing
  <2>2. \A i \in Events : Stored(i)' => i <= EventsUpTo[cursor' - 1]
    BY <1>2, <1>5, <2>1
  <2>3. QED
    BY <2>2 DEF Clean
<1>8. MissedOnlyAtCut'
  <2>1. SUFFICES ASSUME NEW l \in Ledgers, origin <= l, l <= latest
                 PROVE  Settled(l)'
    BY <1>1, <1>2 DEF MissedOnlyAtCut, Ledgers
  <2>2. CASE l < cursor
    BY <1>6, <2>1, <2>2 DEF DaemonInv, MissedOnlyAtCut
  <2>3. CASE cursor <= l
    <3>1. ASSUME NEW i \in In(l), i \notin Rest
          PROVE  Stored(i)
      <4>1. i \in Events /\ EventsUpTo[cursor - 1] < i /\ i <= EventsUpTo[latest]
        BY <1>2, <2>1, <2>3, Order DEF Ledgers
      <4>2. i < next
        BY <1>2, <3>1, <4>1, Counts DEF Events, Rest
      <4>3. QED
        BY <4>1, <4>2 DEF EndRound, DaemonInv, Writing
    <3>2. \A i \in In(l) : Stored(i)' \/ i \in dropped'
      BY <1>1, <1>5, <3>1, Order
    <3>3. QED
      BY <3>2 DEF Settled
  <2>4. QED
    BY <1>2, <2>2, <2>3 DEF Ledgers
<1>9. NoHoles'
  <2>1. WithRows' = WithRows
    BY <1>1 DEF WithRows, Stored
  <2>2. QED
    BY <1>1, <1>6, <2>1 DEF DaemonInv, NoHoles
<1>10. (\A i \in Events : Stored(i) => i <= EventsUpTo[tip])' /\ (LOOKBACK < tip)' /\ 1 <= cursor'
  BY <1>1, <1>2, <1>5 DEF DaemonInv
<1>11. QED
  BY <1>1, <1>4, <1>7, <1>8, <1>9, <1>10 DEF DaemonInv

\* A failed round may have inserted one event more than the daemon knows.
LEMMA FailRoundKeeps ==
    ASSUME DaemonInv, FailRound
    PROVE  DaemonInv'
<1>0. /\ pc' = "sleep" /\ pc \in {"fetch", "write"} /\ failures' \in 0..MaxFailures
      /\ UNCHANGED <<tip, saved, cursor, next, end, latest, shutdown, origin, dirty, cuts, dropped, stops>>
  BY DaemonAssumption DEF FailRound, daemon, observed, DaemonInv, TypeOK
<1>1. CASE UNCHANGED rows
  <2>1. TypeOK'
    BY <1>0, <1>1 DEF DaemonInv, TypeOK
  <2>2. tip <= tip'
    BY <1>0 DEF DaemonInv, TypeOK, Ledgers
  <2>3. QED
    BY <1>0, <1>1, <2>1, <2>2, QuietKeeps
<1>2. CASE pc = "write" /\ next <= end /\ rows' = [rows EXCEPT ![next] = @ + 1]
  <2>1. /\ MissedOnlyAtCut' /\ NoHoles' /\ rows' \in [Events -> Nat] /\ next <= EventsUpTo[tip]
        /\ \A i \in Events : i # next => (Stored(i)' <=> Stored(i))
    BY <1>0, <1>2, InsertKeeps
  <2>2. TypeOK'
    BY <1>0, <2>1 DEF DaemonInv, TypeOK
  <2>3. dirty' /\ 1 <= cursor'
    BY <1>0, <1>2 DEF DaemonInv, Writing
  <2>4. (\A i \in Events : Stored(i) => i <= EventsUpTo[tip])' /\ (LOOKBACK < tip)'
    BY <1>0, <2>1 DEF DaemonInv
  <2>5. QED
    BY <1>0, <2>1, <2>2, <2>3, <2>4 DEF DaemonInv
<1>3. QED
  BY <1>1, <1>2 DEF FailRound

\* A process that ends leaves the highest ledger with rows complete, or cut.
LEMMA LeaveKeeps ==
    ASSUME DaemonInv, Leave, pc # "down", UNCHANGED failures, stops' \in 0..MaxStops
    PROVE  DaemonInv'
<1>1. /\ pc' = "down" /\ cuts \subseteq cuts' /\ cuts' = cuts \cup Half
      /\ UNCHANGED <<tip, rows, saved, cursor, next, end, latest, shutdown, origin, dirty, dropped>>
  BY DEF Leave, daemon
<1>2. TypeOK'
  <2>1. Half \subseteq Ledgers
    BY DEF Half, WithRows
  <2>2. cuts' \subseteq Ledgers
    BY <1>1, <2>1 DEF DaemonInv, TypeOK
  <2>3. QED
    BY <1>1, <2>2 DEF DaemonInv, TypeOK
<1>3. \A i \in Events : Stored(i)' <=> Stored(i)
  BY <1>1 DEF Stored
<1>4. \A l \in Ledgers : Settled(l) => Settled(l)'
  BY <1>1 DEF Settled, Stored
<1>5. WithRows' = WithRows /\ WithRows \subseteq Ledgers
  BY <1>1 DEF WithRows, Stored
<1>6. MissedOnlyAtCut' /\ NoHoles'
  BY <1>1, <1>4, <1>5 DEF DaemonInv, MissedOnlyAtCut, NoHoles
<1>7. ASSUME NEW l \in WithRows, \A k \in WithRows : k <= l, origin <= l
      PROVE  Settled(l)'
  <2>1. CASE dirty
    <3>1. l = maxLedger
      BY <1>5, <1>7, Highest DEF Ledgers
    <3>2. CASE \A i \in In(l) : Stored(i)
      BY <1>4, <1>5, <3>2 DEF Settled
    <3>3. CASE \E i \in In(l) : ~Stored(i)
      <4>1. l \in Half
        BY <2>1, <3>1, <3>3 DEF Half
      <4>2. QED
        BY <1>1, <4>1 DEF Settled
    <3>4. QED
      BY <3>2, <3>3
  <2>2. CASE ~dirty
    <3>1. PICK i \in In(l) : Stored(i)
      BY DEF WithRows
    <3>2. l \in Ledgers /\ i \in Events /\ 1 <= cursor /\ cursor \in 0..(MaxLedger + 1)
      BY <1>5, Order DEF DaemonInv, TypeOK
    <3>3. i <= EventsUpTo[cursor - 1] /\ cursor - 1 \in 0..MaxLedger /\ EventsUpTo[cursor - 1] \in Nat
      BY <2>2, <3>1, <3>2, Counts DEF DaemonInv, Clean
    <3>4. ~(cursor - 1 < l)
      <4>1. cursor - 1 < l => EventsUpTo[cursor - 1] < i
        BY <3>2, <3>3, Order
      <4>2. QED
        BY <3>2, <3>3, <4>1, Counts DEF Events
    <3>5. Settled(l)
      BY <1>7, <3>2, <3>4 DEF DaemonInv, MissedOnlyAtCut, Ledgers
    <3>6. QED
      BY <1>4, <3>2, <3>5
  <2>3. QED
    BY <2>1, <2>2
<1>8. Closed'
  BY <1>1, <1>5, <1>7 DEF Closed
<1>9. (\A i \in Events : Stored(i) => i <= EventsUpTo[tip])' /\ (LOOKBACK < tip)'
  BY <1>1, <1>3 DEF DaemonInv
<1>10. QED
  BY <1>1, <1>2, <1>6, <1>8, <1>9 DEF DaemonInv

\* Nothing is stored at or after the ledger a process resumes from.
LEMMA ResumesClean ==
    ASSUME DaemonInv, Resume
    PROVE  /\ \A i \in Events : i > EventsUpTo[cursor' - 1] => ~Stored(i)
           /\ cursor' \in 1..(MaxLedger + 1) /\ EventsUpTo[cursor' - 1] \in Nat
           /\ \/ /\ WithRows = {} /\ origin' = cursor'
              \/ /\ WithRows # {} /\ cursor' = maxLedger + 1 /\ origin' = origin
<1>1. CASE WithRows = {}
  <2>1. maxLedger = 0 /\ \A i \in Events : ~Stored(i)
    BY <1>1, Highest, EventHasLedger DEF WithRows
  <2>2. origin' = cursor' /\ cursor' = IF START_LEDGER > 0 THEN START_LEDGER ELSE tip - LOOKBACK
    BY <2>1 DEF Resume
  <2>3. cursor' \in 1..(MaxLedger + 1)
    BY <2>2, DaemonAssumption DEF DaemonInv, TypeOK, Ledgers
  <2>4. cursor' - 1 \in 0..MaxLedger
    <3>1. \A c \in 1..(MaxLedger + 1) : c - 1 \in 0..MaxLedger
      BY Counts
    <3>2. QED
      BY <2>3, <3>1, Zenon
  <2>5. QED
    BY <1>1, <2>1, <2>2, <2>3, <2>4, Counts
<1>2. CASE WithRows # {}
  <2>1. maxLedger \in Ledgers /\ \A k \in WithRows : k <= maxLedger
    BY <1>2, Highest
  <2>2. cursor' = maxLedger + 1 /\ origin' = origin
    BY <2>1 DEF Resume, Ledgers
  <2>3. cursor' \in 1..(MaxLedger + 1) /\ cursor' - 1 = maxLedger /\ maxLedger \in 0..MaxLedger
    BY <2>1, <2>2, Counts DEF Ledgers
  <2>4. ASSUME NEW i \in Events, Stored(i)
        PROVE  i <= EventsUpTo[maxLedger]
    <3>1. PICK l \in Ledgers : i \in In(l)
      BY EventHasLedger
    <3>2. l <= maxLedger
      BY <2>1, <2>4, <3>1 DEF WithRows
    <3>3. QED
      BY <2>3, <3>1, <3>2, Order
  <2>5. EventsUpTo[maxLedger] \in Nat
    BY <2>3, Counts
  <2>6. \A i \in Events : i > EventsUpTo[cursor' - 1] => ~Stored(i)
    <3>1. \A i \in Events : i \in Nat
      BY Counts DEF Events
    <3>2. \A i \in Events : Stored(i) => ~(i > EventsUpTo[maxLedger])
      BY <2>4, <2>5, <3>1
    <3>3. QED
      BY <2>3, <3>2
  <2>7. QED
    BY <1>2, <2>2, <2>3, <2>5, <2>6
<1>3. QED
  BY <1>1, <1>2

LEMMA ResumeKeeps ==
    ASSUME DaemonInv, Resume
    PROVE  DaemonInv'
<1>1. /\ pc = "down" /\ pc' = "fetch" /\ dirty' = FALSE /\ shutdown' = FALSE
      /\ UNCHANGED <<tip, rows, saved, next, end, latest, cuts, dropped, failures, stops>>
  BY DEF Resume, budget
<1>2. /\ \A i \in Events : i > EventsUpTo[cursor' - 1] => ~Stored(i)
      /\ cursor' \in 1..(MaxLedger + 1) /\ EventsUpTo[cursor' - 1] \in Nat
      /\ \/ /\ WithRows = {} /\ origin' = cursor'
         \/ /\ WithRows # {} /\ cursor' = maxLedger + 1 /\ origin' = origin
  BY ResumesClean
<1>3. TypeOK'
  <2>1. cursor' \in 0..(MaxLedger + 1) /\ origin' \in 1..(MaxLedger + 1)
    BY <1>2, Counts DEF DaemonInv, TypeOK
  <2>2. QED
    BY <1>1, <2>1 DEF DaemonInv, TypeOK
<1>4. \A i \in Events : Stored(i)' <=> Stored(i)
  BY <1>1 DEF Stored
<1>5. Clean'
  BY <1>2, <1>4, Counts DEF Clean, Events
<1>6. \A l \in Ledgers : Settled(l)' <=> Settled(l)
  BY <1>1 DEF Settled, Stored
<1>7. WithRows' = WithRows
  BY <1>1 DEF WithRows, Stored
<1>8. MissedOnlyAtCut' /\ NoHoles'
  <2>1. CASE WithRows = {} /\ origin' = cursor'
    BY <1>2, <1>7, <2>1 DEF MissedOnlyAtCut, NoHoles, Ledgers
  <2>2. CASE WithRows # {} /\ cursor' = maxLedger + 1 /\ origin' = origin
    <3>1. maxLedger \in WithRows /\ maxLedger \in Ledgers /\ \A k \in WithRows : k <= maxLedger
      BY <2>2, Highest
    <3>2. ASSUME NEW l \in Ledgers, origin <= l, l < maxLedger + 1
          PROVE  Settled(l)
      <4>1. CASE l = maxLedger
        BY <1>1, <3>1, <3>2, <4>1 DEF DaemonInv, Closed
      <4>2. CASE l < maxLedger
        BY <3>1, <3>2, <4>2 DEF DaemonInv, NoHoles
      <4>3. QED
        BY <3>1, <3>2, <4>1, <4>2 DEF Ledgers
    <3>3. MissedOnlyAtCut'
      BY <1>6, <2>2, <3>2 DEF MissedOnlyAtCut
    <3>4. NoHoles'
      BY <1>6, <1>7, <2>2 DEF DaemonInv, NoHoles
    <3>5. QED
      BY <3>3, <3>4
  <2>3. QED
    BY <1>2, <2>1, <2>2
<1>9. (\A i \in Events : Stored(i) => i <= EventsUpTo[tip])' /\ (LOOKBACK < tip)' /\ 1 <= cursor'
  BY <1>1, <1>2, <1>4 DEF DaemonInv
<1>10. QED
  BY <1>1, <1>3, <1>5, <1>8, <1>9 DEF DaemonInv

LEMMA QuietSteps ==
    ASSUME DaemonInv, CloseLedger \/ FetchRefused \/ SaveCursor \/ NextRound \/ Signal
    PROVE  DaemonInv'
<1>1. /\ UNCHANGED <<rows, cursor, origin, cuts, dropped, dirty, next, end, latest>>
      /\ pc' = "write" => pc = "write" 
      /\ pc' = "down" <=> pc = "down"
  BY DEF CloseLedger, FetchRefused, SaveCursor, NextRound, Signal, daemon, observed, budget
<1>2. tip' \in Ledgers /\ tip <= tip'
  BY Counts DEF CloseLedger, FetchRefused, SaveCursor, NextRound, Signal, DaemonInv, TypeOK, Ledgers
<1>3. saved' \in 0..(MaxLedger + 1) /\ failures' \in 0..MaxFailures /\ stops' \in 0..MaxStops
  BY DaemonAssumption DEF CloseLedger, FetchRefused, SaveCursor, NextRound, Signal, budget, DaemonInv, TypeOK
<1>4. shutdown' \in BOOLEAN /\ pc' \in {"down", "fetch", "write", "save", "sleep"}
  BY Zenon DEF CloseLedger, FetchRefused, SaveCursor, NextRound, Signal, DaemonInv, TypeOK
<1>5. TypeOK'
  BY <1>1, <1>2, <1>3, <1>4 DEF DaemonInv, TypeOK
<1>6. QED
  BY <1>1, <1>2, <1>5, QuietKeeps

LEMMA DaemonNext ==
    ASSUME DaemonInv, [Next]_vars
    PROVE  DaemonInv'
<1>1. CASE Resume
  BY <1>1, ResumeKeeps
<1>2. CASE CloseLedger \/ FetchRefused \/ SaveCursor \/ NextRound \/ Signal
  BY <1>2, QuietSteps
<1>3. CASE FetchPage
  BY <1>3, FetchKeeps
<1>4. CASE InsertEvent
  BY <1>4, InsertEventKeeps
<1>5. CASE EndRound
  BY <1>5, EndRoundKeeps
<1>6. CASE FailRound
  BY <1>6, FailRoundKeeps
<1>7. CASE Exit \/ Crash
  <2>1. Leave /\ pc # "down" /\ UNCHANGED failures /\ stops' \in 0..MaxStops
    BY <1>7, DaemonAssumption DEF Exit, Crash, budget, DaemonInv, TypeOK
  <2>2. QED
    BY <2>1, LeaveKeeps
<1>8. CASE UNCHANGED vars
  <2>1. UNCHANGED <<tip, rows, saved, pc, cursor, next, end, latest, shutdown, origin, dirty, cuts, dropped, failures, stops>>
    BY <1>8 DEF vars, daemon, observed, budget
  <2>2. TypeOK' /\ tip <= tip'
    BY <2>1 DEF DaemonInv, TypeOK, Ledgers
  <2>3. QED
    BY <2>1, <2>2, QuietKeeps
<1>9. QED
  BY <1>1, <1>2, <1>3, <1>4, <1>5, <1>6, <1>7, <1>8 DEF Next, Loop

LEMMA DaemonCorrect == Spec => []DaemonInv
<1>1. Init => DaemonInv
  BY DaemonInit
<1>2. DaemonInv /\ [Next]_vars => DaemonInv'
  BY DaemonNext
<1>3. QED
  BY <1>1, <1>2, PTL DEF Spec

\* For every history of the network the cursor and the page stay within it.
THEOREM TypeCorrect == Spec => []TypeOK
<1>1. DaemonInv => TypeOK
  BY DEF DaemonInv
<1>2. QED
  BY <1>1, DaemonCorrect, PTL

\* Whatever the page size, the failures and the restarts: what the cursor of the daemon
\* has passed is in the table, save for the ledgers a process left half inserted and the
\* events a full page left out.
THEOREM NothingMissedButCuts == Spec => []MissedOnlyAtCut
<1>1. DaemonInv => MissedOnlyAtCut
  BY DEF DaemonInv
<1>2. QED
  BY <1>1, DaemonCorrect, PTL

\* Whatever the page size, the failures and the restarts: the table has no hole below the
\* ledger run() resumes after, save for the cuts and what full pages left out.
THEOREM TableHasNoHoles == Spec => []NoHoles
<1>1. DaemonInv => NoHoles
  BY DEF DaemonInv
<1>2. QED
  BY <1>1, DaemonCorrect, PTL

----------------------------------------------------------------------------
(* Repetitions. *)

\* Events that the round at hand has still to insert have a row per failed round at most.
RepeatInv ==
    /\ RepeatedOnlyByRetry
    /\ pc \in {"fetch", "save", "sleep"} => \A i \in Events : i > EventsUpTo[cursor - 1] => rows[i] <= failures
    /\ pc = "write" => \A i \in Events : i >= next => rows[i] <= failures

LEMMA RepeatNext ==
    ASSUME DaemonInv, DaemonInv', RepeatInv, [Next]_vars
    PROVE  RepeatInv'
<1>0. /\ failures \in Nat /\ rows \in [Events -> Nat] /\ EventsUpTo[MaxLedger] \in Nat
      /\ \A i \in Events : rows[i] \in Nat /\ i \in Nat /\ rows[i] <= 1 + failures
  <2>1. EventsUpTo[MaxLedger] \in Nat /\ \A i \in Events : i \in Nat
    BY Counts DEF Events
  <2>2. failures \in Nat /\ rows \in [Events -> Nat]
    BY DaemonAssumption DEF DaemonInv, TypeOK
  <2>3. \A i \in Events : rows[i] \in Nat /\ rows[i] <= 1 + failures
    BY <2>2 DEF RepeatInv, RepeatedOnlyByRetry
  <2>4. QED
    BY <2>1, <2>2, <2>3
<1>1. CASE Resume
  <2>1. /\ UNCHANGED <<rows, failures>> /\ pc' = "fetch"
        /\ \A i \in Events : i > EventsUpTo[cursor' - 1] => ~Stored(i)
    BY <1>1, ResumesClean DEF Resume, budget
  <2>2. \A i \in Events : i > EventsUpTo[cursor' - 1] => rows[i] <= failures
    BY <1>0, <2>1 DEF Stored
  <2>3. QED
    BY <1>0, <2>1, <2>2 DEF RepeatInv, RepeatedOnlyByRetry
<1>2. CASE CloseLedger \/ FetchRefused \/ NextRound \/ Signal \/ Exit \/ Crash \/ UNCHANGED vars
  <2>1. /\ UNCHANGED <<rows, failures, cursor, next>>
        /\ pc' = pc \/ pc' = "down" \/ (pc' \in {"fetch", "sleep"} /\ pc \in {"fetch", "sleep"})
    BY <1>2 DEF CloseLedger, FetchRefused, NextRound, Signal, Exit, Crash, Leave, vars, daemon, observed, budget
  <2>2. QED
    BY <2>1 DEF RepeatInv, RepeatedOnlyByRetry
<1>3. CASE SaveCursor
  <2>1. /\ UNCHANGED <<rows, cursor>> /\ pc' = "sleep" /\ pc = "save"
        /\ failures' = failures \/ failures' = failures + 1
    BY <1>3 DEF SaveCursor, daemon
  <2>2. QED
    BY <1>0, <2>1 DEF RepeatInv, RepeatedOnlyByRetry
<1>4. CASE FetchPage
  <2>1. /\ UNCHANGED <<rows, failures>> /\ pc' = "write" /\ next' = EventsUpTo[cursor - 1] + 1 /\ pc = "fetch"
        /\ 1 <= cursor /\ cursor - 1 \in 0..MaxLedger /\ EventsUpTo[cursor - 1] \in Nat
    BY <1>4, Counts DEF FetchPage, budget, DaemonInv, TypeOK
  <2>2. QED
    BY <1>0, <2>1 DEF RepeatInv, RepeatedOnlyByRetry
<1>6. CASE InsertEvent
  <2>1. /\ UNCHANGED failures /\ pc' = "write" /\ pc = "write" /\ next' = next + 1 /\ next \in Nat
        /\ \A i \in Events : rows'[i] = IF i = next THEN rows[i] + 1 ELSE rows[i]
    BY <1>0, <1>6 DEF InsertEvent, budget, DaemonInv, TypeOK
  <2>2. QED
    BY <1>0, <2>1 DEF RepeatInv, RepeatedOnlyByRetry
<1>7. CASE EndRound
  <2>1. /\ UNCHANGED <<rows, failures>> /\ pc' = "save" /\ pc = "write" /\ cursor' = latest + 1
        /\ next = end + 1 /\ end \in Nat /\ latest \in 0..MaxLedger /\ EventsUpTo[latest] \in Nat
    BY <1>7, Counts DEF EndRound, budget, DaemonInv, Writing, TypeOK
  <2>2. end <= EventsUpTo[latest]
    BY <1>7 DEF EndRound, DaemonInv, Writing
  <2>3. cursor' - 1 = latest
    BY <2>1, Counts
  <2>4. \A i \in Events : i > EventsUpTo[cursor' - 1] => i >= next
    BY <1>0, <2>1, <2>2, <2>3
  <2>5. QED
    BY <2>1, <2>4 DEF RepeatInv, RepeatedOnlyByRetry
<1>8. CASE FailRound
  <2>1. /\ failures' = failures + 1 /\ pc' = "sleep"
        /\ rows' = rows \/ (pc = "write" /\ rows' = [rows EXCEPT ![next] = @ + 1])
    BY <1>8 DEF FailRound
  <2>2. \A i \in Events : rows'[i] <= 1 + failures
    <3>1. CASE rows' = rows
      BY <1>0, <3>1
    <3>2. CASE pc = "write" /\ rows' = [rows EXCEPT ![next] = @ + 1]
      <4>1. next \in Events => rows[next] <= failures
        BY <1>0, <3>2 DEF RepeatInv
      <4>2. \A i \in Events : rows'[i] = IF i = next THEN rows[i] + 1 ELSE rows[i]
        BY <1>0, <3>2
      <4>3. QED
        BY <1>0, <4>1, <4>2
    <3>3. QED
      BY <2>1, <3>1, <3>2
  <2>3. \A i \in Events : rows'[i] \in Nat
    BY DEF DaemonInv, TypeOK
  <2>4. QED
    BY <1>0, <2>1, <2>2, <2>3 DEF RepeatInv, RepeatedOnlyByRetry
<1>9. QED
  BY <1>1, <1>2, <1>3, <1>4, <1>6, <1>7, <1>8 DEF Next, Loop

\* Whatever happens, an event has at most one row and one for every failed round.
THEOREM RepeatsCounted == Spec => []RepeatedOnlyByRetry
<1>1. Init => RepeatInv
  BY DaemonAssumption DEF Init, RepeatInv, RepeatedOnlyByRetry
<1>2. DaemonInv /\ DaemonInv' /\ RepeatInv /\ [Next]_vars => RepeatInv'
  BY RepeatNext
<1>3. RepeatInv => RepeatedOnlyByRetry
  BY DEF RepeatInv
<1>4. QED
  BY <1>1, <1>2, <1>3, DaemonCorrect, PTL DEF Spec

\* The cursor goes back only at a restart, and never behind an event that has a row.
THEOREM RestartKeepsRows == Spec => RestartsBehind
<1>1. ASSUME DaemonInv, [Next]_vars
      PROVE  [cursor' < cursor => pc = "down" /\ \A i \in Events : i > EventsUpTo[cursor' - 1] => ~Stored(i)]_vars
  <2>1. CASE Resume
    BY <1>1, <2>1, ResumesClean DEF Resume
  <2>2. CASE EndRound
    <3>1. cursor' = latest + 1 /\ latest \in Nat /\ cursor \in Nat /\ cursor <= latest
      BY <1>1, <2>2 DEF EndRound, DaemonInv, TypeOK, Writing
    <3>2. QED
      BY <3>1
  <2>3. CASE UNCHANGED cursor
    <3>1. ~(cursor' < cursor)
      BY <1>1, <2>3 DEF DaemonInv, TypeOK
    <3>2. QED
      BY <3>1
  <2>4. QED
    BY <1>1, <2>1, <2>2, <2>3 DEF Next, Loop, CloseLedger, FetchRefused, FetchPage, InsertEvent,
       SaveCursor, NextRound, Exit, FailRound, Signal, Crash, Leave, daemon, vars
<1>2. QED
  BY <1>1, DaemonCorrect, PTL DEF Spec, RestartsBehind
=============================================================================
