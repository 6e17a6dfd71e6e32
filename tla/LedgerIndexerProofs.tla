------------------------ MODULE LedgerIndexerProofs ------------------------
(***************************************************************************)
(* Proofs about LedgerIndexer, for every number of ledgers, workers, calls *)
(* in flight, failures and crashes; and, at the end, about Archiver, which *)
(* empties a column of the rows that the indexer stores.                   *)
(***************************************************************************)
EXTENDS LedgerIndexer, Archiver, FiniteSetTheorems, WellFoundedInduction, TLAPS

----------------------------------------------------------------------------
(* chunkRange. *)

\* Past the gap test of syncToLatest the backlog is exactly one ledger: its
\* second catchUp branch (indexer.ts:516) is dead and `end' is the target.
LEMMA LiveTailIsOneLedger ==
    ASSUME NEW last \in Nat, NEW target \in Nat,
           ~(last >= target), ~(last < target - 1)
    PROVE  /\ ~(target - last > BATCH)
           /\ last + BATCH >= target
BY LedgerAssumption

\* The chunk size is positive and n chunks of it cover the range.
LEMMA ChunkSizeType ==
    ASSUME NEW from \in Nat, NEW to \in Nat, NEW n \in Nat \ {0}, from <= to
    PROVE  chunkSize(from, to, n) \in Nat \ {0}
BY SMTT(30) DEF chunkSize

\* Every chunk lies in the range it was cut from.
LEMMA ChunksInRange ==
    ASSUME NEW from \in Nat, NEW to \in Nat, from <= to,
           NEW c \in Chunks(from, to)
    PROVE  /\ c[1] \in Nat /\ c[2] \in Nat
           /\ from <= c[1] /\ c[1] <= c[2] /\ c[2] <= to
<1>1. chunkSize(from, to, WORKERS) \in Nat \ {0}
  BY ChunkSizeType, LedgerAssumption
<1>2. CASE c \in chunkRange(from, to, WORKERS)
  BY <1>1, <1>2 DEF chunkRange, chunkEnd
<1>3. CASE c = <<from, to>>
  BY <1>3
<1>4. QED
  BY <1>2, <1>3 DEF Chunks

\* Every ledger of the range lies in some chunk.
LEMMA ChunksCover ==
    ASSUME NEW from \in Nat, NEW to \in Nat, from <= to,
           NEW s \in from..to
    PROVE  \E c \in Chunks(from, to) : c[1] <= s /\ s <= c[2]
<1> DEFINE size == chunkSize(from, to, WORKERS)
<1>1. size \in Nat \ {0}
  BY ChunkSizeType, LedgerAssumption
<1>2. CASE to - from >= BATCH /\ WORKERS > 1
  <2> DEFINE k == (s - from) \div size
             t == from + k * size
  <2> HIDE DEF size
  <2>1. k \in Nat /\ k * size <= s - from /\ s - from < k * size + size /\ k * size \in Nat
    BY <1>1
  <2>2. k <= s - from
    BY <1>1, <2>1
  <2>3. t \in from..to /\ t <= s /\ s <= t + size - 1 /\ k \in 0..(to - from)
    BY <2>1, <2>2, <1>1
  <2>4. <<t, chunkEnd(t, to, size)>> \in Chunks(from, to)
    BY <1>2, <2>3 DEF Chunks, chunkRange, size
  <2>5. s <= chunkEnd(t, to, size)
    BY <2>3, <1>1 DEF chunkEnd
  <2>6. QED
    BY <2>3, <2>4, <2>5
<1>3. CASE ~(to - from >= BATCH /\ WORKERS > 1)
  <2>1. Chunks(from, to) = {<<from, to>>}
    BY <1>3 DEF Chunks
  <2>2. from <= s /\ s <= to
    OBVIOUS
  <2>3. QED
    BY <2>1, <2>2
<1>4. QED
  BY <1>2, <1>3

----------------------------------------------------------------------------
(***************************************************************************)
(* The type invariant. The cursor stays at or above StartLedger because a  *)
(* rollback only ever hits a stored ledger, a stored ledger was in a range *)
(* and ranges start above the cursor: these bounds make it inductive.      *)
(***************************************************************************)
RangeOK(r) ==
    /\ r \in Ranges
    /\ r.pc # "free" => StartLedger < r.from /\ r.from <= r.seq /\ r.seq <= r.to
    /\ r.pc \in {"reorg", "rollback", "rewind"} => StartLedger < r.seq - 1

SyncOK ==
    /\ sync.pc # "idle" => StartLedger < sync.target
    /\ sync.pc \in {"gap", "ranges", "resolve"} =>
          StartLedger < sync.from /\ sync.from <= sync.to /\ sync.to <= sync.target

BoundsInv ==
    /\ TypeOK
    /\ \A t \in notices : StartLedger < t
    /\ \A s \in Seqs : ledger[s] # NoRow => StartLedger < s
    /\ SyncOK
    /\ \A w \in Slots : RangeOK(range[w])

\* A slot without a call is well formed.
LEMMA NoRangeOK == RangeOK(NoRange)
BY LedgerAssumption DEF RangeOK, Ranges, RangePcs, NoRange, Hashes, EventIds

\* So is a worker without a sync.
LEMMA IdleSyncType == IdleSync \in Syncs
BY LedgerAssumption DEF IdleSync, SyncAt, Syncs

\* The range of a new call.
LEMMA NewRangeOK ==
    ASSUME NEW c, c[1] \in Nat, c[2] \in Nat, StartLedger < c[1], c[1] <= c[2], c[2] <= MaxLedger
    PROVE  RangeOK(NewRange(c))
<1>2. c[1] \in 0..MaxLedger /\ c[2] \in 0..MaxLedger /\ 0 \in Hashes
  BY LedgerAssumption DEF Hashes
<1>3. NewRange(c) \in Ranges
  BY <1>2 DEF NewRange, Ranges, RangePcs
<1>4. QED
  BY <1>3 DEF NewRange, RangeOK

\* A call that is no longer awaited.
LEMMA OrphanOK ==
    ASSUME NEW r, RangeOK(r)
    PROVE  RangeOK(Orphan(r))
<1>1. CASE r.pc = "done"
  BY <1>1, NoRangeOK DEF Orphan
<1>2. CASE r.pc # "done"
  BY <1>2 DEF Orphan, RangeOK, Ranges
<1>3. QED
  BY <1>1, <1>2

\* The loop of phase 1 goes on to the next ledger of the range.
LEMMA NextLedgerOK ==
    ASSUME NEW r, RangeOK(r), r.pc # "free", r.seq < r.to
    PROVE  RangeOK([r EXCEPT !.pc = "meta", !.seq = r.seq + 1, !.hash = 0, !.prev = 0])
<1> DEFINE n == [r EXCEPT !.pc = "meta", !.seq = r.seq + 1, !.hash = 0, !.prev = 0]
<1>1. /\ r \in Ranges /\ 0 \in Hashes
      /\ StartLedger < r.from /\ r.from <= r.seq
      /\ r.from \in 0..MaxLedger /\ r.seq \in 0..MaxLedger /\ r.to \in 0..MaxLedger
  BY LedgerAssumption DEF RangeOK, Ranges, Hashes
<1>2. r.seq + 1 \in 0..MaxLedger /\ r.from <= r.seq + 1 /\ r.seq + 1 <= r.to
  BY <1>1, LedgerAssumption
<1>3. n \in Ranges
  BY <1>1, <1>2 DEF Ranges, RangePcs
<1>4. n.pc = "meta" /\ n.seq = r.seq + 1 /\ n.from = r.from /\ n.to = r.to
  BY <1>1 DEF Ranges
<1> HIDE DEF n
<1>5. RangeOK(n)
  BY <1>1, <1>2, <1>3, <1>4 DEF RangeOK
<1>6. QED
  BY <1>5 DEF n

\* One slot changes, to a good range.
LEMMA GotoOK ==
    ASSUME \A x \in Slots : RangeOK(range[x]), range \in [Slots -> Ranges],
           NEW w \in Slots, NEW r, RangeOK(r), Goto(w, r)
    PROVE  /\ range' \in [Slots -> Ranges]
           /\ \A x \in Slots : RangeOK(range'[x])
<1>1. r \in Ranges
  BY DEF RangeOK
<1>2. \A x \in Slots : range'[x] = IF x = w THEN r ELSE range[x]
  BY DEF Goto
<1>3. range' \in [Slots -> Ranges]
  BY <1>1 DEF Goto
<1>4. QED
  BY <1>2, <1>3

\* A call that returns, or frees its slot, leaves good ranges.
LEMMA ReturnOK ==
    ASSUME BoundsInv, NEW w \in Slots, range[w].pc # "free", Return(w)
    PROVE  /\ range' \in [Slots -> Ranges]
           /\ \A x \in Slots : RangeOK(range'[x])
<1>1. RangeOK([range[w] EXCEPT !.pc = "done"])
  BY DEF BoundsInv, RangeOK, Ranges, RangePcs
<1>2. RangeOK(IF range[w].live THEN [range[w] EXCEPT !.pc = "done"] ELSE NoRange)
  BY <1>1, NoRangeOK
<1>3. QED
  BY <1>2, GotoOK DEF Return, BoundsInv, TypeOK

\* So does a call that throws, and the sync it belonged to ends.
LEMMA ThrowOK ==
    ASSUME BoundsInv, NEW w \in Slots, Throw(w)
    PROVE  /\ range' \in [Slots -> Ranges]
           /\ \A x \in Slots : RangeOK(range'[x])
           /\ sync' \in Syncs /\ SyncOK'
<1>1. \A x \in Slots : RangeOK(range'[x])
  <2> TAKE x \in Slots
  <2>1. RangeOK(NoRange) /\ RangeOK(Orphan(range[x])) /\ RangeOK(range[x])
    BY NoRangeOK, OrphanOK DEF BoundsInv
  <2>2. \/ range'[x] = NoRange \/ range'[x] = Orphan(range[x]) \/ range'[x] = range[x]
    BY DEF Throw
  <2>3. QED
    BY <2>1, <2>2
<1>2. range' = [x \in Slots |-> range'[x]]
  BY DEF Throw
<1>3. range' \in [Slots -> Ranges]
  BY <1>1, <1>2 DEF RangeOK
<1>4. sync' \in Syncs /\ SyncOK'
  BY IdleSyncType DEF Throw, BoundsInv, TypeOK, SyncOK, IdleSync, SyncAt
<1>5. QED
  BY <1>1, <1>3, <1>4

\* catchUp starts its calls on the chunks (indexer.ts:246-252).
LEMMA StartRangesOK ==
    ASSUME BoundsInv, NEW chunks, StartRanges(chunks),
           \A c \in chunks : /\ c[1] \in Nat /\ c[2] \in Nat
                             /\ StartLedger < c[1] /\ c[1] <= c[2] /\ c[2] <= MaxLedger
    PROVE  /\ range' \in [Slots -> Ranges]
           /\ \A x \in Slots : RangeOK(range'[x])
<1>1. \A c \in chunks : RangeOK(NewRange(c))
  BY NewRangeOK
<1>2. PICK slot \in [chunks -> free] :
        range' = [w \in Slots |->
                        IF \E c \in chunks : slot[c] = w
                        THEN NewRange(CHOOSE c \in chunks : slot[c] = w)
                        ELSE range[w]]
  BY DEF StartRanges
<1>3. \A x \in Slots : RangeOK(range'[x])
  <2> TAKE x \in Slots
  <2>1. CASE \E c \in chunks : slot[c] = x
    BY <1>1, <1>2, <2>1
  <2>2. CASE ~\E c \in chunks : slot[c] = x
    BY <1>2, <2>2 DEF BoundsInv
  <2>3. QED
    BY <2>1, <2>2
<1>4. range' = [x \in Slots |-> range'[x]]
  BY <1>2
<1>5. QED
  BY <1>3, <1>4 DEF RangeOK

\* The state a worker starts from.
LEMMA BoundsInit == Init => BoundsInv
<1> SUFFICES ASSUME Init PROVE BoundsInv
  OBVIOUS
<1>1. \A w \in Slots : RangeOK(range[w])
  BY NoRangeOK DEF Init
<1>2. TypeOK
  <2>1. range \in [Slots -> Ranges]
    BY NoRangeOK DEF Init, RangeOK
  <2>2. QED
    BY <2>1, IdleSyncType, LedgerAssumption
    DEF Init, TypeOK, Hashes, Seqs
<1>3. QED
  BY <1>1, <1>2 DEF Init, BoundsInv, SyncOK, IdleSync, SyncAt

\* The tables, the counters and the network keep their types in every step.
LEMMA BoundsStep == BoundsInv /\ [Next]_vars => BoundsInv'
<1> SUFFICES ASSUME BoundsInv, [Next]_vars PROVE BoundsInv'
  OBVIOUS
<1> USE LedgerAssumption
<1>1. CASE CloseLedger
  BY <1>1 DEF CloseLedger, BoundsInv, TypeOK, SyncOK, Hashes, Seqs, tables, memory, budget, observed
<1>2. ASSUME NEW h \in 1..tip, Reorg(h) PROVE BoundsInv'
  <2>1. reorgs' \in 0..MaxReorgs /\ reorgs + 1 \in Hashes
    BY <1>2 DEF Reorg, BoundsInv, TypeOK, Hashes
  <2>2. chain' \in [0..MaxLedger -> Hashes]
    BY <1>2, <2>1 DEF Reorg, BoundsInv, TypeOK
  <2>3. QED
    BY <1>2, <2>1, <2>2 DEF Reorg, BoundsInv, TypeOK, SyncOK, tables, memory, observed
<1>3. CASE Poll
  <2>1. sync' \in Syncs /\ SyncOK'
    BY <1>3 DEF Poll, BeginSync, BoundsInv, TypeOK, SyncOK, Syncs, IdleSync, SyncAt
  <2>2. QED
    BY <1>3, <2>1 DEF Poll, BoundsInv, TypeOK, network, tables, budget, observed
<1>4. ASSUME NEW t \in notices, OnLedgerClose(t) PROVE BoundsInv'
  <2>1. sync' \in Syncs /\ SyncOK'
    BY <1>4 DEF OnLedgerClose, BeginSync, BoundsInv, TypeOK, SyncOK, Syncs, IdleSync, SyncAt, Seqs
  <2>2. QED
    BY <1>4, <2>1 DEF OnLedgerClose, BoundsInv, TypeOK, tables, budget, observed
<1>5. CASE ReadCursor
  <2>1. /\ range' \in [Slots -> Ranges]
        /\ \A x \in Slots : RangeOK(range'[x])
    <3>1. CASE UNCHANGED range
      BY <3>1 DEF BoundsInv, TypeOK
    <3>2. CASE StartRanges({<<sync.target, sync.target>>})
      <4>1. sync.target \in Nat /\ StartLedger < sync.target /\ sync.target <= MaxLedger
        BY <1>5 DEF ReadCursor, BoundsInv, TypeOK, SyncOK, Syncs
      <4>2. \A c \in {<<sync.target, sync.target>>} :
                /\ c[1] \in Nat /\ c[2] \in Nat
                /\ StartLedger < c[1] /\ c[1] <= c[2] /\ c[2] <= MaxLedger
        BY <4>1
      <4>3. QED
        BY <3>2, <4>2, StartRangesOK
    <3>3. QED
      BY <1>5, <3>1, <3>2 DEF ReadCursor
  <2>2. sync' \in Syncs /\ SyncOK'
    <3>1. CASE sync' = IdleSync
      BY <3>1, IdleSyncType DEF SyncOK, IdleSync, SyncAt
    <3>2. CASE /\ cursor < sync.target - 1
               /\ sync' = SyncAt("gap", sync.target, cursor + 1, sync.target - 1)
      <4>1. cursor + 1 \in 0..MaxLedger /\ sync.target - 1 \in 0..MaxLedger /\ sync.target \in 0..MaxLedger
            /\ StartLedger < cursor + 1 /\ cursor + 1 <= sync.target - 1 /\ StartLedger < sync.target
        <5>1. sync \in Syncs /\ cursor \in StartLedger..MaxLedger
          BY DEF BoundsInv, TypeOK
        <5>2. QED
          BY <3>2, <5>1 DEF Syncs
      <4>2. QED
        BY <3>2, <4>1 DEF SyncAt, Syncs, SyncOK
    <3>3. CASE sync' = SyncAt("ranges", sync.target, sync.target, sync.target)
      BY <1>5, <3>3 DEF ReadCursor, BoundsInv, TypeOK, SyncOK, Syncs, SyncAt
    <3>4. QED
      BY <1>5, <3>1, <3>2, <3>3 DEF ReadCursor
  <2>3. QED
    BY <1>5, <2>1, <2>2 DEF ReadCursor, BoundsInv, TypeOK, network, tables, budget, observed
<1>6. CASE RecordGap
  <2>1. sync.from \in Nat /\ sync.to \in Nat /\ StartLedger < sync.from
        /\ sync.from <= sync.to /\ sync.to <= MaxLedger
    BY <1>6 DEF RecordGap, BoundsInv, TypeOK, SyncOK, Syncs
  <2>2. \A c \in Chunks(sync.from, sync.to) :
            /\ c[1] \in Nat /\ c[2] \in Nat
            /\ StartLedger < c[1] /\ c[1] <= c[2] /\ c[2] <= MaxLedger
    BY <2>1, ChunksInRange
  <2>3. /\ range' \in [Slots -> Ranges]
        /\ \A x \in Slots : RangeOK(range'[x])
    BY <1>6, <2>2, StartRangesOK DEF RecordGap
  <2>4. sync' \in Syncs /\ SyncOK' /\ gaps' \subseteq Gaps
    <3>1. gaps' \subseteq Gaps
      <4>1. sync.from \in Seqs /\ sync.to \in Seqs
        BY <2>1 DEF Seqs
      <4>2. [start |-> sync.from, end |-> sync.to, resolved |-> FALSE] \in Gaps
        BY <4>1 DEF Gaps
      <4>3. QED
        BY <1>6, <4>2 DEF RecordGap, BoundsInv, TypeOK
    <3>2. sync.to <= sync.target /\ StartLedger < sync.target /\ sync.target \in 0..MaxLedger
      BY <1>6 DEF RecordGap, BoundsInv, TypeOK, SyncOK, Syncs
    <3>3. QED
      BY <1>6, <2>1, <3>1, <3>2 DEF RecordGap, SyncAt, SyncOK, Syncs
  <2>5. QED
    BY <1>6, <2>3, <2>4 DEF RecordGap, BoundsInv, TypeOK, network, budget, observed
<1>7. CASE Advance
  <2>1. \A x \in Slots : RangeOK(range'[x])
    BY <1>7, NoRangeOK DEF Advance, BoundsInv
  <2>2. range' \in [Slots -> Ranges]
    BY <1>7, <2>1 DEF Advance, RangeOK
  <2>3. sync' \in Syncs /\ SyncOK' /\ cursor' \in StartLedger..MaxLedger
    BY <1>7 DEF Advance, AllDone, NextRound, IdleSync, SyncAt, BoundsInv, TypeOK, SyncOK, Syncs
  <2>4. QED
    BY <1>7, <2>1, <2>2, <2>3 DEF Advance, BoundsInv, TypeOK, network, tables, budget, observed
<1>8. CASE ResolveGap
  <2>1. sync' \in Syncs /\ SyncOK'
    BY <1>8 DEF ResolveGap, NextRound, IdleSync, SyncAt, BoundsInv, TypeOK, SyncOK, Syncs
  <2>2. gaps' \subseteq Gaps
    BY <1>8 DEF ResolveGap, BoundsInv, TypeOK, Gaps
  <2>3. QED
    BY <1>8, <2>1, <2>2 DEF ResolveGap, BoundsInv, TypeOK, network, budget, observed
<1>9. ASSUME NEW w \in Slots, RangeStep(w) PROVE BoundsInv'
  <2> USE DEF BoundsInv, TypeOK
  <2>0. RangeOK(range[w]) /\ range[w] \in Ranges
    BY DEF RangeOK
  <2>1. CASE FetchMeta(w)
    <3>1. range[w].seq \in 1..MaxLedger
      BY <2>0, <2>1 DEF FetchMeta, RangeOK, Ranges
    <3>2. chain[range[w].seq] \in Hashes /\ chain[range[w].seq - 1] \in Hashes
      BY <3>1
    <3>3. RangeOK([range[w] EXCEPT !.pc = "check", !.hash = chain[range[w].seq],
                                   !.prev = chain[range[w].seq - 1]])
      BY <2>0, <2>1, <3>2 DEF FetchMeta, RangeOK, Ranges, RangePcs
    <3>4. QED
      BY <2>1, <3>3, GotoOK DEF FetchMeta, SyncOK, network, tables, budget, observed
  <2>2. CASE CheckPrev(w)
    <3> DEFINE prevLedger == PrevRow(range[w].seq)
    <3>1. RangeOK([range[w] EXCEPT !.pc = "save"])
      BY <2>0, <2>2 DEF CheckPrev, RangeOK, Ranges, RangePcs
    <3>2. ASSUME prevLedger # NoRow
          PROVE  RangeOK([range[w] EXCEPT !.pc = "reorg", !.expected = prevLedger.hash])
      <4>1. range[w].seq - 1 \in Seqs /\ prevLedger = ledger[range[w].seq - 1]
        BY <3>2 DEF PrevRow
      <4>2. prevLedger.hash \in Hashes /\ StartLedger < range[w].seq - 1
        BY <3>2, <4>1 DEF Rows
      <4>3. QED
        BY <2>0, <2>2, <4>2 DEF CheckPrev, RangeOK, Ranges, RangePcs
    <3>3. PICK r : RangeOK(r) /\ Goto(w, r)
      BY <2>2, <3>1, <3>2 DEF CheckPrev
    <3>4. QED
      BY <2>2, <3>3, GotoOK DEF CheckPrev, SyncOK, network, tables, budget, observed
  <2>3. CASE RecordReorg(w)
    <3>1. RangeOK([range[w] EXCEPT !.pc = "rollback"])
      BY <2>0, <2>3 DEF RecordReorg, RangeOK, Ranges, RangePcs
    <3>2. reorgEvents' \subseteq ReorgRows
      BY <2>0, <2>3 DEF RecordReorg, RangeOK, Ranges, ReorgRows, Seqs
    <3>3. QED
      BY <2>3, <3>1, <3>2, GotoOK DEF RecordReorg, SyncOK, network, budget, observed
  <2>4. CASE Rollback(w)
    <3>1. RangeOK([range[w] EXCEPT !.pc = "rewind"])
      BY <2>0, <2>4 DEF Rollback, RangeOK, Ranges, RangePcs
    <3>2. /\ ledger' \in [Seqs -> Rows \cup {NoRow}]
          /\ \A s \in Seqs : ledger'[s] # NoRow => StartLedger < s
      BY <2>4 DEF Rollback
    <3>3. QED
      BY <2>4, <3>1, <3>2, GotoOK DEF Rollback, SyncOK, network, budget, observed
  <2>5. CASE Rewind(w)
    <3>1. cursor' \in StartLedger..MaxLedger
      <4>1. cursor' = range[w].seq - 2 /\ range[w].pc = "rewind"
        BY <2>5 DEF Rewind
      <4>2. range[w].seq \in 0..MaxLedger /\ StartLedger < range[w].seq - 1
        BY <2>0, <4>1 DEF RangeOK, Ranges
      <4>3. MaxLedger \in Nat /\ StartLedger \in Nat
        BY LedgerAssumption
      <4> HIDE DEF BoundsInv, TypeOK
      <4>4. QED
        BY <4>1, <4>2, <4>3
    <3>2. QED
      BY <2>5, <3>1, ThrowOK DEF Rewind, network, tables, budget, observed
  <2>6. CASE SaveLedger(w)
    <3> DEFINE next == [range[w] EXCEPT !.pc = "meta", !.seq = range[w].seq + 1, !.hash = 0, !.prev = 0]
               last == [range[w] EXCEPT !.pc = "events", !.hash = 0, !.prev = 0]
    <3>1. 0 \in Hashes
      BY DEF Hashes
    <3>2. RangeOK(last)
      BY <2>0, <2>6, <3>1 DEF SaveLedger, RangeOK, Ranges, RangePcs
    <3>3. range[w].seq < range[w].to => RangeOK(next)
      BY <2>0, <2>6, NextLedgerOK DEF SaveLedger
    <3>4. RangeOK(IF range[w].seq < range[w].to THEN next ELSE last)
      BY <3>2, <3>3
    <3>5. /\ range[w].seq \in Seqs /\ StartLedger < range[w].seq
          /\ [hash |-> range[w].hash, prev |-> range[w].prev] \in Rows
      BY <2>0, <2>6 DEF SaveLedger, RangeOK, Ranges, Rows, Seqs
    <3>6. /\ ledger' \in [Seqs -> Rows \cup {NoRow}]
          /\ \A s \in Seqs : ledger'[s] # NoRow => StartLedger < s
      BY <2>6, <3>5 DEF SaveLedger
    <3>7. QED
      BY <2>6, <3>4, <3>6, GotoOK DEF SaveLedger, SyncOK, network, budget, observed
  <2>7. CASE FetchEvents(w)
    <3> DEFINE inRange == EventsIn(range[w].from, range[w].to)
               page == {s \in inRange : Cardinality(EventsIn(range[w].from, s)) <= EVENT_PAGE}
               found == {[seq |-> s, ver |-> chain[s]] : s \in page}
    <3>1. found \subseteq EventIds /\ inRange \subseteq EventLedgers
      <4>1. inRange \subseteq EventLedgers /\ page \subseteq inRange
        BY DEF EventsIn
      <4>2. \A s \in EventLedgers : chain[s] \in Hashes
        OBVIOUS
      <4> HIDE DEF page, inRange
      <4>3. QED
        BY <4>1, <4>2 DEF EventIds
    <3>2. unread' \subseteq EventLedgers
      BY <2>7, <3>1 DEF FetchEvents
    <3> HIDE DEF page
    <3>3. RangeOK([range[w] EXCEPT !.pc = "tx", !.todo = found])
      BY <2>0, <2>7, <3>1 DEF FetchEvents, RangeOK, Ranges, RangePcs
    <3>4. /\ range' \in [Slots -> Ranges]
          /\ \A x \in Slots : RangeOK(range'[x])
      <4>1. CASE Return(w)
        BY <2>7, <4>1, ReturnOK DEF FetchEvents
      <4>2. CASE Goto(w, [range[w] EXCEPT !.pc = "tx", !.todo = found])
        BY <3>3, <4>2, GotoOK
      <4>3. QED
        BY <2>7, <4>1, <4>2 DEF FetchEvents, page
    <3>5. QED
      BY <2>7, <3>2, <3>4 DEF FetchEvents, SyncOK, network, tables, budget
  <2>8. ASSUME NEW e \in range[w].todo, range[w].pc # "free", EventDone(w, e)
        PROVE  /\ range' \in [Slots -> Ranges]
               /\ \A x \in Slots : RangeOK(range'[x])
    <3>1. RangeOK([range[w] EXCEPT !.pc = "tx", !.todo = @ \ {e}])
      BY <2>0, <2>8 DEF RangeOK, Ranges, RangePcs
    <3>2. QED
      BY <2>8, <3>1, GotoOK, ReturnOK DEF EventDone
  <2>9. ASSUME NEW e \in range[w].todo, SaveTransaction(w, e) PROVE BoundsInv'
    <3>1. RangeOK([range[w] EXCEPT !.pc = "event"])
      BY <2>0, <2>9 DEF SaveTransaction, RangeOK, Ranges, RangePcs
    <3>2. e \in EventIds
      BY <2>0 DEF Ranges
    <3>3. CASE Throw(w) /\ UNCHANGED txs
      BY <2>9, <3>3, ThrowOK DEF SaveTransaction, network, budget, observed
    <3>4. CASE /\ txs' = txs \cup {e}
               /\ Goto(w, [range[w] EXCEPT !.pc = "event"])
               /\ UNCHANGED sync
      BY <2>9, <3>1, <3>2, <3>4, GotoOK DEF SaveTransaction, SyncOK, network, budget, observed
    <3>5. QED
      BY <2>9, <3>3, <3>4 DEF SaveTransaction
  <2>10. ASSUME NEW e \in range[w].todo, SaveEvent(w, e) PROVE BoundsInv'
    <3>1. RangeOK([range[w] EXCEPT !.pc = "auth"])
      BY <2>0, <2>10 DEF SaveEvent, RangeOK, Ranges, RangePcs
    <3>2. e \in EventIds
      BY <2>0 DEF Ranges
    <3>3. CASE Throw(w) /\ UNCHANGED events
      BY <2>10, <3>3, ThrowOK DEF SaveEvent, network, budget, observed
    <3>4. CASE /\ events' = events \cup {e}
               /\ UNCHANGED sync
               /\ \/ Goto(w, [range[w] EXCEPT !.pc = "auth"])
                  \/ EventDone(w, e)
      <4>1. /\ range' \in [Slots -> Ranges]
            /\ \A x \in Slots : RangeOK(range'[x])
        BY <2>8, <2>10, <3>1, <3>4, GotoOK DEF SaveEvent
      <4>2. QED
        BY <2>10, <3>2, <3>4, <4>1 DEF SaveEvent, SyncOK, network, budget, observed
    <3>5. QED
      BY <2>10, <3>3, <3>4 DEF SaveEvent
  <2>11. ASSUME NEW e \in range[w].todo, SaveAuth(w, e) PROVE BoundsInv'
    <3>1. e \in EventIds
      BY <2>0 DEF Ranges
    <3>2. /\ range' \in [Slots -> Ranges]
          /\ \A x \in Slots : RangeOK(range'[x])
      BY <2>8, <2>11 DEF SaveAuth
    <3>3. QED
      BY <2>11, <3>1, <3>2 DEF SaveAuth, SyncOK, network, budget, observed
  <2>12. QED
    BY <1>9, <2>1, <2>2, <2>3, <2>4, <2>5, <2>6, <2>7, <2>9, <2>10, <2>11 DEF RangeStep
<1>10. ASSUME NEW w \in Slots, FailRange(w) PROVE BoundsInv'
  BY <1>10, ThrowOK DEF FailRange, BoundsInv, TypeOK, network, tables, observed
<1>11. CASE FailSync
  <2>1. \A x \in Slots : RangeOK(range'[x])
    BY <1>11, NoRangeOK DEF FailSync, BoundsInv
  <2>2. range' \in [Slots -> Ranges]
    BY <1>11, <2>1 DEF FailSync, RangeOK
  <2>3. QED
    BY <1>11, <2>1, <2>2, IdleSyncType
    DEF FailSync, BoundsInv, TypeOK, SyncOK, IdleSync, SyncAt, network, tables, observed
<1>12. CASE Crash
  <2>1. \A x \in Slots : RangeOK(range'[x])
    BY <1>12, NoRangeOK DEF Crash, BoundsInv
  <2>2. range' \in [Slots -> Ranges]
    BY <1>12, <2>1 DEF Crash, RangeOK
  <2>3. QED
    BY <1>12, <2>1, <2>2, IdleSyncType
    DEF Crash, BoundsInv, TypeOK, SyncOK, IdleSync, SyncAt, tables, observed
<1>13. CASE UNCHANGED vars
  BY <1>13 DEF vars, network, tables, memory, budget, observed, BoundsInv, TypeOK, SyncOK
<1>14. QED
  BY <1>1, <1>2, <1>3, <1>4, <1>5, <1>6, <1>7, <1>8, <1>9, <1>10, <1>11, <1>12, <1>13
  DEF Next, SyncStep

\* The type invariant holds in every state: in particular the cursor never drops
\* below the configured start ledger, whatever is rolled back (indexer.ts:108).
THEOREM TypeCorrect == Spec => []TypeOK
<1>1. BoundsInv => TypeOK
  BY DEF BoundsInv
<1>2. QED
  BY <1>1, BoundsInit, BoundsStep, PTL DEF Spec

----------------------------------------------------------------------------
(***************************************************************************)
(* Without reorgs, nothing below the cursor is missing, for any number of  *)
(* concurrent calls, failures and crashes. The invariant says how far each *)
(* call came (ProgressOK), that the awaited calls cover the round (Covered)*)
(* and that the round starts right above the cursor.                       *)
(***************************************************************************)
Id(s) == [seq |-> s, ver |-> 0]

\* What call r has stored, in the tables led (Ledger), ev (Event), tx (Transaction),
\* given the ledgers un whose events a full page cut off.
ProgressOK(r, led, ev, tx, un) ==
    /\ r.pc \notin {"reorg", "rollback", "rewind"}
    /\ r.pc \in {"meta", "check", "save"} =>
          \A s \in Seqs : r.from <= s /\ s < r.seq => led[s] # NoRow
    /\ r.pc \in {"events", "tx", "event", "auth", "done"} =>
          \A s \in Seqs : r.from <= s /\ s <= r.to => led[s] # NoRow
    /\ r.pc \in {"tx", "event", "auth", "done"} =>
          \A s \in EventLedgers : r.from <= s /\ s <= r.to =>
              \/ Id(s) \in ev /\ Id(s) \in tx
              \/ s \in un
              \/ r.pc # "done" /\ Id(s) \in r.todo
    /\ r.pc \in {"event", "auth"} =>
          \A e \in r.todo : (\A f \in r.todo : e.seq <= f.seq) =>
              e \in tx /\ (r.pc = "auth" => e \in ev)

Covered ==
    /\ sync.pc # "ranges" => \A w \in Slots : ~range[w].live
    /\ sync.pc \in {"gap", "ranges"} => sync.from = cursor + 1
    /\ sync.pc = "ranges" =>
          \A s \in Seqs : sync.from <= s /\ s <= sync.to =>
              \E w \in Slots : range[w].live /\ range[w].from <= s /\ s <= range[w].to

Kept ==
    \A s \in Seqs : StartLedger < s /\ s <= cursor =>
        ledger[s] # NoRow /\ (s \in EventLedgers \ unread => Id(s) \in events /\ Id(s) \in txs)

CompleteInv ==
    /\ BoundsInv
    /\ Kept
    /\ Covered
    /\ \A w \in Slots : ProgressOK(range[w], ledger, events, txs, unread)

\* Tables that only grow keep what every call has stored.
LEMMA ProgressMono ==
    ASSUME NEW r, NEW led, NEW led2, NEW ev, NEW ev2, NEW tx, NEW tx2, NEW un, NEW un2,
           \A s \in Seqs : led[s] # NoRow => led2[s] # NoRow,
           ev \subseteq ev2, tx \subseteq tx2, un \subseteq un2, ProgressOK(r, led, ev, tx, un)
    PROVE  ProgressOK(r, led2, ev2, tx2, un2)
BY DEF ProgressOK

\* A slot without a call has nothing to have stored.
LEMMA ProgressNoRange ==
    ASSUME NEW led, NEW ev, NEW tx, NEW un
    PROVE  ProgressOK(NoRange, led, ev, tx, un)
BY DEF ProgressOK, NoRange

\* A call that starts has nothing to have stored.
LEMMA ProgressNewRange ==
    ASSUME NEW c, c[1] \in Int, NEW led, NEW ev, NEW tx, NEW un
    PROVE  ProgressOK(NewRange(c), led, ev, tx, un)
BY DEF ProgressOK, NewRange, Seqs

\* A call that nobody awaits any more has stored what it had.
LEMMA ProgressOrphan ==
    ASSUME NEW r \in Ranges, NEW led, NEW ev, NEW tx, NEW un, ProgressOK(r, led, ev, tx, un)
    PROVE  ProgressOK(Orphan(r), led, ev, tx, un)
<1>1. CASE r.pc = "done"
  BY <1>1, ProgressNoRange DEF Orphan
<1>2. CASE r.pc # "done"
  <2> DEFINE o == [r EXCEPT !.live = FALSE]
  <2>1. o.pc = r.pc /\ o.from = r.from /\ o.to = r.to /\ o.seq = r.seq /\ o.todo = r.todo
    BY DEF Ranges
  <2> HIDE DEF o
  <2>2. ProgressOK(o, led, ev, tx, un)
    BY <2>1 DEF ProgressOK
  <2>3. QED
    BY <1>2, <2>2 DEF Orphan, o
<1>3. QED
  BY <1>1, <1>2

\* Without reorgs all hashes are 0, so an event is known by its ledger.
LEMMA OneFork ==
    ASSUME MaxReorgs = 0
    PROVE  /\ Hashes = {0}
           /\ \A e \in EventIds : e = Id(e.seq) /\ e.seq \in EventLedgers
BY DEF Hashes, EventIds, Id

\* The tables only grow: every action but Rollback.
Grow ==
    /\ \A s \in Seqs : ledger[s] # NoRow => ledger'[s] # NoRow
    /\ events \subseteq events'
    /\ txs \subseteq txs'
    /\ unread \subseteq unread'

\* The calls that are awaited stay awaited, with their chunk, or none is.
Await ==
    \/ /\ sync' = sync
       /\ \A x \in Slots : range[x].live <=> range'[x].live
       /\ \A x \in Slots : range[x].live =>
             range'[x].from = range[x].from /\ range'[x].to = range[x].to
    \/ sync' = IdleSync /\ \A x \in Slots : ~range'[x].live

\* A round stays covered while the cursor rests.
LEMMA AwaitCovered ==
    ASSUME Covered, Await, cursor' = cursor
    PROVE  Covered'
BY DEF Covered, Await, IdleSync, SyncAt

\* What is stored up to the cursor stays stored while the tables grow.
LEMMA GrowKept ==
    ASSUME Kept, Grow, cursor' = cursor
    PROVE  Kept'
BY DEF Kept, Grow

\* A call throws.
LEMMA ThrowComplete ==
    ASSUME CompleteInv, NEW w \in Slots, Throw(w), Grow
    PROVE  /\ Await
           /\ \A x \in Slots : ProgressOK(range'[x], ledger', events', txs', unread')
<1>1. \A x \in Slots : ProgressOK(range[x], ledger', events', txs', unread') /\ range[x] \in Ranges
  BY ProgressMono DEF CompleteInv, Grow, BoundsInv, TypeOK
<1>2. \A x \in Slots : ProgressOK(range'[x], ledger', events', txs', unread')
  <2> TAKE x \in Slots
  <2>1. /\ ProgressOK(NoRange, ledger', events', txs', unread')
        /\ ProgressOK(Orphan(range[x]), ledger', events', txs', unread')
    BY <1>1, ProgressNoRange, ProgressOrphan
  <2>2. \/ range'[x] = NoRange \/ range'[x] = Orphan(range[x]) \/ range'[x] = range[x]
    BY DEF Throw
  <2>3. QED
    BY <1>1, <2>1, <2>2
<1>3. Await
  <2>1. ~NoRange.live
    BY DEF NoRange
  <2>2. CASE range[w].live
    <3>1. sync' = IdleSync
      BY <2>2 DEF Throw
    <3>2. \A x \in Slots : ~Orphan(range[x]).live
      BY <1>1, <2>1 DEF Orphan, Ranges
    <3>3. \A x \in Slots : range'[x] = NoRange \/ range'[x] = Orphan(range[x])
      BY <2>2 DEF Throw
    <3>4. QED
      BY <2>1, <3>1, <3>2, <3>3 DEF Await
  <2>3. CASE ~range[w].live
    <3>1. sync' = sync /\ range'[w] = NoRange
      BY <2>3 DEF Throw
    <3>2. \A x \in Slots : x # w => range'[x] = range[x]
      BY <2>3 DEF Throw
    <3>3. QED
      BY <2>1, <2>3, <3>1, <3>2 DEF Await
  <2>4. QED
    BY <2>2, <2>3
<1>4. QED
  BY <1>2, <1>3

\* A call goes on with r, the same chunk of the same round.
LEMMA GotoComplete ==
    ASSUME CompleteInv, NEW w \in Slots, NEW r, Goto(w, r), Grow, sync' = sync,
           ProgressOK(r, ledger', events', txs', unread'),
           r.live = range[w].live, r.live => r.from = range[w].from /\ r.to = range[w].to
    PROVE  /\ Await
           /\ \A x \in Slots : ProgressOK(range'[x], ledger', events', txs', unread')
<1>1. \A x \in Slots : ProgressOK(range[x], ledger', events', txs', unread')
  BY ProgressMono DEF CompleteInv, Grow
<1>2. range'[w] = r /\ \A x \in Slots : x # w => range'[x] = range[x]
  BY DEF Goto, CompleteInv, BoundsInv, TypeOK
<1>3. \A x \in Slots : ProgressOK(range'[x], ledger', events', txs', unread')
  BY <1>1, <1>2
<1>4. Await
  BY <1>2 DEF Await
<1>5. QED
  BY <1>3, <1>4

\* A call returns; all it had to store is stored.
LEMMA ReturnComplete ==
    ASSUME CompleteInv, NEW w \in Slots, Return(w), Grow, sync' = sync,
           \A s \in Seqs : range[w].from <= s /\ s <= range[w].to => ledger'[s] # NoRow,
           \A s \in EventLedgers : range[w].from <= s /\ s <= range[w].to =>
               (Id(s) \in events' /\ Id(s) \in txs') \/ s \in unread'
    PROVE  /\ Await
           /\ \A x \in Slots : ProgressOK(range'[x], ledger', events', txs', unread')
<1> DEFINE d == [range[w] EXCEPT !.pc = "done"]
<1>1. range[w] \in Ranges
  BY DEF CompleteInv, BoundsInv, TypeOK
<1>2. /\ d.pc = "done" /\ d.from = range[w].from /\ d.to = range[w].to
      /\ d.live = range[w].live
  BY <1>1 DEF Ranges
<1> HIDE DEF d
<1>3. ProgressOK(d, ledger', events', txs', unread')
  BY <1>2 DEF ProgressOK
<1>4. CASE range[w].live
  <2>1. Goto(w, d)
    BY <1>4 DEF Return, d
  <2>2. QED
    BY <1>2, <1>3, <2>1, GotoComplete
<1>5. CASE ~range[w].live
  <2>1. Goto(w, NoRange) /\ NoRange.live = FALSE
    BY <1>5 DEF Return, NoRange
  <2>2. range[w].live = FALSE
    BY <1>1, <1>5 DEF Ranges
  <2>3. QED
    BY <2>1, <2>2, GotoComplete, ProgressNoRange
<1>6. QED
  BY <1>4, <1>5

\* A round starts: its calls have stored nothing yet and cover it.
LEMMA StartRangesComplete ==
    ASSUME CompleteInv, NEW chunks, StartRanges(chunks), \A c \in chunks : c[1] \in Int,
           NEW from \in Int, NEW to \in Int,
           \A s \in from..to : \E c \in chunks : c[1] <= s /\ s <= c[2]
    PROVE  /\ \A x \in Slots : ProgressOK(range'[x], ledger, events, txs, unread)
           /\ \A s \in Seqs : from <= s /\ s <= to =>
                \E w \in Slots : range'[w].live /\ range'[w].from <= s /\ s <= range'[w].to
<1>1. PICK slot \in [chunks -> free] :
        /\ \A c, d \in chunks : slot[c] = slot[d] => c = d
        /\ range' = [w \in Slots |->
                        IF \E c \in chunks : slot[c] = w
                        THEN NewRange(CHOOSE c \in chunks : slot[c] = w)
                        ELSE range[w]]
  BY DEF StartRanges
<1>2. \A x \in Slots : ProgressOK(range'[x], ledger, events, txs, unread)
  <2> TAKE x \in Slots
  <2>1. CASE \E c \in chunks : slot[c] = x
    BY <1>1, <2>1, ProgressNewRange
  <2>2. CASE ~\E c \in chunks : slot[c] = x
    BY <1>1, <2>2 DEF CompleteInv
  <2>3. QED
    BY <2>1, <2>2
<1>3. ASSUME NEW s \in Seqs, from <= s, s <= to
      PROVE  \E w \in Slots : range'[w].live /\ range'[w].from <= s /\ s <= range'[w].to
  <2>1. PICK c \in chunks : c[1] <= s /\ s <= c[2]
    <3>1. s \in from..to
      BY <1>3, LedgerAssumption DEF Seqs
    <3>2. QED
      BY <3>1
  <2>2. slot[c] \in Slots
    BY <1>1 DEF free
  <2>3. (CHOOSE d \in chunks : slot[d] = slot[c]) = c
    BY <1>1
  <2>4. range'[slot[c]] = NewRange(c)
    BY <1>1, <2>2, <2>3
  <2>5. NewRange(c).live /\ NewRange(c).from = c[1] /\ NewRange(c).to = c[2]
    BY DEF NewRange
  <2>6. QED
    BY <2>1, <2>2, <2>4, <2>5
<1>4. QED
  BY <1>2, <1>3

\* A step of a call that stays within its round.
LEMMA CallStep ==
    ASSUME CompleteInv, BoundsInv', Grow, Await, cursor' = cursor,
           \A x \in Slots : ProgressOK(range'[x], ledger', events', txs', unread')
    PROVE  CompleteInv'
BY AwaitCovered, GrowKept DEF CompleteInv

\* Initially nothing above the start ledger is due.
LEMMA CompleteInit == Init => CompleteInv
<1> SUFFICES ASSUME Init PROVE CompleteInv
  OBVIOUS
<1>1. BoundsInv
  BY BoundsInit
<1>2. \A w \in Slots : ProgressOK(range[w], ledger, events, txs, unread)
  BY ProgressNoRange DEF Init
<1>3. Covered
  BY DEF Init, Covered, IdleSync, SyncAt, NoRange
<1>4. Kept
  BY LedgerAssumption DEF Init, Kept, Seqs
<1>5. QED
  BY <1>1, <1>2, <1>3, <1>4 DEF CompleteInv

\* Without reorgs the next event of a call is the only one with its sequence.
LEMMA NextIsUnique ==
    ASSUME MaxReorgs = 0, NEW w \in Slots, range[w].todo \subseteq EventIds,
           NEW e \in range[w].todo, IsNext(w, e),
           NEW f \in range[w].todo, \A g \in range[w].todo : f.seq <= g.seq
    PROVE  f = e
<1>1. f.seq <= e.seq /\ e.seq <= f.seq
  BY DEF IsNext
<1>2. f \in EventIds /\ e \in EventIds
  OBVIOUS
<1>3. f.seq \in Nat /\ e.seq \in Nat
  BY <1>2, LedgerAssumption DEF EventIds
<1>4. f.seq = e.seq
  BY <1>1, <1>3
<1>5. QED
  BY <1>2, <1>4, OneFork

\* An event is stored: on to the next one, or the call returns.
LEMMA EventDoneComplete ==
    ASSUME CompleteInv, NEW w \in Slots, NEW e \in range[w].todo, Grow, sync' = sync,
           range[w].pc \in {"event", "auth"}, EventDone(w, e), e \in events', e \in txs'
    PROVE  /\ Await
           /\ \A x \in Slots : ProgressOK(range'[x], ledger', events', txs', unread')
<1>1. /\ range[w] \in Ranges
      /\ ProgressOK(range[w], ledger', events', txs', unread')
  BY ProgressMono DEF CompleteInv, Grow, BoundsInv, TypeOK
<1>2. /\ \A s \in Seqs : range[w].from <= s /\ s <= range[w].to => ledger'[s] # NoRow
      /\ \A s \in EventLedgers : range[w].from <= s /\ s <= range[w].to =>
            (Id(s) \in events' /\ Id(s) \in txs') \/ s \in unread' \/ Id(s) \in range[w].todo
  BY <1>1 DEF ProgressOK
<1>3. CASE range[w].todo = {e}
  <2>1. Return(w)
    BY <1>3 DEF EventDone
  <2>2. \A s \in EventLedgers : range[w].from <= s /\ s <= range[w].to =>
            (Id(s) \in events' /\ Id(s) \in txs') \/ s \in unread'
    BY <1>2, <1>3
  <2>3. QED
    BY <1>2, <2>1, <2>2, ReturnComplete
<1>4. CASE range[w].todo # {e}
  <2> DEFINE r == [range[w] EXCEPT !.pc = "tx", !.todo = @ \ {e}]
  <2>1. Goto(w, r)
    BY <1>4 DEF EventDone
  <2>2. /\ r.pc = "tx" /\ r.from = range[w].from /\ r.to = range[w].to
        /\ r.live = range[w].live /\ r.todo = range[w].todo \ {e}
    BY <1>1 DEF Ranges
  <2> HIDE DEF r
  <2>3. ProgressOK(r, ledger', events', txs', unread')
    BY <1>2, <2>2 DEF ProgressOK
  <2>4. QED
    BY <2>1, <2>2, <2>3, GotoComplete
<1>5. QED
  BY <1>3, <1>4

\* The steps of processLedgerRange. Only one fork exists, so the reorg test fails.
LEMMA CompleteRangeStep ==
    ASSUME MaxReorgs = 0, CompleteInv, BoundsInv', NEW w \in Slots, RangeStep(w)
    PROVE  CompleteInv'
<1>1. /\ range[w] \in Ranges /\ RangeOK(range[w])
      /\ ProgressOK(range[w], ledger, events, txs, unread)
      /\ range[w].seq \in Int /\ range[w].from \in Int /\ range[w].to \in Int
      /\ range[w].todo \subseteq EventIds
  BY DEF CompleteInv, BoundsInv, TypeOK, Ranges
<1>2. CASE FetchMeta(w)
  <2> DEFINE r == [range[w] EXCEPT !.pc = "check", !.hash = chain[range[w].seq],
                                   !.prev = chain[range[w].seq - 1]]
  <2>1. /\ r.pc = "check" /\ r.from = range[w].from /\ r.to = range[w].to
        /\ r.seq = range[w].seq /\ r.live = range[w].live
    BY <1>1 DEF Ranges
  <2>2. Goto(w, r) /\ range[w].pc = "meta"
    BY <1>2 DEF FetchMeta
  <2>3. Grow /\ sync' = sync /\ cursor' = cursor /\ UNCHANGED <<ledger, events, txs, unread>>
    BY <1>2 DEF FetchMeta, Grow, tables, observed
  <2> HIDE DEF r
  <2>4. ProgressOK(r, ledger', events', txs', unread')
    BY <1>1, <2>1, <2>2, <2>3 DEF ProgressOK
  <2>5. QED
    BY <2>1, <2>2, <2>3, <2>4, GotoComplete, CallStep
<1>3. CASE CheckPrev(w)
  <2> DEFINE r == [range[w] EXCEPT !.pc = "save"]
  <2>1. /\ r.pc = "save" /\ r.from = range[w].from /\ r.to = range[w].to
        /\ r.seq = range[w].seq /\ r.live = range[w].live
    BY <1>1 DEF Ranges
  <2>2. ~(PrevRow(range[w].seq) # NoRow /\ PrevRow(range[w].seq).hash # range[w].prev)
    <3>1. SUFFICES ASSUME PrevRow(range[w].seq) # NoRow
                   PROVE  PrevRow(range[w].seq).hash = range[w].prev
      OBVIOUS
    <3>2. PrevRow(range[w].seq) \in Rows
      BY <3>1 DEF PrevRow, CompleteInv, BoundsInv, TypeOK
    <3>3. PrevRow(range[w].seq).hash = 0 /\ range[w].prev = 0
      BY <1>1, <3>2, OneFork DEF Rows, Ranges
    <3>4. QED
      BY <3>3
  <2>3. Goto(w, r) /\ range[w].pc = "check"
    BY <1>3, <2>2 DEF CheckPrev
  <2>4. Grow /\ sync' = sync /\ cursor' = cursor /\ UNCHANGED <<ledger, events, txs, unread>>
    BY <1>3 DEF CheckPrev, Grow, tables, observed
  <2> HIDE DEF r
  <2>5. ProgressOK(r, ledger', events', txs', unread')
    BY <1>1, <2>1, <2>3, <2>4 DEF ProgressOK
  <2>6. QED
    BY <2>1, <2>3, <2>4, <2>5, GotoComplete, CallStep
<1>4. ~RecordReorg(w) /\ ~Rollback(w) /\ ~Rewind(w)
  BY <1>1 DEF RecordReorg, Rollback, Rewind, ProgressOK
<1>5. CASE SaveLedger(w)
  <2> DEFINE row == [hash |-> range[w].hash, prev |-> range[w].prev]
             next == [range[w] EXCEPT !.pc = "meta", !.seq = range[w].seq + 1, !.hash = 0, !.prev = 0]
             last == [range[w] EXCEPT !.pc = "events", !.hash = 0, !.prev = 0]
             r == IF range[w].seq < range[w].to THEN next ELSE last
  <2>1. row # NoRow
    BY <1>1, OneFork DEF NoRow, Ranges
  <2>2. ledger' = [ledger EXCEPT ![range[w].seq] = row] /\ range[w].pc = "save" /\ Goto(w, r)
        /\ UNCHANGED <<events, txs, unread, sync, cursor>>
    BY <1>5 DEF SaveLedger
  <2>3. range[w].seq \in Seqs /\ range[w].seq <= range[w].to
    BY <1>1, <2>2, LedgerAssumption DEF RangeOK, Ranges, Seqs
  <2> HIDE DEF row, next, last
  <2>4. \A s \in Seqs : ledger'[s] = IF s = range[w].seq THEN row ELSE ledger[s]
    BY <2>2 DEF CompleteInv, BoundsInv, TypeOK
  <2>5. Grow
    BY <2>1, <2>2, <2>4 DEF Grow
  <2>6. \A s \in Seqs : range[w].from <= s /\ s <= range[w].seq => ledger'[s] # NoRow
    <3> TAKE s \in Seqs
    <3> HAVE range[w].from <= s /\ s <= range[w].seq
    <3>1. CASE s = range[w].seq
      BY <2>1, <2>4, <3>1
    <3>2. CASE s # range[w].seq
      <4>1. s < range[w].seq
        BY <1>1, <3>2 DEF Seqs
      <4>2. QED
        BY <1>1, <2>2, <2>4, <3>2, <4>1 DEF ProgressOK
    <3>3. QED
      BY <3>1, <3>2
  <2>7. /\ next.pc = "meta" /\ next.from = range[w].from /\ next.to = range[w].to
        /\ next.seq = range[w].seq + 1 /\ next.live = range[w].live
    BY <1>1 DEF next, Ranges
  <2>8. /\ last.pc = "events" /\ last.from = range[w].from /\ last.to = range[w].to
        /\ last.live = range[w].live
    BY <1>1 DEF last, Ranges
  <2>9. ProgressOK(next, ledger', events', txs', unread')
    <3>1. \A s \in Seqs : next.from <= s /\ s < next.seq => ledger'[s] # NoRow
      BY <1>1, <2>6, <2>7 DEF Seqs
    <3>2. QED
      BY <2>7, <3>1 DEF ProgressOK
  <2>10. ~(range[w].seq < range[w].to) => ProgressOK(last, ledger', events', txs', unread')
    <3>1. SUFFICES ASSUME range[w].seq = range[w].to PROVE ProgressOK(last, ledger', events', txs', unread')
      BY <1>1, <2>3
    <3>2. \A s \in Seqs : last.from <= s /\ s <= last.to => ledger'[s] # NoRow
      BY <2>6, <2>8, <3>1
    <3>3. QED
      BY <2>8, <3>2 DEF ProgressOK
  <2>11. ProgressOK(r, ledger', events', txs', unread') /\ r.live = range[w].live
         /\ r.from = range[w].from /\ r.to = range[w].to
    BY <2>7, <2>8, <2>9, <2>10
  <2> HIDE DEF r
  <2>12. QED
    BY <2>2, <2>5, <2>11, GotoComplete, CallStep
<1>6. CASE FetchEvents(w)
  <2> DEFINE inRange == EventsIn(range[w].from, range[w].to)
             page == {s \in inRange : Cardinality(EventsIn(range[w].from, s)) <= EVENT_PAGE}
             found == {[seq |-> s, ver |-> chain[s]] : s \in page}
             r == [range[w] EXCEPT !.pc = "tx", !.todo = found]
  <2>1. /\ Grow /\ sync' = sync /\ cursor' = cursor /\ UNCHANGED <<ledger, events, txs>>
        /\ range[w].pc = "events" /\ unread' = unread \cup (inRange \ page)
    BY <1>6 DEF FetchEvents, Grow, tables
  <2>2. \A s \in EventLedgers : chain[s] = 0
    BY LedgerAssumption, OneFork DEF CompleteInv, BoundsInv, TypeOK
  <2>3. \A s \in EventLedgers : range[w].from <= s /\ s <= range[w].to =>
            s \in unread' \/ (s \in page /\ Id(s) \in found)
    BY <2>1, <2>2 DEF Id, EventsIn
  <2>4. \A s \in Seqs : range[w].from <= s /\ s <= range[w].to => ledger'[s] # NoRow
    BY <1>1, <2>1 DEF ProgressOK
  <2>5. /\ r.pc = "tx" /\ r.from = range[w].from /\ r.to = range[w].to
        /\ r.live = range[w].live /\ r.todo = found
    BY <1>1 DEF Ranges
  <2>6. IF page = {} THEN Return(w) ELSE Goto(w, r)
    BY <1>6 DEF FetchEvents
  <2> HIDE DEF found, r, page
  <2>7. CASE page = {}
    BY <2>1, <2>3, <2>4, <2>6, <2>7, ReturnComplete, CallStep
  <2>8. CASE page # {}
    <3>1. ProgressOK(r, ledger', events', txs', unread')
      BY <2>3, <2>4, <2>5 DEF ProgressOK
    <3>2. QED
      BY <2>1, <2>5, <2>6, <2>8, <3>1, GotoComplete, CallStep
  <2>9. QED
    BY <2>7, <2>8
<1>7. ASSUME NEW e \in range[w].todo, SaveTransaction(w, e) PROVE CompleteInv'
  <2>1. /\ UNCHANGED <<cursor, ledger, events, unread>>
        /\ range[w].pc = "tx" /\ IsNext(w, e)
    BY <1>7 DEF SaveTransaction, observed
  <2>2. CASE Throw(w) /\ UNCHANGED txs
    <3>1. Grow
      BY <2>1, <2>2 DEF Grow
    <3>2. QED
      BY <2>1, <2>2, <3>1, ThrowComplete, CallStep
  <2>3. CASE /\ txs' = txs \cup {e}
             /\ Goto(w, [range[w] EXCEPT !.pc = "event"])
             /\ UNCHANGED sync
    <3> DEFINE r == [range[w] EXCEPT !.pc = "event"]
    <3>1. Grow
      BY <2>1, <2>3 DEF Grow
    <3>2. /\ r.pc = "event" /\ r.from = range[w].from /\ r.to = range[w].to
          /\ r.live = range[w].live /\ r.todo = range[w].todo
      BY <1>1 DEF Ranges
    <3>3. Goto(w, r)
      BY <2>3
    <3> HIDE DEF r
    <3>4. \A f \in range[w].todo : (\A g \in range[w].todo : f.seq <= g.seq) => f = e
      BY <1>1, <2>1, NextIsUnique
    <3>5. ProgressOK(r, ledger', events', txs', unread')
      <4>1. ProgressOK(range[w], ledger', events', txs', unread')
        BY <1>1, <3>1, ProgressMono DEF Grow
      <4>2. \A f \in r.todo : (\A g \in r.todo : f.seq <= g.seq) => f \in txs'
        BY <2>3, <3>2, <3>4
      <4>3. QED
        BY <2>1, <3>2, <4>1, <4>2 DEF ProgressOK
    <3>6. QED
      BY <2>1, <2>3, <3>1, <3>2, <3>3, <3>5, GotoComplete, CallStep
  <2>4. QED
    BY <1>7, <2>2, <2>3 DEF SaveTransaction
<1>8. ASSUME NEW e \in range[w].todo, SaveEvent(w, e) PROVE CompleteInv'
  <2>1. /\ UNCHANGED <<cursor, ledger, txs, unread>>
        /\ range[w].pc = "event" /\ IsNext(w, e)
    BY <1>8 DEF SaveEvent, observed
  <2>2. e \in txs
    BY <1>1, <2>1 DEF ProgressOK, IsNext
  <2>3. CASE Throw(w) /\ UNCHANGED events
    <3>1. Grow
      BY <2>1, <2>3 DEF Grow
    <3>2. QED
      BY <2>1, <2>3, <3>1, ThrowComplete, CallStep
  <2>4. CASE events' = events \cup {e} /\ UNCHANGED sync /\ EventDone(w, e)
    <3>1. Grow
      BY <2>1, <2>4 DEF Grow
    <3>2. QED
      BY <2>1, <2>2, <2>4, <3>1, EventDoneComplete, CallStep
  <2>5. CASE events' = events \cup {e} /\ UNCHANGED sync /\ Goto(w, [range[w] EXCEPT !.pc = "auth"])
    <3> DEFINE r == [range[w] EXCEPT !.pc = "auth"]
    <3>1. Grow
      BY <2>1, <2>5 DEF Grow
    <3>2. /\ r.pc = "auth" /\ r.from = range[w].from /\ r.to = range[w].to
          /\ r.live = range[w].live /\ r.todo = range[w].todo
      BY <1>1 DEF Ranges
    <3>3. Goto(w, r)
      BY <2>5
    <3> HIDE DEF r
    <3>4. \A f \in range[w].todo : (\A g \in range[w].todo : f.seq <= g.seq) => f = e
      BY <1>1, <2>1, NextIsUnique
    <3>5. ProgressOK(r, ledger', events', txs', unread')
      <4>1. ProgressOK(range[w], ledger', events', txs', unread')
        BY <1>1, <3>1, ProgressMono DEF Grow
      <4>2. \A f \in r.todo : (\A g \in r.todo : f.seq <= g.seq) => f \in txs' /\ f \in events'
        BY <2>1, <2>2, <2>5, <3>2, <3>4
      <4>3. QED
        BY <2>1, <3>2, <4>1, <4>2 DEF ProgressOK
    <3>6. QED
      BY <2>1, <2>5, <3>1, <3>2, <3>3, <3>5, GotoComplete, CallStep
  <2>6. QED
    BY <1>8, <2>3, <2>4, <2>5 DEF SaveEvent
<1>9. ASSUME NEW e \in range[w].todo, SaveAuth(w, e) PROVE CompleteInv'
  <2>1. /\ Grow /\ cursor' = cursor /\ ledger' = ledger /\ txs' = txs /\ events' = events
        /\ sync' = sync /\ range[w].pc = "auth" /\ IsNext(w, e) /\ EventDone(w, e)
    BY <1>9 DEF SaveAuth, Grow, observed
  <2>2. e \in txs /\ e \in events
    BY <1>1, <2>1 DEF ProgressOK, IsNext
  <2>3. QED
    BY <2>1, <2>2, EventDoneComplete, CallStep
<1>10. QED
  BY <1>2, <1>3, <1>4, <1>5, <1>6, <1>7, <1>8, <1>9 DEF RangeStep

\* Every step of the worker and of the network keeps CompleteInv.
LEMMA CompleteStep ==
    ASSUME MaxReorgs = 0, CompleteInv, [Next]_vars
    PROVE  CompleteInv'
<1>0. BoundsInv'
  BY BoundsStep DEF CompleteInv
<1>1. CASE CloseLedger
  BY <1>0, <1>1 DEF CloseLedger, tables, memory, CompleteInv, Kept, Covered, observed
<1>2. ASSUME NEW h \in 1..tip, Reorg(h) PROVE CompleteInv'
  BY <1>0, <1>2 DEF Reorg, tables, memory, CompleteInv, Kept, Covered, observed
<1>3. CASE Poll
  BY <1>0, <1>3 DEF Poll, BeginSync, isProcessing, SyncAt, tables, CompleteInv, Kept, Covered, observed
<1>4. ASSUME NEW t \in notices, OnLedgerClose(t) PROVE CompleteInv'
  BY <1>0, <1>4 DEF OnLedgerClose, BeginSync, isProcessing, SyncAt, tables, CompleteInv, Kept, Covered, observed
<1>5. CASE ReadCursor
  <2>1. UNCHANGED <<cursor, ledger, txs, events, unread>> /\ sync.pc = "read"
    BY <1>5 DEF ReadCursor, tables, observed
  <2>2. CASE sync' = IdleSync /\ UNCHANGED range
    BY <1>0, <2>1, <2>2 DEF IdleSync, SyncAt, CompleteInv, Kept, Covered
  <2>3. CASE /\ sync' = SyncAt("gap", sync.target, cursor + 1, sync.target - 1)
             /\ UNCHANGED range
    BY <1>0, <2>1, <2>3 DEF SyncAt, CompleteInv, Kept, Covered
  <2>4. CASE /\ cursor = sync.target - 1
             /\ sync' = SyncAt("ranges", sync.target, sync.target, sync.target)
             /\ StartRanges({<<sync.target, sync.target>>})
    <3>1. sync.target \in Int /\ cursor \in Int
      BY LedgerAssumption DEF CompleteInv, BoundsInv, TypeOK, Syncs
    <3>2. /\ \A c \in {<<sync.target, sync.target>>} : c[1] \in Int
          /\ \A s \in sync.target..sync.target :
                \E c \in {<<sync.target, sync.target>>} : c[1] <= s /\ s <= c[2]
      BY <3>1
    <3>3. /\ \A x \in Slots : ProgressOK(range'[x], ledger, events, txs, unread)
          /\ \A s \in Seqs : sync.target <= s /\ s <= sync.target =>
                \E w \in Slots : range'[w].live /\ range'[w].from <= s /\ s <= range'[w].to
      BY <2>4, <3>1, <3>2, StartRangesComplete
    <3>4. Covered'
      BY <2>1, <2>4, <3>1, <3>3 DEF Covered, SyncAt
    <3>5. QED
      BY <1>0, <2>1, <3>3, <3>4 DEF CompleteInv, Kept
  <2>5. QED
    BY <1>5, <2>2, <2>3, <2>4 DEF ReadCursor
<1>6. CASE RecordGap
  <2>1. /\ UNCHANGED <<cursor, ledger, txs, events, unread>> /\ sync.pc = "gap"
        /\ sync' = SyncAt("ranges", sync.target, sync.from, sync.to)
        /\ StartRanges(Chunks(sync.from, sync.to))
    BY <1>6 DEF RecordGap, observed
  <2>2. sync.from \in Nat /\ sync.to \in Nat /\ sync.from <= sync.to
    BY <2>1 DEF CompleteInv, BoundsInv, TypeOK, SyncOK, Syncs
  <2>3. \A c \in Chunks(sync.from, sync.to) : c[1] \in Int
    BY <2>2, ChunksInRange
  <2>4. \A s \in sync.from..sync.to :
            \E c \in Chunks(sync.from, sync.to) : c[1] <= s /\ s <= c[2]
    BY <2>2, ChunksCover
  <2>5. /\ \A x \in Slots : ProgressOK(range'[x], ledger, events, txs, unread)
        /\ \A s \in Seqs : sync.from <= s /\ s <= sync.to =>
              \E w \in Slots : range'[w].live /\ range'[w].from <= s /\ s <= range'[w].to
    BY <2>1, <2>2, <2>3, <2>4, StartRangesComplete
  <2>6. Covered'
    BY <2>1, <2>5 DEF Covered, SyncAt, CompleteInv
  <2>7. QED
    BY <1>0, <2>1, <2>5, <2>6 DEF CompleteInv, Kept
<1>7. CASE Advance
  <2>1. /\ UNCHANGED <<ledger, txs, events, unread>> /\ sync.pc = "ranges" /\ cursor' = sync.to
        /\ \A w \in Slots : range[w].live => range[w].pc = "done"
        /\ \A x \in Slots : range'[x] = IF range[x].live THEN NoRange ELSE range[x]
    BY <1>7 DEF Advance, AllDone, tables, observed
  <2>2. sync.from = cursor + 1 /\ cursor \in Int /\ sync.to \in Int
    BY <2>1, LedgerAssumption DEF CompleteInv, Covered, BoundsInv, TypeOK, Syncs
  <2>3. Kept'
    <3> SUFFICES ASSUME NEW s \in Seqs, StartLedger < s, s <= sync.to
                 PROVE  ledger[s] # NoRow /\ (s \in EventLedgers \ unread => Id(s) \in events /\ Id(s) \in txs)
      BY <2>1 DEF Kept
    <3>1. CASE s <= cursor
      BY <3>1 DEF CompleteInv, Kept
    <3>2. CASE ~(s <= cursor)
      <4>1. sync.from <= s
        BY <2>2, <3>2, LedgerAssumption DEF Seqs
      <4>2. PICK w \in Slots : range[w].live /\ range[w].from <= s /\ s <= range[w].to
        BY <2>1, <4>1 DEF CompleteInv, Covered
      <4>3. range[w].pc = "done" /\ ProgressOK(range[w], ledger, events, txs, unread)
        BY <2>1, <4>2 DEF CompleteInv
      <4>4. QED
        BY <4>2, <4>3 DEF ProgressOK
    <3>3. QED
      BY <3>1, <3>2
  <2>4. \A x \in Slots : ProgressOK(range'[x], ledger', events', txs', unread') /\ ~range'[x].live
    BY <2>1, ProgressNoRange DEF CompleteInv, NoRange
  <2>5. sync'.pc \in {"resolve", "read"}
    BY <1>7 DEF Advance, NextRound, SyncAt
  <2>6. Covered'
    BY <2>4, <2>5 DEF Covered
  <2>7. QED
    BY <1>0, <2>3, <2>4, <2>6 DEF CompleteInv
<1>8. CASE ResolveGap
  BY <1>0, <1>8 DEF ResolveGap, NextRound, SyncAt, CompleteInv, Kept, Covered, observed
<1>9. ASSUME NEW w \in Slots, RangeStep(w) PROVE CompleteInv'
  BY <1>0, <1>9, CompleteRangeStep
<1>10. ASSUME NEW w \in Slots, FailRange(w) PROVE CompleteInv'
  <2>1. Throw(w) /\ Grow /\ cursor' = cursor
    BY <1>10 DEF FailRange, Grow, tables, observed
  <2>2. QED
    BY <1>0, <2>1, ThrowComplete, CallStep
<1>11. CASE FailSync
  <2>1. Grow /\ cursor' = cursor /\ UNCHANGED <<ledger, events, txs, unread>> /\ sync' = IdleSync
        /\ \A x \in Slots : range'[x] = IF range[x].live THEN NoRange ELSE range[x]
    BY <1>11 DEF FailSync, Grow, tables, observed
  <2>2. \A x \in Slots : ProgressOK(range'[x], ledger', events', txs', unread') /\ ~range'[x].live
    BY <2>1, ProgressNoRange DEF CompleteInv, NoRange
  <2>3. Await
    BY <2>1, <2>2 DEF Await
  <2>4. QED
    BY <1>0, <2>1, <2>2, <2>3, CallStep
<1>12. CASE Crash
  <2>1. Grow /\ cursor' = cursor /\ UNCHANGED <<ledger, events, txs, unread>> /\ sync' = IdleSync
        /\ \A x \in Slots : range'[x] = NoRange
    BY <1>12 DEF Crash, Grow, tables, observed
  <2>2. \A x \in Slots : ProgressOK(range'[x], ledger', events', txs', unread') /\ ~range'[x].live
    BY <2>1, ProgressNoRange DEF NoRange
  <2>3. Await
    BY <2>1, <2>2 DEF Await
  <2>4. QED
    BY <1>0, <2>1, <2>2, <2>3, CallStep
<1>13. CASE UNCHANGED vars
  BY <1>0, <1>13 DEF vars, tables, memory, CompleteInv, Kept, Covered, observed
<1>14. QED
  BY <1>1, <1>2, <1>3, <1>4, <1>5, <1>6, <1>7, <1>8, <1>9, <1>10, <1>11, <1>12, <1>13
  DEF Next, SyncStep

\* What the invariant says of a ledger at or below the cursor.
LEMMA CompleteBelow ==
    ASSUME CompleteInv, NEW s \in Seqs, StartLedger < s, s <= cursor
    PROVE  Stored(s) \/ CutOff(s)
<1>1. /\ ledger[s] # NoRow
      /\ s \in EventLedgers \ unread => Id(s) \in events \cap txs
  BY DEF CompleteInv, Kept
<1>2. Id(s).seq = s
  BY DEF Id
<1>3. QED
  BY <1>1, <1>2 DEF Stored, CutOff

\* catchUp is safe without reorgs: whatever fails, crashes, is retried or keeps
\* running unawaited, every ledger up to the cursor is stored, with its events unless
\* a full page cut them off.
THEOREM CatchUpComplete ==
    ASSUME MaxReorgs = 0
    PROVE  Spec => []Complete
<1>1. CompleteInv => Complete
  BY CompleteBelow DEF Complete
<1>2. CompleteInv /\ [Next]_vars => CompleteInv'
  BY CompleteStep
<1>3. QED
  BY <1>1, <1>2, CompleteInit, PTL DEF Spec

----------------------------------------------------------------------------
(***************************************************************************)
(* The refinement: without reorgs every step is a Store, a Publish or a    *)
(* stutter of AbstractIndex.                                               *)
(***************************************************************************)
Indexed == {s \in Seqs : StartLedger < s /\ Stored(s)}

\* A step that touches the rows of one ledger q, and adds to them, stores q or
\* changes nothing a reader sees.
LEMMA StoreOne ==
    ASSUME Grow, UNCHANGED <<cursor, unread>>, NEW q \in Seqs,
           \A s \in Seqs : s # q => (Stored(s)' <=> Stored(s))
    PROVE  [Index!Next]_<<cursor, Indexed, unread>>
<1>1. Stored(q) => Stored(q)'
  BY DEF Stored, Grow
<1>2. CASE StartLedger < q /\ ~Stored(q) /\ Stored(q)'
  <2>1. Indexed' = Indexed \cup {q} /\ q \notin Indexed
    BY <1>2 DEF Indexed
  <2>2. q \in Index!Ledgers
    BY <1>2, LedgerAssumption DEF Seqs, Index!Ledgers
  <2>3. Index!Store(q)
    BY <2>1 DEF Index!Store, Indexed
  <2>4. QED
    BY <2>2, <2>3 DEF Index!Next
<1>3. CASE ~(StartLedger < q /\ ~Stored(q) /\ Stored(q)')
  <2>1. Indexed' = Indexed
    BY <1>1, <1>3 DEF Indexed
  <2>2. QED
    BY <2>1
<1>4. QED
  BY <1>2, <1>3

\* Storing a transaction or an event of ledger e.seq touches no other ledger.
LEMMA OtherLedgersKept ==
    ASSUME NEW e, NEW s \in Seqs, s # e.seq, ledger' = ledger,
           (events' = events \cup {e} /\ txs' = txs) \/ (events' = events /\ txs' = txs \cup {e})
    PROVE  Stored(s)' <=> Stored(s)
BY DEF Stored

\* Without reorgs every step of the indexer is one of AbstractIndex, and no step
\* moves the cursor back.
LEMMA IndexStep ==
    ASSUME MaxReorgs = 0, CompleteInv, CompleteInv', [Next]_vars
    PROVE  [Index!Next]_<<cursor, Indexed, unread>> /\ cursor' >= cursor
<1>0. cursor \in Int
  BY LedgerAssumption DEF CompleteInv, BoundsInv, TypeOK
<1>1. ASSUME UNCHANGED <<cursor, ledger, txs, events, unread>>
      PROVE  [Index!Next]_<<cursor, Indexed, unread>> /\ cursor' >= cursor
  BY <1>0, <1>1 DEF Indexed, Stored
<1>2. CASE CloseLedger \/ (\E h \in 1..tip : Reorg(h)) \/ Poll \/ (\E t \in notices : OnLedgerClose(t))
           \/ ReadCursor \/ RecordGap \/ ResolveGap \/ FailSync \/ Crash \/ UNCHANGED vars
  <2>1. UNCHANGED <<cursor, ledger, txs, events, unread>>
    BY <1>2 DEF CloseLedger, Reorg, Poll, OnLedgerClose, ReadCursor, RecordGap, ResolveGap,
                FailSync, Crash, vars, tables, observed
  <2>2. QED
    BY <1>1, <2>1
<1>3. ASSUME NEW w \in Slots, FailRange(w)
      PROVE  [Index!Next]_<<cursor, Indexed, unread>> /\ cursor' >= cursor
  BY <1>1, <1>3 DEF FailRange, tables, observed
<1>4. CASE Advance
  <2>1. UNCHANGED <<ledger, txs, events, unread>> /\ cursor' = sync.to /\ sync.pc = "ranges"
    BY <1>4 DEF Advance, AllDone, tables, observed
  <2>2. sync.to \in 0..MaxLedger /\ sync.from = cursor + 1 /\ sync.from <= sync.to /\ StartLedger < sync.from
    BY <2>1 DEF CompleteInv, BoundsInv, TypeOK, Syncs, SyncOK, Covered
  <2>3. cursor' > cursor /\ sync.to \in Index!Ledgers /\ cursor' >= cursor
    BY <1>0, <2>1, <2>2, LedgerAssumption DEF Index!Ledgers
  <2>4. Indexed' = Indexed
    BY <2>1 DEF Indexed, Stored
  <2>5. ASSUME NEW s \in (StartLedger + 1)..sync.to PROVE s \in Indexed \cup unread
    <3>1. s \in Seqs /\ StartLedger < s /\ s <= cursor'
      BY <2>1, <2>2, <2>3, LedgerAssumption DEF Seqs
    <3>2. ledger'[s] # NoRow /\ (s \in EventLedgers \ unread' => Id(s) \in events' /\ Id(s) \in txs')
      BY <3>1 DEF CompleteInv, Kept
    <3>3. Id(s).seq = s
      BY DEF Id
    <3>4. Stored(s) \/ s \in unread
      BY <2>1, <3>2, <3>3 DEF Stored
    <3>5. QED
      BY <3>1, <3>4 DEF Indexed
  <2>6. Index!Publish(sync.to)
    BY <2>1, <2>3, <2>4, <2>5 DEF Index!Publish, Indexed
  <2>7. Index!Next
    BY <2>3, <2>6 DEF Index!Next
  <2>8. QED
    BY <2>3, <2>7
<1>5. ASSUME NEW w \in Slots, RangeStep(w)
      PROVE  [Index!Next]_<<cursor, Indexed, unread>> /\ cursor' >= cursor
  <2>1. /\ range[w] \in Ranges /\ RangeOK(range[w]) /\ range[w].todo \subseteq EventIds
        /\ ProgressOK(range[w], ledger, events, txs, unread)
    BY DEF CompleteInv, BoundsInv, TypeOK, Ranges
  <2>2. ~RecordReorg(w) /\ ~Rollback(w) /\ ~Rewind(w)
    BY <2>1 DEF RecordReorg, Rollback, Rewind, ProgressOK
  <2>3. CASE FetchMeta(w) \/ CheckPrev(w) \/ \E e \in range[w].todo : SaveAuth(w, e)
    <3>1. UNCHANGED <<cursor, ledger, txs, events, unread>>
      BY <2>3 DEF FetchMeta, CheckPrev, SaveAuth, tables, observed
    <3>2. QED
      BY <1>1, <3>1
  <2>4. CASE SaveLedger(w)
    <3> DEFINE q == range[w].seq
    <3>1. /\ UNCHANGED <<events, txs, unread, cursor>> /\ range[w].pc = "save"
          /\ ledger' = [ledger EXCEPT ![q] = [hash |-> range[w].hash, prev |-> range[w].prev]]
      BY <2>4 DEF SaveLedger
    <3>2. q \in Seqs
      BY <2>1, <3>1, LedgerAssumption DEF RangeOK, Ranges, Seqs
    <3>3. [hash |-> range[w].hash, prev |-> range[w].prev] # NoRow
      BY <2>1, OneFork DEF NoRow, Ranges
    <3> HIDE DEF q
    <3>4. \A s \in Seqs : /\ s # q => ledger'[s] = ledger[s]
                          /\ s = q => ledger'[s] # NoRow
      BY <3>1, <3>3 DEF CompleteInv, BoundsInv, TypeOK
    <3>5. Grow /\ \A s \in Seqs : s # q => (Stored(s)' <=> Stored(s))
      BY <3>1, <3>4 DEF Grow, Stored
    <3>6. QED
      BY <1>0, <3>1, <3>2, <3>5, StoreOne
  <2>5. ASSUME NEW e \in range[w].todo, SaveTransaction(w, e) \/ SaveEvent(w, e)
        PROVE  [Index!Next]_<<cursor, Indexed, unread>> /\ cursor' >= cursor
    <3>1. e.seq \in Seqs
      BY <2>1, LedgerAssumption DEF EventIds, Seqs
    <3>2. UNCHANGED <<cursor, ledger, unread>>
      BY <2>5 DEF SaveTransaction, SaveEvent, observed
    <3>3. CASE UNCHANGED <<txs, events>>
      BY <1>1, <3>2, <3>3
    <3>4. CASE (events' = events \cup {e} /\ txs' = txs) \/ (events' = events /\ txs' = txs \cup {e})
      <4>1. Grow
        BY <3>2, <3>4 DEF Grow
      <4>2. \A s \in Seqs : s # e.seq => (Stored(s)' <=> Stored(s))
        BY <3>2, <3>4, OtherLedgersKept
      <4>3. QED
        BY <1>0, <3>1, <3>2, <4>1, <4>2, StoreOne
    <3>5. QED
      BY <2>5, <3>3, <3>4 DEF SaveTransaction, SaveEvent
  <2>6. CASE FetchEvents(w)
    <3> DEFINE inRange == EventsIn(range[w].from, range[w].to)
               page == {s \in inRange : Cardinality(EventsIn(range[w].from, s)) <= EVENT_PAGE}
    <3>1. UNCHANGED <<cursor, ledger, txs, events>> /\ unread' = unread \cup (inRange \ page)
      BY <2>6 DEF FetchEvents, tables
    <3>2. inRange \ page \subseteq Index!Ledgers
      BY <2>1, <2>6, LedgerAssumption DEF FetchEvents, EventsIn, RangeOK, Ranges, Index!Ledgers
    <3> HIDE DEF inRange, page
    <3>3. Index!GiveUp(inRange \ page)
      BY <3>1 DEF Index!GiveUp, Indexed, Stored
    <3>4. Index!Next
      BY <3>2, <3>3 DEF Index!Next
    <3>5. QED
      BY <1>0, <3>1, <3>4
  <2>7. QED
    BY <1>5, <2>2, <2>3, <2>4, <2>5, <2>6 DEF RangeStep
<1>6. QED
  BY <1>2, <1>3, <1>4, <1>5 DEF Next, SyncStep

\* Without reorgs the indexer implements AbstractIndex: a reader who stays at or
\* below IndexerState.lastLedger sees an index that only grows and has no holes but
\* the events that a full page cut off, for every number of workers, failures, crashes and unawaited calls of catchUp.
THEOREM CatchUpImplementsIndex ==
    ASSUME MaxReorgs = 0
    PROVE  Spec => ImplementsIndex
<1>1. Init => Index!Init
  BY DEF Init, Index!Init, Stored
<1>2. CompleteInv /\ CompleteInv' /\ [Next]_vars => [Index!Next]_<<cursor, Indexed, unread>>
  BY IndexStep
<1>3. CompleteInv /\ [Next]_vars => CompleteInv'
  BY CompleteStep
<1>4. QED
  BY <1>1, <1>2, <1>3, CompleteInit, PTL DEF Spec, ImplementsIndex, Index!Spec, Index!vars, Indexed

\* Without reorgs no round, retry or late call of catchUp moves the cursor back.
THEOREM CatchUpAdvances ==
    ASSUME MaxReorgs = 0
    PROVE  Spec => CursorNeverRetreats
<1>1. CompleteInv /\ CompleteInv' /\ [Next]_vars => [cursor' >= cursor]_vars
  BY IndexStep
<1>2. CompleteInv /\ [Next]_vars => CompleteInv'
  BY CompleteStep
<1>3. QED
  BY <1>1, <1>2, CompleteInit, PTL DEF Spec, CursorNeverRetreats

----------------------------------------------------------------------------
\* What a resolved gap covers lies at or below the cursor, and so does the gap that
\* is about to be marked.
GapInv ==
    /\ \A g \in gaps : StartLedger < g.start /\ (g.resolved => g.end <= cursor)
    /\ sync.pc = "resolve" => sync.to <= cursor

\* A gap is only marked after the cursor has passed it, and the cursor never retreats.
LEMMA GapStep ==
    ASSUME MaxReorgs = 0, CompleteInv, CompleteInv', GapInv, [Next]_vars
    PROVE  GapInv'
<1>1. /\ cursor' >= cursor /\ cursor \in Int /\ cursor' \in Int /\ sync.to \in Int
      /\ \A g \in gaps : g \in Gaps
  <2>1. cursor' >= cursor
    BY IndexStep
  <2>2. /\ cursor \in StartLedger..MaxLedger /\ cursor' \in StartLedger..MaxLedger
        /\ sync \in Syncs /\ gaps \subseteq Gaps
    BY DEF CompleteInv, BoundsInv, TypeOK
  <2>3. QED
    BY <2>1, <2>2, LedgerAssumption DEF Syncs
<1>2. ASSUME gaps' = gaps
      PROVE  \A g \in gaps' : StartLedger < g.start /\ (g.resolved => g.end <= cursor')
  <2> SUFFICES ASSUME NEW g \in gaps
               PROVE  StartLedger < g.start /\ (g.resolved => g.end <= cursor')
    BY <1>2
  <2>1. g.end \in Int
    BY <1>1 DEF Gaps, Seqs
  <2>2. QED
    BY <1>1, <2>1 DEF GapInv
<1>3. ASSUME gaps' = gaps, sync' = sync \/ sync'.pc # "resolve"
      PROVE  GapInv'
  BY <1>1, <1>2, <1>3 DEF GapInv
<1>4. CASE RecordGap
  <2>1. /\ gaps' = gaps \cup {[start |-> sync.from, end |-> sync.to, resolved |-> FALSE]}
        /\ cursor' = cursor /\ sync'.pc # "resolve" /\ StartLedger < sync.from
    BY <1>4 DEF RecordGap, SyncAt, CompleteInv, BoundsInv, SyncOK
  <2>2. QED
    BY <2>1 DEF GapInv
<1>5. CASE ResolveGap
  <2>1. /\ gaps' = {IF g.start = sync.from /\ g.end = sync.to
                    THEN [g EXCEPT !.resolved = TRUE] ELSE g : g \in gaps}
        /\ sync.pc = "resolve" /\ sync'.pc # "resolve" /\ cursor' = cursor
    BY <1>5 DEF ResolveGap, NextRound, SyncAt
  <2>2. ASSUME NEW g \in gaps, g.end = sync.to
        PROVE  LET h == [g EXCEPT !.resolved = TRUE]
               IN  StartLedger < h.start /\ h.end <= cursor
    BY <1>1, <2>1, <2>2 DEF Gaps, GapInv
  <2>3. \A h \in gaps' : StartLedger < h.start /\ (h.resolved => h.end <= cursor')
    BY <2>1, <2>2 DEF GapInv
  <2>4. QED
    BY <2>1, <2>3 DEF GapInv
<1>6. CASE Advance
  <2>1. gaps' = gaps /\ cursor' = sync.to
        /\ (sync'.pc = "resolve" => sync'.to = sync.to)
    BY <1>6 DEF Advance, NextRound, SyncAt, tables
  <2>2. QED
    BY <1>1, <1>2, <2>1 DEF GapInv
<1>7. CASE CloseLedger \/ (\E h \in 1..tip : Reorg(h)) \/ Poll \/ (\E t \in notices : OnLedgerClose(t))
           \/ ReadCursor \/ FailSync \/ Crash \/ UNCHANGED vars
  <2>1. gaps' = gaps /\ (sync' = sync \/ sync'.pc # "resolve")
    BY <1>7 DEF CloseLedger, Reorg, Poll, OnLedgerClose, BeginSync, ReadCursor, FailSync, Crash,
                IdleSync, SyncAt, vars, tables, memory
  <2>2. QED
    BY <1>3, <2>1
<1>8. ASSUME NEW w \in Slots, RangeStep(w) \/ FailRange(w)
      PROVE  GapInv'
  <2>1. gaps' = gaps
    BY <1>8 DEF RangeStep, FetchMeta, CheckPrev, RecordReorg, Rollback, Rewind, SaveLedger, FetchEvents,
                SaveTransaction, SaveEvent, SaveAuth, FailRange, tables
  <2>2. sync' = sync \/ sync'.pc # "resolve"
    BY <1>8 DEF RangeStep, FetchMeta, CheckPrev, RecordReorg, Rollback, Rewind, SaveLedger, FetchEvents,
                SaveTransaction, SaveEvent, SaveAuth, FailRange, Throw, Goto, IdleSync, SyncAt
  <2>3. QED
    BY <1>3, <2>1, <2>2
<1>9. QED
  BY <1>4, <1>5, <1>6, <1>7, <1>8 DEF Next, SyncStep

\* Without reorgs a gap is never marked resolved before all of it is stored, as far as
\* the pages of events went, and what it covers stays stored, although calls of failed
\* rounds are still writing.
THEOREM GapsAreFilled ==
    ASSUME MaxReorgs = 0
    PROVE  Spec => []ResolvedGapsStored
<1>1. Init => GapInv
  BY DEF Init, GapInv, IdleSync, SyncAt
<1>2. CompleteInv /\ CompleteInv' /\ GapInv /\ [Next]_vars => GapInv'
  BY GapStep
<1>3. CompleteInv /\ [Next]_vars => CompleteInv'
  BY CompleteStep
<1>4. CompleteInv /\ GapInv => ResolvedGapsStored
  <2> SUFFICES ASSUME CompleteInv, GapInv, NEW g \in gaps, g.resolved, NEW s \in g.start..g.end
               PROVE  Stored(s) \/ CutOff(s)
    BY DEF ResolvedGapsStored
  <2>1. g \in Gaps /\ cursor \in Int
    BY LedgerAssumption DEF CompleteInv, BoundsInv, TypeOK
  <2>2. s \in Seqs /\ StartLedger < s /\ s <= cursor
    BY <2>1, LedgerAssumption DEF Gaps, Seqs, GapInv
  <2>3. QED
    BY <2>2, CompleteBelow
<1>5. QED
  BY <1>1, <1>2, <1>3, <1>4, CompleteInit, PTL DEF Spec

----------------------------------------------------------------------------
(***************************************************************************)
(* One worker: whatever the network does, with one call in flight at a     *)
(* time the stored chain is linked and what is missing is recorded.        *)
(***************************************************************************)
\* Row s follows the row before it, if there is one.
LinkedRow(s) == PrevRow(s) # NoRow => ledger[s].prev = PrevRow(s).hash

Walked(from, to) ==
    \A s \in Seqs : from <= s /\ s <= to => ledger[s] # NoRow /\ LinkedRow(s)

\* What the call has done at each await.
WalkOK(r) ==
    /\ r.pc \in {"meta", "check", "save", "reorg", "rollback"} => Walked(r.from, r.seq - 1)
    /\ r.pc = "rewind" => Walked(r.from, r.seq - 2)
    /\ r.pc \in {"events", "tx", "event", "auth", "done"} => Walked(r.from, r.to)
    /\ r.pc = "save" /\ PrevRow(r.seq) # NoRow => r.prev = PrevRow(r.seq).hash
    /\ r.pc \in {"rollback", "rewind"} => \E x \in reorgEvents : x.seq = r.seq

\* Its events are of different ledgers, and an authorization is stored after its event.
TodoOK(r) ==
    /\ \A e, f \in r.todo : e.seq = f.seq => e = f
    /\ r.pc = "auth" => \A e \in r.todo : (\A f \in r.todo : e.seq <= f.seq) => e \in events

\* The call belongs to the running sync and begins behind the cursor.
OneCall(r) ==
    /\ r.pc = "free" <=> sync.pc # "ranges"
    /\ r.pc # "free" => r.live /\ r.from = sync.from /\ r.to = sync.to
    /\ sync.pc \in {"gap", "ranges"} => sync.from = cursor + 1

AloneInv(w) ==
    /\ BoundsInv
    /\ OneCall(range[w]) /\ WalkOK(range[w]) /\ TodoOK(range[w])
    /\ AdjacentLinked /\ HolesAreRecorded /\ AuthsBacked

\* Without a call there is nothing to say of one.
LEMMA FreeCall ==
    ASSUME NEW w, range'[w] = NoRange, sync'.pc \notin {"gap", "ranges"}
    PROVE  OneCall(range[w])' /\ WalkOK(range[w])' /\ TodoOK(range[w])'
BY DEF OneCall, WalkOK, TodoOK, NoRange

\* The chain does not change where the rows and the cursor do not.
LEMMA ChainRests ==
    ASSUME UNCHANGED <<cursor, ledger>>, reorgEvents \subseteq reorgEvents',
           AdjacentLinked, HolesAreRecorded
    PROVE  AdjacentLinked' /\ HolesAreRecorded'
BY DEF AdjacentLinked, HolesAreRecorded, Hole

\* The cursor moves to the end of what the call has walked.
LEMMA MoveCursor ==
    ASSUME BoundsInv, BoundsInv', UNCHANGED ledger, reorgEvents' = reorgEvents,
           AdjacentLinked, HolesAreRecorded, NEW to \in Int, Walked(cursor + 1, to), cursor' = to
    PROVE  AdjacentLinked' /\ HolesAreRecorded'
<1>0. cursor \in Int /\ MaxLedger \in Int /\ to <= MaxLedger
  BY LedgerAssumption DEF BoundsInv, TypeOK
<1>1. ASSUME NEW s \in Seqs, s < to, ledger[s] # NoRow, ledger[s + 1] # NoRow
      PROVE  ledger[s + 1].prev = ledger[s].hash
  <2>1. CASE s < cursor
    BY <1>1, <2>1 DEF AdjacentLinked
  <2>2. CASE ~(s < cursor)
    <3>1. s + 1 \in Seqs /\ cursor + 1 <= s + 1 /\ s + 1 <= to /\ (s + 1) - 1 = s
      BY <1>0, <1>1, <2>2 DEF Seqs
    <3>2. LinkedRow(s + 1) /\ PrevRow(s + 1) = ledger[s]
      BY <1>1, <3>1 DEF Walked, PrevRow
    <3>3. QED
      BY <1>1, <3>2 DEF LinkedRow
  <2>3. QED
    BY <2>1, <2>2
<1>2. ASSUME NEW s \in Seqs, StartLedger < s, s <= to, ledger[s] = NoRow
      PROVE  \E x \in reorgEvents : x.seq = s + 1
  <2>1. s <= cursor
    BY <1>0, <1>2 DEF Walked, Seqs
  <2>2. QED
    BY <1>2, <2>1 DEF HolesAreRecorded, Hole
<1>3. QED
  BY <1>1, <1>2 DEF AdjacentLinked, HolesAreRecorded, Hole

\* A call that throws ends the sync with it.
LEMMA ThrowAlone ==
    ASSUME NEW w, Slots = {w}, range[w].live, Throw(w)
    PROVE  range'[w] = NoRange /\ sync' = IdleSync
BY DEF Throw

\* A call that goes on does so with r.
LEMMA GotoAlone ==
    ASSUME NEW w \in Slots, BoundsInv, NEW r, Goto(w, r)
    PROVE  range'[w] = r
BY DEF Goto, BoundsInv, TypeOK

\* The round stays the same while its call goes on.
LEMMA SameCall ==
    ASSUME NEW w, OneCall(range[w]), UNCHANGED <<sync, cursor>>,
           range[w].pc # "free", range'[w].pc # "free", range'[w].live = range[w].live,
           range'[w].from = range[w].from, range'[w].to = range[w].to
    PROVE  OneCall(range[w])'
BY DEF OneCall

\* A step of the call that leaves the rows alone and goes on with r.
LEMMA CallGoesOn ==
    ASSUME NEW w, Slots = {w}, AloneInv(w), BoundsInv', range[w].pc # "free", NEW r, Goto(w, r),
           UNCHANGED <<sync, cursor, ledger, auths>>, reorgEvents \subseteq reorgEvents',
           events \subseteq events', r.pc # "free", r.live = range[w].live,
           r.from = range[w].from, r.to = range[w].to, WalkOK(r)', TodoOK(r)'
    PROVE  AloneInv(w)'
<1>1. range'[w] = r
  BY GotoAlone DEF AloneInv
<1>2. OneCall(range[w])'
  BY <1>1, SameCall DEF AloneInv
<1>3. AdjacentLinked' /\ HolesAreRecorded'
  BY ChainRests DEF AloneInv
<1>4. AuthsBacked'
  BY DEF AloneInv, AuthsBacked
<1>5. QED
  BY <1>1, <1>2, <1>3, <1>4 DEF AloneInv

\* What is walked depends on the rows alone.
LEMMA WalkRests ==
    ASSUME UNCHANGED ledger
    PROVE  /\ \A a, b : Walked(a, b)' <=> Walked(a, b)
           /\ \A s : PrevRow(s)' = PrevRow(s)
BY DEF Walked, LinkedRow, PrevRow

\* What is known of the call in flight, c.
CallIs(w, c) ==
    /\ range[w] = c /\ c \in Ranges /\ c.pc # "free" /\ RangeOK(c) /\ c.live
    /\ c.seq \in Seqs /\ c.from = cursor + 1 /\ cursor \in Nat /\ c.to \in Nat
    /\ c.from <= c.seq /\ c.seq <= c.to /\ c.to <= MaxLedger
    /\ WalkOK(c) /\ TodoOK(c)

\* The call in flight is of the running sync.
LEMMA TheCall ==
    ASSUME NEW w, Slots = {w}, AloneInv(w), range[w].pc # "free"
    PROVE  \E c : CallIs(w, c)
<1>1. /\ range[w] \in Ranges /\ RangeOK(range[w]) /\ OneCall(range[w]) /\ cursor \in StartLedger..MaxLedger
  BY DEF AloneInv, BoundsInv, TypeOK
<1>2. range[w].from = cursor + 1
  BY <1>1 DEF OneCall
<1>3. CallIs(w, range[w])
  BY <1>1, <1>2, LedgerAssumption DEF CallIs, AloneInv, RangeOK, Ranges, Seqs, OneCall
<1>4. QED
  BY <1>3

\* A call that returns has walked its range.
LEMMA ReturnAlone ==
    ASSUME NEW w, Slots = {w}, AloneInv(w), BoundsInv', Return(w), UNCHANGED <<sync, cursor, ledger, reorgEvents>>,
           range[w].pc \in {"events", "tx", "event", "auth"}, AuthsBacked'
    PROVE  AloneInv(w)'
<1>1. PICK c : CallIs(w, c)
  BY TheCall
<1>2. PICK r : r = [c EXCEPT !.pc = "done"]
  OBVIOUS
<1>3. /\ r.pc = "done" /\ r.live = c.live /\ r.from = c.from /\ r.to = c.to
      /\ r.todo = c.todo
  BY <1>1, <1>2 DEF Ranges, CallIs
<1>4. range'[w] = r
  <2>1. Goto(w, r)
    BY <1>1, <1>2 DEF Return, CallIs
  <2>2. QED
    BY <2>1, GotoAlone DEF AloneInv
<1>5. Walked(c.from, c.to)'
  BY <1>1, WalkRests DEF CallIs, WalkOK
<1>6. WalkOK(r)' /\ TodoOK(r)'
  BY <1>1, <1>3, <1>5 DEF CallIs, WalkOK, TodoOK
<1>7. OneCall(range[w])'
  BY <1>1, <1>3, <1>4, SameCall DEF AloneInv, CallIs
<1>8. AdjacentLinked' /\ HolesAreRecorded'
  BY ChainRests DEF AloneInv
<1>9. QED
  BY <1>4, <1>6, <1>7, <1>8 DEF AloneInv

\* The first steps of a call: up to its events only its rows are written.
LEMMA AloneWalkStep ==
    ASSUME NEW w, Slots = {w}, AloneInv(w), BoundsInv',
           FetchMeta(w) \/ CheckPrev(w) \/ RecordReorg(w)
    PROVE  AloneInv(w)'
<1>0. PICK c : CallIs(w, c)
  BY TheCall DEF FetchMeta, CheckPrev, RecordReorg
<1>1. CASE FetchMeta(w)
  <2>1. PICK r : r = [c EXCEPT !.pc = "check", !.hash = chain[c.seq], !.prev = chain[c.seq - 1]]
    OBVIOUS
  <2>2. /\ c.pc = "meta" /\ Goto(w, r)
        /\ UNCHANGED <<sync, cursor, ledger, auths, events, reorgEvents>>
    BY <1>0, <1>1, <2>1 DEF FetchMeta, tables, CallIs
  <2>3. /\ r.pc = "check" /\ r.live = c.live /\ r.from = c.from /\ r.to = c.to
        /\ r.seq = c.seq /\ r.todo = c.todo
    BY <1>0, <2>1 DEF Ranges, CallIs
  <2>4. WalkOK(r)' /\ TodoOK(r)'
    BY <1>0, <2>2, <2>3, WalkRests DEF CallIs, WalkOK, TodoOK
  <2>5. QED
    BY <1>0, <2>2, <2>3, <2>4, CallGoesOn DEF CallIs
<1>2. CASE CheckPrev(w)
  <2>1. /\ c.pc = "check"
        /\ UNCHANGED <<sync, cursor, ledger, auths, events, reorgEvents>>
    BY <1>0, <1>2 DEF CheckPrev, tables, CallIs
  <2>2. PICK r : Goto(w, r) /\ \/ r = [c EXCEPT !.pc = "reorg", !.expected = PrevRow(c.seq).hash]
                               \/ /\ r = [c EXCEPT !.pc = "save"]
                                  /\ PrevRow(c.seq) # NoRow => PrevRow(c.seq).hash = c.prev
    BY <1>0, <1>2 DEF CheckPrev, CallIs
  <2>3. /\ r.live = c.live /\ r.from = c.from /\ r.to = c.to
        /\ r.seq = c.seq /\ r.todo = c.todo /\ r.prev = c.prev
        /\ \/ r.pc = "reorg"
           \/ r.pc = "save" /\ (PrevRow(r.seq) # NoRow => r.prev = PrevRow(r.seq).hash)
    BY <1>0, <2>2 DEF Ranges, CallIs
  <2>4. WalkOK(r)' /\ TodoOK(r)'
    BY <1>0, <2>1, <2>3, WalkRests DEF CallIs, WalkOK, TodoOK
  <2>5. QED
    BY <1>0, <2>1, <2>2, <2>3, <2>4, CallGoesOn DEF CallIs
<1>3. CASE RecordReorg(w)
  <2>1. PICK r : r = [c EXCEPT !.pc = "rollback"]
    OBVIOUS
  <2>2. /\ c.pc = "reorg" /\ Goto(w, r)
        /\ reorgEvents' = reorgEvents \cup {[seq |-> c.seq, expected |-> c.expected, actual |-> c.prev]}
        /\ UNCHANGED <<sync, cursor, ledger, auths, events>>
    BY <1>0, <1>3, <2>1 DEF RecordReorg, CallIs
  <2>3. /\ r.pc = "rollback" /\ r.live = c.live /\ r.from = c.from /\ r.to = c.to
        /\ r.seq = c.seq /\ r.todo = c.todo
    BY <1>0, <2>1 DEF Ranges, CallIs
  <2>4. \E x \in reorgEvents' : x.seq = r.seq
    <3>1. PICK x : x = [seq |-> c.seq, expected |-> c.expected, actual |-> c.prev]
      OBVIOUS
    <3>2. x \in reorgEvents' /\ x.seq = c.seq
      BY <2>2, <3>1
    <3>3. QED
      BY <2>3, <3>2
  <2>5. WalkOK(r)' /\ TodoOK(r)'
    BY <1>0, <2>2, <2>3, <2>4, WalkRests DEF CallIs, WalkOK, TodoOK
  <2>6. QED
    BY <1>0, <2>2, <2>3, <2>5, CallGoesOn DEF CallIs
<1>4. QED
  BY <1>1, <1>2, <1>3

\* A row is stored behind the cursor, and linked to the row before it.
LEMMA AloneSaveStep ==
    ASSUME NEW w, Slots = {w}, AloneInv(w), BoundsInv', SaveLedger(w)
    PROVE  AloneInv(w)'
<1>0. PICK c : CallIs(w, c)
  BY TheCall DEF SaveLedger
<1>1. PICK q, row : q = c.seq /\ row = [hash |-> c.hash, prev |-> c.prev]
  OBVIOUS
<1>2. /\ c.pc = "save" /\ ledger' = [ledger EXCEPT ![q] = row]
      /\ UNCHANGED <<sync, cursor, auths, events, reorgEvents>>
  BY <1>0, <1>1 DEF SaveLedger, CallIs
<1>3. row # NoRow /\ row.prev = c.prev /\ q \in Seqs
  BY <1>0, <1>1, LedgerAssumption DEF NoRow, Ranges, Hashes, CallIs
<1>4. /\ ledger'[q] = row
      /\ \A s \in Seqs : s # q => ledger'[s] = ledger[s]
  BY <1>2, <1>3 DEF AloneInv, BoundsInv, TypeOK
<1>5. \A s \in Seqs : s <= q => PrevRow(s)' = PrevRow(s)
  BY <1>3, <1>4 DEF PrevRow, Seqs
<1>6. Walked(c.from, q)'
  <2> SUFFICES ASSUME NEW s \in Seqs, c.from <= s, s <= q
               PROVE  ledger'[s] # NoRow /\ LinkedRow(s)'
    BY DEF Walked
  <2>1. CASE s = q
    <3>1. PrevRow(q) # NoRow => c.prev = PrevRow(q).hash
      BY <1>0, <1>1, <1>2 DEF WalkOK, CallIs
    <3>2. QED
      BY <1>3, <1>4, <1>5, <2>1, <3>1 DEF LinkedRow, Seqs
  <2>2. CASE s # q
    <3>1. Walked(c.from, q - 1)
      BY <1>0, <1>1, <1>2 DEF WalkOK, CallIs
    <3>2. ledger[s] # NoRow /\ LinkedRow(s)
      BY <1>3, <2>2, <3>1 DEF Walked, Seqs
    <3>3. QED
      BY <1>4, <1>5, <2>2, <3>2 DEF LinkedRow
  <2>3. QED
    BY <2>1, <2>2
<1>7. AdjacentLinked'
  <2> SUFFICES ASSUME NEW s \in Seqs, s < cursor, ledger'[s] # NoRow, ledger'[s + 1] # NoRow
               PROVE  ledger'[s + 1].prev = ledger'[s].hash
    BY <1>2 DEF AdjacentLinked
  <2>1. s # q /\ s + 1 # q /\ s + 1 \in Seqs
    <3>1. /\ q \in Int /\ cursor \in Int /\ cursor + 1 <= q /\ q <= MaxLedger
      BY <1>0, <1>1 DEF Seqs, CallIs
    <3>2. QED
      BY <3>1, LedgerAssumption DEF Seqs
  <2>2. QED
    BY <1>4, <2>1 DEF AloneInv, AdjacentLinked
<1>8. HolesAreRecorded'
  BY <1>2, <1>3, <1>4 DEF AloneInv, HolesAreRecorded, Hole
<1>9. PICK r : Goto(w, r) /\ \/ /\ c.seq < c.to
                                /\ r = [c EXCEPT !.pc = "meta", !.seq = c.seq + 1, !.hash = 0, !.prev = 0]
                             \/ /\ ~(c.seq < c.to)
                                /\ r = [c EXCEPT !.pc = "events", !.hash = 0, !.prev = 0]
  BY <1>0 DEF SaveLedger, CallIs
<1>10. /\ r.live = c.live /\ r.from = c.from /\ r.to = c.to
       /\ r.todo = c.todo
       /\ \/ r.pc = "meta" /\ r.seq = q + 1
          \/ r.pc = "events" /\ q = r.to
  <2>1. q \in Int /\ c.to \in Int /\ q <= c.to
    BY <1>0, <1>1 DEF CallIs, Seqs
  <2>2. CASE r = [c EXCEPT !.pc = "meta", !.seq = c.seq + 1, !.hash = 0, !.prev = 0]
    BY <1>0, <1>1, <2>2 DEF Ranges, CallIs
  <2>3. CASE ~(c.seq < c.to) /\ r = [c EXCEPT !.pc = "events", !.hash = 0, !.prev = 0]
    <3>1. r.pc = "events" /\ r.live = c.live /\ r.from = c.from /\ r.to = c.to /\ r.todo = c.todo
      BY <1>0, <2>3 DEF Ranges, CallIs
    <3>2. QED
      BY <1>1, <2>1, <2>3, <3>1
  <2>4. QED
    BY <1>9, <2>2, <2>3
<1>11. WalkOK(r)' /\ TodoOK(r)'
  <2>1. (q + 1) - 1 = q
    BY <1>3 DEF Seqs
  <2>2. QED
    BY <1>0, <1>2, <1>6, <1>10, <2>1 DEF CallIs, WalkOK, TodoOK
<1>12. range'[w] = r
  BY <1>9, GotoAlone DEF AloneInv
<1>13. OneCall(range[w])'
  BY <1>0, <1>2, <1>10, <1>12, SameCall DEF CallIs, AloneInv
<1>14. AuthsBacked'
  BY <1>2 DEF AloneInv, AuthsBacked
<1>15. QED
  BY <1>7, <1>8, <1>11, <1>12, <1>13, <1>14 DEF AloneInv

\* The rollback leaves at most one hole, which the ReorgEvent names, and takes the
\* authorizations that start in the ledger with its events.
LEMMA AloneRollback ==
    ASSUME NEW w, Slots = {w}, AloneInv(w), BoundsInv', Rollback(w)
    PROVE  AloneInv(w)'
<1>0. PICK c : CallIs(w, c)
  BY TheCall DEF Rollback
<1>1. PICK q, r : q = c.seq - 1 /\ r = [c EXCEPT !.pc = "rewind"]
  OBVIOUS
<1>2. /\ c.pc = "rollback" /\ Goto(w, r)
      /\ ledger' = [ledger EXCEPT ![q] = NoRow]
      /\ auths' = {a \in auths : AuthStart[a.seq] # q}
      /\ events' = {e \in events : e.seq # q}
      /\ UNCHANGED <<sync, cursor, reorgEvents>>
  BY <1>0, <1>1 DEF Rollback, CallIs
<1>3. /\ r.pc = "rewind" /\ r.live = c.live /\ r.from = c.from /\ r.to = c.to
      /\ r.seq = c.seq /\ r.todo = c.todo
  BY <1>0, <1>1 DEF Ranges, CallIs
<1>4. q \in Int /\ c.seq \in Int /\ c.seq = q + 1 /\ c.from \in Int
  BY <1>0, <1>1 DEF CallIs, Seqs
<1>5. /\ \A s \in Seqs : ledger'[s] # NoRow => s # q /\ ledger'[s] = ledger[s]
      /\ \A s \in Seqs : s # q => ledger'[s] = ledger[s]
  BY <1>2 DEF AloneInv, BoundsInv, TypeOK
<1>6. AdjacentLinked'
  <2> SUFFICES ASSUME NEW s \in Seqs, s < cursor, ledger'[s] # NoRow, ledger'[s + 1] # NoRow
               PROVE  ledger'[s + 1].prev = ledger'[s].hash
    BY <1>2 DEF AdjacentLinked
  <2>1. s + 1 \in Seqs
    <3>1. cursor \in Int /\ cursor <= MaxLedger
      BY LedgerAssumption DEF AloneInv, BoundsInv, TypeOK
    <3>2. QED
      BY <3>1, LedgerAssumption DEF Seqs
  <2>2. QED
    BY <1>5, <2>1 DEF AloneInv, AdjacentLinked
<1>7. \E x \in reorgEvents : x.seq = q + 1
  BY <1>0, <1>2, <1>4 DEF WalkOK, CallIs
<1>8. HolesAreRecorded'
  BY <1>2, <1>5, <1>7 DEF AloneInv, HolesAreRecorded, Hole
<1>9. AuthsBacked'
  BY <1>2 DEF AloneInv, AuthsBacked
<1>10. Walked(c.from, q - 1)'
  <2> SUFFICES ASSUME NEW s \in Seqs, c.from <= s, s <= q - 1
               PROVE  ledger'[s] # NoRow /\ LinkedRow(s)'
    BY DEF Walked
  <2>1. s # q /\ s - 1 # q /\ s <= q /\ c.seq - 1 = q
    BY <1>4 DEF Seqs
  <2>2. Walked(c.from, q)
    BY <1>0, <1>2, <2>1 DEF WalkOK, CallIs
  <2>3. ledger[s] # NoRow /\ LinkedRow(s)
    BY <2>1, <2>2 DEF Walked
  <2>4. ledger'[s] = ledger[s] /\ PrevRow(s)' = PrevRow(s)
    BY <1>5, <2>1 DEF PrevRow
  <2>5. QED
    BY <2>3, <2>4 DEF LinkedRow
<1>11. WalkOK(r)' /\ TodoOK(r)'
  <2>1. c.seq - 2 = q - 1
    BY <1>4
  <2>2. QED
    BY <1>0, <1>2, <1>3, <1>4, <1>7, <1>10, <2>1 DEF CallIs, WalkOK, TodoOK
<1>12. range'[w] = r
  BY <1>2, GotoAlone DEF AloneInv
<1>13. OneCall(range[w])'
  BY <1>0, <1>2, <1>3, <1>12, SameCall DEF CallIs, AloneInv
<1>14. QED
  BY <1>6, <1>8, <1>9, <1>11, <1>12, <1>13 DEF AloneInv

\* The cursor goes back behind the ledger that was rolled back, or on to it.
LEMMA AloneRewind ==
    ASSUME NEW w, Slots = {w}, AloneInv(w), BoundsInv', Rewind(w)
    PROVE  AloneInv(w)'
<1>0. PICK c : CallIs(w, c)
  BY TheCall DEF Rewind
<1>1. /\ c.pc = "rewind" /\ cursor' = c.seq - 2 /\ Throw(w)
      /\ UNCHANGED <<ledger, reorgEvents, events, auths>>
  BY <1>0 DEF Rewind, CallIs, tables
<1>2. Walked(cursor + 1, c.seq - 2) /\ c.seq - 2 \in Int
  BY <1>0, <1>1 DEF WalkOK, CallIs, Seqs
<1>3. AdjacentLinked' /\ HolesAreRecorded'
  BY <1>1, <1>2, MoveCursor DEF AloneInv
<1>4. range'[w] = NoRange /\ sync' = IdleSync
  BY <1>0, <1>1, ThrowAlone DEF CallIs
<1>5. OneCall(range[w])' /\ WalkOK(range[w])' /\ TodoOK(range[w])'
  BY <1>4, FreeCall DEF IdleSync, SyncAt
<1>6. AuthsBacked'
  BY <1>1 DEF AloneInv, AuthsBacked
<1>7. QED
  BY <1>3, <1>5, <1>6 DEF AloneInv

\* A sync that ends before the cursor has moved leaves nothing behind but what its
\* call has stored.
LEMMA AloneEnds ==
    ASSUME NEW w, AloneInv(w), BoundsInv', range'[w] = NoRange, sync'.pc \notin {"gap", "ranges"},
           UNCHANGED <<cursor, ledger, reorgEvents, auths>>, events \subseteq events'
    PROVE  AloneInv(w)'
<1>1. OneCall(range[w])' /\ WalkOK(range[w])' /\ TodoOK(range[w])'
  BY FreeCall
<1>2. AdjacentLinked' /\ HolesAreRecorded'
  BY ChainRests DEF AloneInv
<1>3. AuthsBacked'
  BY DEF AloneInv, AuthsBacked
<1>4. QED
  BY <1>1, <1>2, <1>3 DEF AloneInv

\* The end of an event.
LEMMA AloneEventDone ==
    ASSUME NEW w, Slots = {w}, AloneInv(w), BoundsInv', NEW e, EventDone(w, e),
           UNCHANGED <<sync, cursor, ledger, reorgEvents>>,
           range[w].pc \in {"event", "auth"}, events \subseteq events', AuthsBacked'
    PROVE  AloneInv(w)'
<1>1. CASE Return(w)
  BY <1>1, ReturnAlone
<1>2. CASE Goto(w, [range[w] EXCEPT !.pc = "tx", !.todo = @ \ {e}])
  <2>1. PICK c : CallIs(w, c)
    BY TheCall
  <2>2. PICK r : Goto(w, r) /\ r = [c EXCEPT !.pc = "tx", !.todo = c.todo \ {e}]
    BY <1>2, <2>1 DEF CallIs
  <2>3. /\ r.pc = "tx" /\ r.live = c.live /\ r.from = c.from /\ r.to = c.to
        /\ r.todo \subseteq c.todo
    BY <2>1, <2>2 DEF Ranges, CallIs
  <2>4. Walked(c.from, c.to)'
    BY <2>1, WalkRests DEF CallIs, WalkOK
  <2>5. WalkOK(r)' /\ TodoOK(r)'
    BY <2>1, <2>3, <2>4 DEF CallIs, WalkOK, TodoOK
  <2>6. range'[w] = r
    BY <2>2, GotoAlone DEF AloneInv
  <2>7. OneCall(range[w])'
    BY <2>1, <2>3, <2>6, SameCall DEF AloneInv, CallIs
  <2>8. AdjacentLinked' /\ HolesAreRecorded'
    BY ChainRests DEF AloneInv
  <2>9. QED
    BY <2>5, <2>6, <2>7, <2>8 DEF AloneInv
<1>3. QED
  BY <1>1, <1>2 DEF EventDone

\* The events and what is stored beside them.
LEMMA AloneEventStep ==
    ASSUME NEW w, Slots = {w}, AloneInv(w), BoundsInv',
           FetchEvents(w) \/ \E e \in range[w].todo : SaveTransaction(w, e) \/ SaveEvent(w, e) \/ SaveAuth(w, e)
    PROVE  AloneInv(w)'
<1>0. PICK c : CallIs(w, c)
  BY TheCall DEF FetchEvents, SaveTransaction, SaveEvent, SaveAuth
<1>1. CASE FetchEvents(w)
  <2> DEFINE inRange == EventsIn(range[w].from, range[w].to)
             page == {s \in inRange : Cardinality(EventsIn(range[w].from, s)) <= EVENT_PAGE}
             reported == {[seq |-> s, ver |-> chain[s]] : s \in page}
  <2>0. PICK found : found = reported
    OBVIOUS
  <2>1. Return(w) \/ Goto(w, [range[w] EXCEPT !.pc = "tx", !.todo = found])
    <3>1. Return(w) \/ Goto(w, [range[w] EXCEPT !.pc = "tx", !.todo = reported])
      BY <1>1, Zenon DEF FetchEvents
    <3> HIDE DEF reported
    <3>2. QED
      BY <2>0, <3>1, Zenon
  <2>2. c.pc = "events" /\ UNCHANGED <<sync, cursor, ledger, auths, events, reorgEvents>>
    BY <1>0, <1>1 DEF FetchEvents, tables, CallIs
  <2>3. CASE Return(w)
    <3>1. AuthsBacked'
      BY <2>2 DEF AloneInv, AuthsBacked
    <3>2. QED
      BY <1>0, <2>2, <2>3, <3>1, ReturnAlone DEF CallIs
  <2>4. CASE Goto(w, [range[w] EXCEPT !.pc = "tx", !.todo = found])
    <3>1. PICK r : Goto(w, r) /\ r = [c EXCEPT !.pc = "tx", !.todo = found]
      BY <1>0, <2>4 DEF CallIs
    <3>2. /\ r.pc = "tx" /\ r.live = c.live /\ r.from = c.from /\ r.to = c.to /\ r.todo = found
      BY <1>0, <3>1 DEF Ranges, CallIs
    <3>3. \A e, f \in found : e.seq = f.seq => e = f
      BY <2>0
    <3>4. WalkOK(r)' /\ TodoOK(r)'
      BY <1>0, <2>2, <3>2, <3>3, WalkRests DEF CallIs, WalkOK, TodoOK
    <3>5. QED
      BY <1>0, <2>2, <3>1, <3>2, <3>4, CallGoesOn DEF CallIs
  <2>5. QED
    BY <2>1, <2>3, <2>4
<1>2. ASSUME NEW e \in range[w].todo, SaveTransaction(w, e)
      PROVE  AloneInv(w)'
  <2>1. c.pc = "tx" /\ UNCHANGED <<cursor, ledger, auths, events, reorgEvents>>
    BY <1>0, <1>2 DEF SaveTransaction, CallIs
  <2>2. CASE Throw(w)
    <3>1. range'[w] = NoRange /\ sync' = IdleSync
      BY <1>0, <2>2, ThrowAlone DEF CallIs
    <3>2. QED
      BY <2>1, <3>1, AloneEnds DEF IdleSync, SyncAt
  <2>3. CASE Goto(w, [range[w] EXCEPT !.pc = "event"]) /\ UNCHANGED sync
    <3>1. PICK r : Goto(w, r) /\ r = [c EXCEPT !.pc = "event"]
      BY <1>0, <2>3 DEF CallIs
    <3>2. /\ r.pc = "event" /\ r.live = c.live /\ r.from = c.from /\ r.to = c.to /\ r.todo = c.todo
      BY <1>0, <3>1 DEF Ranges, CallIs
    <3>3. WalkOK(r)' /\ TodoOK(r)'
      BY <1>0, <2>1, <3>2, WalkRests DEF CallIs, WalkOK, TodoOK
    <3>4. QED
      BY <1>0, <2>1, <2>3, <3>1, <3>2, <3>3, CallGoesOn DEF CallIs
  <2>4. QED
    BY <1>2, <2>2, <2>3 DEF SaveTransaction
<1>3. ASSUME NEW e \in range[w].todo, SaveEvent(w, e)
      PROVE  AloneInv(w)'
  <2>1. c.pc = "event" /\ UNCHANGED <<cursor, ledger, auths, reorgEvents>>
        /\ (events' = events \/ events' = events \cup {e})
    BY <1>0, <1>3 DEF SaveEvent, CallIs
  <2>2. AuthsBacked'
    BY <2>1 DEF AloneInv, AuthsBacked
  <2>3. CASE Throw(w)
    <3>1. range'[w] = NoRange /\ sync' = IdleSync
      BY <1>0, <2>3, ThrowAlone DEF CallIs
    <3>2. QED
      BY <2>1, <3>1, AloneEnds DEF IdleSync, SyncAt
  <2>4. CASE Goto(w, [range[w] EXCEPT !.pc = "auth"]) /\ UNCHANGED sync /\ events' = events \cup {e}
    <3>1. PICK r : Goto(w, r) /\ r = [c EXCEPT !.pc = "auth"]
      BY <1>0, <2>4 DEF CallIs
    <3>2. /\ r.pc = "auth" /\ r.live = c.live /\ r.from = c.from /\ r.to = c.to /\ r.todo = c.todo
      BY <1>0, <3>1 DEF Ranges, CallIs
    <3>3. e \in c.todo /\ (\A f \in c.todo : e.seq <= f.seq) /\ \A f \in c.todo : f.seq \in Int
      <4>1. c.todo \subseteq EventIds
        BY <1>0 DEF CallIs, Ranges
      <4>2. QED
        BY <1>0, <1>3, <4>1, LedgerAssumption DEF SaveEvent, IsNext, CallIs, EventIds
    <3>4. ASSUME NEW d \in c.todo, \A f \in c.todo : d.seq <= f.seq
          PROVE  d \in events'
      <4>1. d.seq = e.seq
        BY <3>3, <3>4
      <4>2. d = e
        BY <1>0, <3>3, <4>1 DEF CallIs, TodoOK
      <4>3. QED
        BY <2>4, <4>2
    <3>5. TodoOK(r)'
      BY <1>0, <3>2, <3>4 DEF CallIs, TodoOK
    <3>6. WalkOK(r)'
      BY <1>0, <2>1, <3>2, WalkRests DEF CallIs, WalkOK
    <3>7. QED
      BY <1>0, <2>1, <2>4, <3>1, <3>2, <3>5, <3>6, CallGoesOn DEF CallIs
  <2>5. CASE EventDone(w, e) /\ UNCHANGED sync
    BY <1>0, <2>1, <2>2, <2>5, AloneEventDone DEF CallIs
  <2>6. QED
    BY <1>3, <2>3, <2>4, <2>5 DEF SaveEvent
<1>4. ASSUME NEW e \in range[w].todo, SaveAuth(w, e)
      PROVE  AloneInv(w)'
  <2>1. /\ c.pc = "auth" /\ UNCHANGED <<sync, cursor, ledger, events, reorgEvents>>
        /\ auths' = auths \cup {e} /\ EventDone(w, e)
    BY <1>0, <1>4 DEF SaveAuth, CallIs
  <2>2. e \in events
    BY <1>0, <1>4, <2>1 DEF SaveAuth, IsNext, TodoOK, CallIs
  <2>3. AuthsBacked'
    BY <2>1, <2>2 DEF AloneInv, AuthsBacked
  <2>4. QED
    BY <1>0, <2>1, <2>3, AloneEventDone DEF CallIs
<1>5. QED
  BY <1>1, <1>2, <1>3, <1>4

\* A round of one worker is one call, from the ledger behind the cursor on.
LEMMA AloneStarts ==
    ASSUME NEW w, Slots = {w}, AloneInv(w), BoundsInv', UNCHANGED <<cursor, ledger, reorgEvents, auths, events>>,
           NEW from \in Nat, NEW to \in Nat, from = cursor + 1, StartRanges({<<from, to>>}),
           sync'.pc = "ranges", sync'.from = from, sync'.to = to
    PROVE  AloneInv(w)'
<1>1. PICK r : r = NewRange(<<from, to>>)
  OBVIOUS
<1>2. range'[w] = r
  <2>1. PICK slot \in [{<<from, to>>} -> free] :
           range' = [x \in Slots |-> IF \E c \in {<<from, to>>} : slot[c] = x
                                     THEN NewRange(CHOOSE c \in {<<from, to>>} : slot[c] = x)
                                     ELSE range[x]]
    BY DEF StartRanges
  <2>2. slot[<<from, to>>] = w
    BY <2>1 DEF free
  <2>3. (CHOOSE c \in {<<from, to>>} : slot[c] = w) = <<from, to>>
    BY <2>2
  <2>4. QED
    BY <1>1, <2>1, <2>2, <2>3
<1>3. /\ r.pc = "meta" /\ r.live /\ r.from = from /\ r.to = to /\ r.seq = from /\ r.todo = {}
  BY <1>1 DEF NewRange
<1>4. Walked(from, from - 1)'
  BY DEF Walked, Seqs
<1>5. WalkOK(r)' /\ TodoOK(r)'
  BY <1>3, <1>4 DEF WalkOK, TodoOK
<1>6. OneCall(range[w])'
  BY <1>2, <1>3 DEF OneCall
<1>7. AdjacentLinked' /\ HolesAreRecorded' /\ AuthsBacked'
  BY ChainRests DEF AloneInv, AuthsBacked
<1>8. QED
  BY <1>2, <1>5, <1>6, <1>7 DEF AloneInv

\* A step beside the call.
LEMMA AloneBeside ==
    ASSUME NEW w, AloneInv(w), BoundsInv', UNCHANGED <<cursor, ledger, reorgEvents, auths, events, range>>,
           sync.pc # "ranges", sync'.pc # "ranges", sync'.pc = "gap" => sync'.from = cursor + 1
    PROVE  AloneInv(w)'
<1>1. OneCall(range[w])'
  BY DEF AloneInv, OneCall
<1>2. range[w].pc = "free"
  BY DEF AloneInv, OneCall
<1>3. WalkOK(range[w])' /\ TodoOK(range[w])'
  BY <1>2 DEF AloneInv, WalkOK, TodoOK
<1>4. AdjacentLinked' /\ HolesAreRecorded' /\ AuthsBacked'
  BY ChainRests DEF AloneInv, AuthsBacked
<1>5. QED
  BY <1>1, <1>3, <1>4 DEF AloneInv

\* Every step keeps the invariant, while at most one call is in flight.
LEMMA AloneStep ==
    ASSUME NEW w, Slots = {w}, WORKERS = 1, AloneInv(w), [Next]_vars
    PROVE  AloneInv(w)'
<1>0. BoundsInv' /\ range[w] \in Ranges /\ sync \in Syncs /\ cursor \in Nat
  BY BoundsStep, LedgerAssumption DEF AloneInv, BoundsInv, TypeOK
<1>1. ASSUME UNCHANGED <<cursor, ledger, reorgEvents, auths, events, range, sync>>
      PROVE  AloneInv(w)'
  <2>1. AdjacentLinked' /\ HolesAreRecorded' /\ AuthsBacked'
    BY <1>1, ChainRests DEF AloneInv, AuthsBacked
  <2>2. OneCall(range[w])' /\ TodoOK(range[w])'
    BY <1>1 DEF AloneInv, OneCall, TodoOK
  <2>3. PICK c : c = range[w]
    OBVIOUS
  <2>4. WalkOK(c)' /\ range'[w] = c
    BY <1>1, <2>3, WalkRests DEF AloneInv, WalkOK
  <2>5. QED
    BY <1>0, <2>1, <2>2, <2>4 DEF AloneInv
<1>2. CASE CloseLedger \/ (\E h \in 1..tip : Reorg(h)) \/ UNCHANGED vars
  BY <1>1, <1>2 DEF CloseLedger, Reorg, vars, tables, memory
<1>3. CASE Poll
  BY <1>0, <1>3, AloneBeside DEF Poll, BeginSync, isProcessing, SyncAt, tables
<1>4. ASSUME NEW t \in notices, OnLedgerClose(t)
      PROVE  AloneInv(w)'
  <2>1. CASE isProcessing
    BY <1>1, <1>4, <2>1 DEF OnLedgerClose, tables
  <2>2. CASE ~isProcessing
    BY <1>0, <1>4, <2>2, AloneBeside DEF OnLedgerClose, BeginSync, isProcessing, SyncAt, tables
  <2>3. QED
    BY <2>1, <2>2
<1>5. CASE ReadCursor
  <2>1. UNCHANGED <<cursor, ledger, events, auths, reorgEvents>> /\ sync.pc = "read"
    BY <1>5 DEF ReadCursor, tables
  <2>2. CASE UNCHANGED range /\ (sync' = IdleSync \/ sync' = SyncAt("gap", sync.target, cursor + 1, sync.target - 1))
    BY <1>0, <2>1, <2>2, AloneBeside DEF IdleSync, SyncAt
  <2>3. CASE /\ cursor = sync.target - 1
             /\ sync' = SyncAt("ranges", sync.target, sync.target, sync.target)
             /\ StartRanges({<<sync.target, sync.target>>})
    <3>1. PICK n \in Nat : n = sync.target /\ n = cursor + 1
      BY <1>0, <2>3, LedgerAssumption DEF Syncs
    <3>2. StartRanges({<<n, n>>}) /\ sync'.pc = "ranges" /\ sync'.from = n /\ sync'.to = n
      BY <2>3, <3>1 DEF SyncAt
    <3>3. QED
      BY <1>0, <2>1, <3>1, <3>2, AloneStarts
  <2>4. QED
    BY <1>5, <2>2, <2>3 DEF ReadCursor
<1>6. CASE RecordGap
  <2>1. /\ UNCHANGED <<cursor, ledger, events, auths, reorgEvents>> /\ sync.pc = "gap"
        /\ sync' = SyncAt("ranges", sync.target, sync.from, sync.to)
        /\ StartRanges({<<sync.from, sync.to>>})
    BY <1>6 DEF RecordGap, Chunks
  <2>2. PICK from \in Nat, to \in Nat : from = sync.from /\ to = sync.to /\ from = cursor + 1
    BY <1>0, <2>1, LedgerAssumption DEF Syncs, AloneInv, OneCall
  <2>3. StartRanges({<<from, to>>}) /\ sync'.pc = "ranges" /\ sync'.from = from /\ sync'.to = to
    BY <2>1, <2>2 DEF SyncAt
  <2>4. QED
    BY <1>0, <2>1, <2>2, <2>3, AloneStarts
<1>7. CASE Advance
  <2>1. /\ UNCHANGED <<ledger, events, auths, reorgEvents>> /\ sync.pc = "ranges" /\ cursor' = sync.to
        /\ range[w].live => range[w].pc = "done"
        /\ range'[w] = IF range[w].live THEN NoRange ELSE range[w]
    BY <1>7 DEF Advance, AllDone, tables
  <2>2. /\ range[w].live /\ range[w].to = sync.to /\ range[w].from = cursor + 1
        /\ range[w].pc = "done"
    BY <2>1 DEF AloneInv, OneCall
  <2>3. PICK to \in Int : to = sync.to
    BY <1>0 DEF Syncs
  <2>4. Walked(cursor + 1, to)
    BY <2>2, <2>3 DEF AloneInv, WalkOK
  <2>5. AdjacentLinked' /\ HolesAreRecorded'
    BY <1>0, <2>1, <2>3, <2>4, MoveCursor DEF AloneInv
  <2>6. sync'.pc \notin {"gap", "ranges"}
    BY <1>7 DEF Advance, NextRound, SyncAt
  <2>7. OneCall(range[w])' /\ WalkOK(range[w])' /\ TodoOK(range[w])'
    BY <2>1, <2>2, <2>6, FreeCall
  <2>8. AuthsBacked'
    BY <2>1 DEF AloneInv, AuthsBacked
  <2>9. QED
    BY <1>0, <2>5, <2>7, <2>8 DEF AloneInv
<1>8. CASE ResolveGap
  BY <1>0, <1>8, AloneBeside DEF ResolveGap, NextRound, SyncAt
<1>9. ASSUME NEW v \in Slots, RangeStep(v)
      PROVE  AloneInv(w)'
  BY <1>0, <1>9, AloneWalkStep, AloneSaveStep, AloneRollback, AloneRewind, AloneEventStep DEF RangeStep
<1>10. ASSUME NEW v \in Slots, FailRange(v)
       PROVE  AloneInv(w)'
  <2>1. UNCHANGED <<cursor, ledger, events, auths, reorgEvents>> /\ Throw(w) /\ range[w].pc # "free"
    BY <1>10 DEF FailRange, tables
  <2>2. range'[w] = NoRange /\ sync' = IdleSync
    BY <2>1, ThrowAlone DEF AloneInv, OneCall
  <2>3. QED
    BY <1>0, <2>1, <2>2, AloneEnds DEF IdleSync, SyncAt
<1>11. CASE FailSync
  <2>1. /\ UNCHANGED <<cursor, ledger, events, auths, reorgEvents>> /\ sync' = IdleSync
        /\ range'[w] = IF range[w].live THEN NoRange ELSE range[w]
    BY <1>11 DEF FailSync, tables
  <2>2. CASE range[w].live
    BY <1>0, <2>1, <2>2, AloneEnds DEF IdleSync, SyncAt
  <2>3. CASE ~range[w].live
    <3>1. range[w].pc = "free" /\ sync.pc # "ranges" /\ range'[w] = range[w]
      BY <2>1, <2>3 DEF AloneInv, OneCall
    <3>2. UNCHANGED range
      BY <1>11, <2>3 DEF FailSync, AloneInv, BoundsInv, TypeOK
    <3>3. QED
      BY <1>0, <2>1, <3>1, <3>2, AloneBeside DEF IdleSync, SyncAt
  <2>4. QED
    BY <2>2, <2>3
<1>12. CASE Crash
  <2>1. /\ UNCHANGED <<cursor, ledger, events, auths, reorgEvents>> /\ sync' = IdleSync
        /\ range'[w] = NoRange
    BY <1>12 DEF Crash, tables
  <2>2. QED
    BY <1>0, <2>1, AloneEnds DEF IdleSync, SyncAt
<1>13. QED
  BY <1>2, <1>3, <1>4, <1>5, <1>6, <1>7, <1>8, <1>9, <1>10, <1>11, <1>12
  DEF Next, SyncStep

\* Initially there are no rows and no call.
LEMMA AloneInit ==
    ASSUME NEW w, Slots = {w}, Init
    PROVE  AloneInv(w)
<1>1. BoundsInv
  BY BoundsInit
<1>2. range[w] = NoRange /\ sync = IdleSync /\ cursor = StartLedger /\ auths = {}
      /\ \A s \in Seqs : ledger[s] = NoRow
  BY DEF Init
<1>3. OneCall(range[w]) /\ WalkOK(range[w]) /\ TodoOK(range[w])
  BY <1>2 DEF OneCall, WalkOK, TodoOK, NoRange, IdleSync, SyncAt
<1>4. AdjacentLinked /\ HolesAreRecorded /\ AuthsBacked
  BY <1>2, LedgerAssumption DEF AdjacentLinked, HolesAreRecorded, Hole, AuthsBacked, Seqs
<1>5. QED
  BY <1>1, <1>3, <1>4 DEF AloneInv

\* With one worker the stored chain is linked up to the cursor, whatever reorgs the
\* network has and wherever a round fails or the process dies.
THEOREM ChainLinked ==
    ASSUME NEW w, Slots = {w}, WORKERS = 1
    PROVE  Spec => []AdjacentLinked
<1>1. AloneInv(w) => AdjacentLinked
  BY DEF AloneInv
<1>2. Init => AloneInv(w)
  BY AloneInit
<1>3. AloneInv(w) /\ [Next]_vars => AloneInv(w)'
  BY AloneStep
<1>4. QED
  BY <1>1, <1>2, <1>3, PTL DEF Spec

\* With one worker a ledger below the cursor is only missing where a ReorgEvent says so.
THEOREM HolesRecorded ==
    ASSUME NEW w, Slots = {w}, WORKERS = 1
    PROVE  Spec => []HolesAreRecorded
<1>1. AloneInv(w) => HolesAreRecorded
  BY DEF AloneInv
<1>2. Init => AloneInv(w)
  BY AloneInit
<1>3. AloneInv(w) /\ [Next]_vars => AloneInv(w)'
  BY AloneStep
<1>4. QED
  BY <1>1, <1>2, <1>3, PTL DEF Spec

\* With one worker no rollback leaves an authorization without its event, but for those
\* that declare another start ledger than their own.
THEOREM AuthsRolledBack ==
    ASSUME NEW w, Slots = {w}, WORKERS = 1
    PROVE  Spec => []AuthsBacked
<1>1. AloneInv(w) => AuthsBacked
  BY DEF AloneInv
<1>2. Init => AloneInv(w)
  BY AloneInit
<1>3. AloneInv(w) /\ [Next]_vars => AloneInv(w)'
  BY AloneStep
<1>4. QED
  BY <1>1, <1>2, <1>3, PTL DEF Spec

----------------------------------------------------------------------------
(***************************************************************************)
(* The archiver, which empties the rawXdr of the transactions that the     *)
(* indexer has stored: for any transactions, batch size, number of         *)
(* processes and number of faults.                                         *)
(***************************************************************************)
\* A set of natural numbers that is not empty has a least element.
LEMMA LeastId ==
    ASSUME NEW T \in SUBSET Nat, T # {}
    PROVE  \E x \in T : \A y \in T : x <= y
<1>1. PICK x \in T : \A y \in T : ~(<<y, x>> \in OpToRel(<, Nat))
  BY NatLessThanWellFounded, WFMin
<1>2. ASSUME NEW y \in T
      PROVE  x <= y
  <2>1. <<y, x>> \in Nat \X Nat /\ ~(<<y, x>> \in OpToRel(<, Nat))
    BY <1>1
  <2>2. ~(y < x)
    BY <2>1 DEF OpToRel
  <2>3. QED
    BY <2>2
<1>3. QED
  BY <1>2

\* A finite set of numbers that is not empty has a greatest element: a smallest set
\* without one would stay without one when an element is taken away.
LEMMA GreatestId ==
    ASSUME NEW S \in SUBSET Nat, IsFiniteSet(S), S # {}
    PROVE  \E x \in S : \A y \in S : x >= y
<1> DEFINE Endless(T) == T # {} /\ \A x \in T : \E y \in T : ~(x >= y)
           Bad == {T \in SUBSET S : Endless(T)}
<1> SUFFICES ASSUME Bad # {} PROVE FALSE
  <2>1. S \notin Bad => \E x \in S : \A y \in S : x >= y
    OBVIOUS
  <2>2. QED
    BY <2>1
<1>1. Bad \subseteq FiniteSubsetsOf(S)
  BY FS_FiniteSubsetsOfFinite
<1>2. PICK T \in Bad : \A U \in Bad : ~(<<U, T>> \in StrictSubsetOrdering(S))
  BY <1>1, FS_StrictSubsetOrderingWellFounded, WFMin
<1>3. PICK t \in T : TRUE
  OBVIOUS
<1>4. T \ {t} \notin Bad
  BY <1>2, <1>3 DEF StrictSubsetOrdering
<1>5. T \ {t} # {}
  BY <1>3
<1>6. PICK m \in T \ {t} : \A y \in T \ {t} : m >= y
  BY <1>4, <1>5
<1>7. m \in Nat /\ t \in Nat /\ T \subseteq Nat
  OBVIOUS
<1>8. CASE m >= t
  BY <1>6, <1>7, <1>8
<1>9. CASE ~(m >= t)
  <2>1. \A y \in T : t >= y
    BY <1>6, <1>7, <1>9
  <2>2. QED
    BY <1>3, <2>1
<1>10. QED
  BY <1>8, <1>9

\* The rows a query has read and with what: only rows with an envelope match it.
Readings == UNION {[S -> {"xdr"}] : S \in SUBSET Transactions}

ArchiveRuns ==
    [pc : {"idle", "find", "upload", "ended"}, young : SUBSET Transactions,
     cursor : Int, read : Readings, toNullify : SUBSET Transactions,
     due : SUBSET Transactions, batches : Nat, errors : Nat]

ArchiveTypeOK ==
    /\ rawXdr \in [Transactions -> {"none", "xdr", "empty"}]
    /\ object \in [Transactions -> {"none", "xdr"}]
    /\ young \subseteq Transactions
    /\ run \in [Processes -> ArchiveRuns]
    /\ faults \in 0..MaxFaults

\* What a run knows of its rows.  Between two batches nothing is under way; what is
\* collected for updateMany has its object; what is due was stored and old enough.
RowsOK(p) ==
    /\ run[p].pc # "upload" => DOMAIN run[p].read = {} /\ run[p].toNullify = {}
    /\ \A r \in run[p].toNullify : object[r] = "xdr"
    /\ \A r \in run[p].due : r \notin run[p].young /\ rawXdr[r] # "none"

\* No envelope is in neither place.
EnvelopeInv == ArchiveTypeOK /\ XdrKept /\ \A p \in Processes : RowsOK(p)

\* The rows of a call's reading.
LEMMA ReadingType ==
    ASSUME NEW f \in Readings
    PROVE  /\ DOMAIN f \subseteq Transactions
           /\ \A r \in DOMAIN f : f[r] = "xdr"
           /\ \A r : Without(f, r) \in Readings /\ DOMAIN Without(f, r) = DOMAIN f \ {r}
<1>1. PICK S \in SUBSET Transactions : f \in [S -> {"xdr"}]
  BY DEF Readings
<1>2. ASSUME NEW r
      PROVE  Without(f, r) \in [S \ {r} -> {"xdr"}]
  BY <1>1 DEF Without
<1>3. QED
  BY <1>1, <1>2 DEF Readings

\* A page has rows the query matches, as a query of the archiver reads them.
LEMMA PageType ==
    ASSUME NEW p
    PROVE  \A r \in Page(p) : /\ r \in Transactions /\ r \notin run[p].young
                                      /\ rawXdr[r] = "xdr"
BY DEF Page, FirstOf, Matches, Archivable

\* The cursor of a page that is not empty is its last row.
LEMMA LastOfPage ==
    ASSUME NEW p, Page(p) # {}
    PROVE  /\ Max(Page(p)) \in Page(p)
           /\ \A r \in Page(p) : Max(Page(p)) >= r
           /\ Max(Page(p)) \in Nat
<1>1. Page(p) \subseteq Transactions
  BY PageType
<1>2. IsFiniteSet(Page(p)) /\ Page(p) \subseteq Nat
  BY <1>1, FS_Subset, ArchiverAssumption
<1>3. \E x \in Page(p) : \A y \in Page(p) : x >= y
  BY <1>2, GreatestId
<1>4. /\ Max(Page(p)) \in Page(p)
      /\ \A r \in Page(p) : Max(Page(p)) >= r
  BY <1>3 DEF Max
<1>5. QED
  BY <1>2, <1>4

\* Nothing is under way without a call.
LEMMA IdleType == Idle \in ArchiveRuns /\ DOMAIN Idle.read = {}
<1>1. <<>> \in [{} -> {"xdr"}] /\ DOMAIN <<>> = {}
  OBVIOUS
<1>2. <<>> \in Readings
  BY <1>1 DEF Readings
<1>3. QED
  BY <1>1, <1>2 DEF Idle, NoCursor, ArchiveRuns

\* A call that another process works on.
LEMMA OtherRun ==
    ASSUME ArchiveTypeOK, NEW q \in Processes, RowsOK(q), run'[q] = run[q],
           \A r \in Transactions : object[r] = "xdr" => object'[r] = "xdr",
           \A r \in Transactions : rawXdr[r] # "none" => rawXdr'[r] # "none"
    PROVE  RowsOK(q)'
<1>1. run[q].toNullify \subseteq Transactions /\ run[q].due \subseteq Transactions
  BY DEF ArchiveTypeOK, ArchiveRuns
<1>2. QED
  BY <1>1 DEF RowsOK

\* Objects are only ever written with the envelope, and before the row is emptied.
LEMMA EnvelopeStep == EnvelopeInv /\ [ArchiveNext]_archiveVars => EnvelopeInv'
<1> SUFFICES ASSUME EnvelopeInv, [ArchiveNext]_archiveVars
             PROVE  EnvelopeInv'
  OBVIOUS
<1>0. /\ ArchiveTypeOK /\ XdrKept /\ \A p \in Processes : RowsOK(p)
      /\ \A p \in Processes : run[p] \in ArchiveRuns /\ run[p].read \in Readings
  BY DEF EnvelopeInv, ArchiveTypeOK, ArchiveRuns
<1>1. ASSUME NEW r \in Transactions, Store(r)
      PROVE  EnvelopeInv'
  <2>1. ArchiveTypeOK'
    BY <1>0, <1>1 DEF Store, ArchiveTypeOK
  <2>2. XdrKept'
    BY <1>0, <1>1 DEF Store, ArchiveTypeOK, XdrKept
  <2>3. \A q \in Processes : RowsOK(q)'
    BY <1>0, <1>1, OtherRun DEF Store, ArchiveTypeOK
  <2>4. QED
    BY <2>1, <2>2, <2>3 DEF EnvelopeInv
<1>2. ASSUME NEW r \in Transactions, Age(r)
      PROVE  EnvelopeInv'
  <2>1. ArchiveTypeOK'
    BY <1>0, <1>2 DEF Age, ArchiveTypeOK
  <2>2. XdrKept'
    BY <1>0, <1>2 DEF Age, XdrKept
  <2>3. \A q \in Processes : RowsOK(q)'
    BY <1>0, <1>2, OtherRun DEF Age
  <2>4. QED
    BY <2>1, <2>2, <2>3 DEF EnvelopeInv
<1>3. ASSUME NEW p \in Processes, Begin(p)
      PROVE  EnvelopeInv'
  <2>1. /\ run'[p] = [run[p] EXCEPT !.pc = "find", !.young = young, !.due = Archivable(young)]
        /\ run' = [run EXCEPT ![p] = run'[p]]
        /\ run[p].pc = "idle"
    BY <1>0, <1>3 DEF Begin, ArchiveTypeOK
  <2>2. Archivable(young) \in SUBSET Transactions
    BY DEF Archivable
  <2>3. run'[p] \in ArchiveRuns
    BY <1>0, <2>1, <2>2 DEF ArchiveRuns, ArchiveTypeOK
  <2>4. ArchiveTypeOK'
    BY <1>0, <1>3, <2>1, <2>3 DEF Begin, ArchiveTypeOK
  <2>5. XdrKept'
    BY <1>0, <1>3 DEF Begin, XdrKept
  <2>6. RowsOK(p)'
    <3>1. /\ run'[p].pc = "find" /\ run'[p].read = run[p].read
          /\ run'[p].toNullify = run[p].toNullify /\ run'[p].young = young
          /\ run'[p].due = Archivable(young)
      BY <1>0, <2>1 DEF ArchiveRuns
    <3>2. \A r \in Archivable(young) : r \notin young /\ rawXdr[r] = "xdr"
      BY DEF Archivable
    <3>3. QED
      BY <1>0, <1>3, <2>1, <3>1, <3>2 DEF Begin, RowsOK
  <2>7. \A q \in Processes : q # p => RowsOK(q)'
    BY <1>0, <1>3, <2>1, OtherRun DEF Begin, ArchiveTypeOK
  <2>8. QED
    BY <2>4, <2>5, <2>6, <2>7 DEF EnvelopeInv
<1>4. ASSUME NEW p \in Processes, FindBatch(p)
      PROVE  EnvelopeInv'
  <2>1. RowsOK(p)' /\ run' = [run EXCEPT ![p] = run'[p]] /\ run'[p] \in ArchiveRuns
    <3>1. CASE Page(p) = {}
      <4>1. run'[p] = [run[p] EXCEPT !.pc = "ended"] /\ run' = [run EXCEPT ![p] = run'[p]] /\ run[p].pc = "find"
        BY <1>0, <1>4, <3>1 DEF FindBatch, ArchiveTypeOK
      <4>2. run'[p] \in ArchiveRuns
        BY <1>0, <4>1 DEF ArchiveRuns
      <4>3. RowsOK(p)'
        BY <1>0, <1>4, <4>1 DEF FindBatch, RowsOK, ArchiveRuns
      <4>4. QED
        BY <4>1, <4>2, <4>3
    <3>2. CASE Page(p) # {}
      <4>1. /\ run'[p] = [run[p] EXCEPT !.pc = "upload", !.cursor = Max(Page(p)),
                                        !.read = [r \in Page(p) |-> rawXdr[r]],
                                        !.batches = @ + 1]
            /\ run' = [run EXCEPT ![p] = run'[p]] /\ run[p].pc = "find"
        BY <1>0, <1>4, <3>2 DEF FindBatch, ArchiveTypeOK
      <4>2. Max(Page(p)) \in Nat
        BY <3>2, LastOfPage
      <4>3. [r \in Page(p) |-> rawXdr[r]] \in Readings
        <5>1. [r \in Page(p) |-> rawXdr[r]] \in [Page(p) -> {"xdr"}]
          BY PageType
        <5>2. Page(p) \in SUBSET Transactions
          BY PageType
        <5>3. QED
          BY <5>1, <5>2 DEF Readings
      <4>4. run'[p] \in ArchiveRuns
        <5>1. run[p].batches + 1 \in Nat /\ Max(Page(p)) \in Int
          BY <1>0, <4>2 DEF ArchiveRuns
        <5>2. QED
          BY <1>0, <4>1, <4>3, <5>1 DEF ArchiveRuns
      <4>5. RowsOK(p)'
        BY <1>0, <1>4, <4>1 DEF FindBatch, RowsOK, ArchiveRuns
      <4>6. QED
        BY <4>1, <4>4, <4>5
    <3>3. QED
      BY <3>1, <3>2
  <2>2. ArchiveTypeOK'
    BY <1>0, <1>4, <2>1 DEF FindBatch, ArchiveTypeOK
  <2>3. XdrKept'
    BY <1>0, <1>4 DEF FindBatch, XdrKept
  <2>4. \A q \in Processes : q # p => RowsOK(q)'
    BY <1>0, <1>4, <2>1, OtherRun DEF FindBatch, ArchiveTypeOK
  <2>5. QED
    BY <2>1, <2>2, <2>3, <2>4 DEF EnvelopeInv
<1>5. ASSUME NEW p \in Processes, NEW r \in DOMAIN run[p].read, Upload(p, r)
      PROVE  EnvelopeInv'
  <2>1. r \in Transactions /\ run[p].read[r] = "xdr" /\ run[p].pc = "upload"
    BY <1>0, <1>5, ReadingType DEF Upload
  <2>2. object' = [object EXCEPT ![r] = "xdr"]
    BY <1>5, <2>1 DEF Upload
  <2>3. /\ run'[p] = [run[p] EXCEPT !.read = Without(@, r), !.toNullify = @ \cup {r}]
        /\ run' = [run EXCEPT ![p] = run'[p]]
    BY <1>0, <1>5 DEF Upload, ArchiveTypeOK
  <2>4. run'[p] \in ArchiveRuns
    <3>1. Without(run[p].read, r) \in Readings
      BY <1>0, ReadingType
    <3>2. run[p].toNullify \cup {r} \in SUBSET Transactions
      BY <1>0, <2>1 DEF ArchiveRuns
    <3>3. QED
      BY <1>0, <2>3, <3>1, <3>2 DEF ArchiveRuns
  <2>5. ArchiveTypeOK'
    BY <1>0, <1>5, <2>2, <2>3, <2>4 DEF Upload, ArchiveTypeOK
  <2>6. XdrKept'
    BY <1>0, <1>5, <2>2 DEF Upload, XdrKept, ArchiveTypeOK
  <2>7. RowsOK(p)'
    BY <1>0, <1>5, <2>1, <2>2, <2>3 DEF Upload, RowsOK, ArchiveRuns, ArchiveTypeOK
  <2>8. \A q \in Processes : q # p => RowsOK(q)'
    BY <1>0, <1>5, <2>1, <2>2, <2>3, OtherRun DEF Upload, ArchiveTypeOK
  <2>9. QED
    BY <2>5, <2>6, <2>7, <2>8 DEF EnvelopeInv
<1>6. ASSUME NEW p \in Processes, NEW r \in DOMAIN run[p].read, UploadFails(p, r)
      PROVE  EnvelopeInv'
  <2>1. r \in Transactions /\ run[p].read[r] = "xdr" /\ run[p].pc = "upload"
    BY <1>0, <1>6, ReadingType DEF UploadFails
  <2>2. object' \in {object, [object EXCEPT ![r] = "xdr"]}
    BY <1>6, <2>1 DEF UploadFails
  <2>3. /\ run'[p] = [run[p] EXCEPT !.read = Without(@, r), !.errors = @ + 1]
        /\ run' = [run EXCEPT ![p] = run'[p]]
    BY <1>0, <1>6 DEF UploadFails, ArchiveTypeOK
  <2>4. run'[p] \in ArchiveRuns
    <3>1. Without(run[p].read, r) \in Readings
      BY <1>0, ReadingType
    <3>2. run[p].errors + 1 \in Nat
      BY <1>0 DEF ArchiveRuns
    <3>3. QED
      BY <1>0, <2>3, <3>1, <3>2 DEF ArchiveRuns
  <2>5. ArchiveTypeOK'
    BY <1>0, <1>6, <2>2, <2>3, <2>4, ArchiverAssumption DEF UploadFails, Fault, ArchiveTypeOK
  <2>6. XdrKept'
    BY <1>0, <1>6, <2>2 DEF UploadFails, XdrKept, ArchiveTypeOK
  <2>7. RowsOK(p)'
    BY <1>0, <1>6, <2>1, <2>2, <2>3 DEF UploadFails, RowsOK, ArchiveRuns, ArchiveTypeOK
  <2>8. \A q \in Processes : q # p => RowsOK(q)'
    BY <1>0, <1>6, <2>1, <2>2, <2>3, OtherRun DEF UploadFails, ArchiveTypeOK
  <2>9. QED
    BY <2>5, <2>6, <2>7, <2>8 DEF EnvelopeInv
<1>7. ASSUME NEW p \in Processes, Nullify(p)
      PROVE  EnvelopeInv'
  <2>1. /\ run'[p] = [run[p] EXCEPT !.pc = "find", !.toNullify = {}]
        /\ run' = [run EXCEPT ![p] = run'[p]] /\ DOMAIN run[p].read = {}
    BY <1>0, <1>7 DEF Nullify, ArchiveTypeOK
  <2>2. run'[p] \in ArchiveRuns
    BY <1>0, <2>1 DEF ArchiveRuns
  <2>3. ArchiveTypeOK'
    BY <1>0, <1>7, <2>1, <2>2 DEF Nullify, ArchiveTypeOK
  <2>4. XdrKept'
    BY <1>0, <1>7 DEF Nullify, XdrKept, RowsOK
  <2>5. RowsOK(p)'
    <3>1. /\ run'[p].pc = "find" /\ run'[p].read = run[p].read /\ run'[p].toNullify = {}
          /\ run'[p].young = run[p].young /\ run'[p].due = run[p].due
      BY <1>0, <2>1 DEF ArchiveRuns
    <3>2. \A r \in run[p].due : r \in Transactions /\ r \notin run[p].young /\ rawXdr[r] # "none"
      BY <1>0 DEF ArchiveRuns, RowsOK
    <3>3. \A r \in run[p].due : rawXdr'[r] # "none"
      BY <1>7, <3>2 DEF Nullify
    <3>4. QED
      BY <2>1, <3>1, <3>2, <3>3 DEF RowsOK
  <2>6. \A q \in Processes : q # p => RowsOK(q)'
    BY <1>0, <1>7, <2>1, OtherRun DEF Nullify, ArchiveTypeOK
  <2>7. QED
    BY <2>3, <2>4, <2>5, <2>6 DEF EnvelopeInv
<1>8. ASSUME NEW p \in Processes, ReturnResult(p)
      PROVE  EnvelopeInv'
  <2>1. run'[p] = Idle /\ run' = [run EXCEPT ![p] = run'[p]]
    BY <1>0, <1>8 DEF ReturnResult, ArchiveTypeOK
  <2>2. ArchiveTypeOK'
    BY <1>0, <1>8, <2>1, IdleType DEF ReturnResult, ArchiveTypeOK
  <2>3. XdrKept'
    BY <1>0, <1>8 DEF ReturnResult, XdrKept
  <2>4. RowsOK(p)'
    BY <2>1, IdleType DEF RowsOK, Idle
  <2>5. \A q \in Processes : q # p => RowsOK(q)'
    BY <1>0, <1>8, <2>1, OtherRun DEF ReturnResult, ArchiveTypeOK
  <2>6. QED
    BY <2>2, <2>3, <2>4, <2>5 DEF EnvelopeInv
<1>9. ASSUME NEW p \in Processes, Abandon(p)
      PROVE  EnvelopeInv'
  <2>1. PICK sent \in SUBSET DOMAIN run[p].read :
            object' = [r \in Transactions |-> IF r \in sent THEN run[p].read[r] ELSE object[r]]
    BY <1>9 DEF Abandon
  <2>2. \A r \in Transactions : object'[r] = (IF r \in sent THEN "xdr" ELSE object[r])
    BY <1>0, <2>1, ReadingType
  <2>3. object' \in [Transactions -> {"none", "xdr"}]
    BY <1>0, <2>1, <2>2 DEF ArchiveTypeOK
  <2>4. run'[p] = Idle /\ run' = [run EXCEPT ![p] = run'[p]]
    BY <1>0, <1>9 DEF Abandon, ArchiveTypeOK
  <2>5. ArchiveTypeOK'
    BY <1>0, <1>9, <2>3, <2>4, IdleType, ArchiverAssumption DEF Abandon, Fault, ArchiveTypeOK
  <2>6. XdrKept'
    BY <1>0, <1>9, <2>2 DEF Abandon, XdrKept
  <2>7. RowsOK(p)'
    BY <2>4, IdleType DEF RowsOK, Idle
  <2>8. \A q \in Processes : q # p => RowsOK(q)'
    BY <1>0, <1>9, <2>2, <2>4, OtherRun DEF Abandon, ArchiveTypeOK
  <2>9. QED
    BY <2>5, <2>6, <2>7, <2>8 DEF EnvelopeInv
<1>10. ASSUME UNCHANGED archiveVars
       PROVE  EnvelopeInv'
  <2>1. ArchiveTypeOK' /\ XdrKept'
    BY <1>0, <1>10 DEF archiveVars, ArchiveTypeOK, XdrKept
  <2>2. \A q \in Processes : RowsOK(q)'
    BY <1>0, <1>10 DEF archiveVars, RowsOK
  <2>3. QED
    BY <2>1, <2>2 DEF EnvelopeInv
<1>11. QED
  BY <1>1, <1>2, <1>3, <1>4, <1>5, <1>6, <1>7, <1>8, <1>9, <1>10 DEF ArchiveNext, RunStep

\* Initially nothing is stored.
LEMMA EnvelopeInit == ArchiveInit => EnvelopeInv
<1> SUFFICES ASSUME ArchiveInit
             PROVE  EnvelopeInv
  OBVIOUS
<1>1. ArchiveTypeOK
  BY IdleType, ArchiverAssumption DEF ArchiveInit, ArchiveTypeOK
<1>2. \A p \in Processes : RowsOK(p)
  BY IdleType DEF ArchiveInit, RowsOK, Idle
<1>3. QED
  BY <1>1, <1>2 DEF EnvelopeInv, ArchiveInit, XdrKept

\* archiver.ts:16: the column is nulled out only once the envelope is in S3, for any
\* number of processes whose runs overlap, any transactions and batch size, and
\* wherever uploads and queries fail or a process dies.
THEOREM EnvelopesKept == ArchiveSpec => []XdrKept
<1>1. ArchiveInit => EnvelopeInv
  BY EnvelopeInit
<1>2. EnvelopeInv /\ [ArchiveNext]_archiveVars => EnvelopeInv'
  BY EnvelopeStep
<1>3. EnvelopeInv => XdrKept
  BY DEF EnvelopeInv
<1>4. QED
  BY <1>1, <1>2, <1>3, PTL DEF ArchiveSpec
----------------------------------------------------------------------------
(* How much a run of the archiver leaves behind. *)

\* The counts in the instance are those of FiniteSets.
LEMMA SameCount == \A S : Cardinality(S) = Cardinality(S)
BY DEF Cardinality, Cardinality

\* take: n: the first n ids are downward closed; one of them is a single id; and
\* there is one of them if there is any id.
LEMMA FirstOfIds ==
    ASSUME NEW S \in SUBSET Nat, IsFiniteSet(S), NEW n \in Nat \ {0}
    PROVE  /\ \A m \in FirstOf(S, n), r \in S : r <= m => r \in FirstOf(S, n)
           /\ \A x, y \in FirstOf(S, 1) : x = y
           /\ FirstOf(S, n) = {} => S = {}
           /\ FirstOf(S, n) \subseteq S
<1> DEFINE Before(r) == {q \in S : q < r}
<1>0. \A r \in S : r \in Nat
  OBVIOUS
<1>1. \A r \in S : IsFiniteSet(Before(r)) /\ Cardinality(Before(r)) \in Nat
  BY FS_Subset, FS_CardinalityType
<1>2. \A k : FirstOf(S, k) = {r \in S : Cardinality(Before(r)) < k}
  BY SameCount DEF FirstOf
<1>3. ASSUME NEW m \in FirstOf(S, n), NEW r \in S, r <= m
      PROVE  r \in FirstOf(S, n)
  <2>1. m \in S /\ Cardinality(Before(m)) < n
    BY <1>2
  <2>2. Before(r) \in SUBSET Before(m)
    <3>1. \A q \in S : q < r => q < m
      BY <1>0, <1>3, <2>1
    <3>2. QED
      BY <3>1
  <2>3. Cardinality(Before(r)) <= Cardinality(Before(m))
    BY <1>1, <2>1, <2>2, FS_Subset
  <2>4. Cardinality(Before(r)) < n
    <3>1. Cardinality(Before(r)) \in Nat /\ Cardinality(Before(m)) \in Nat
      BY <1>1, <2>1
    <3> HIDE DEF Before
    <3>2. QED
      BY <2>1, <2>3, <3>1
  <2>5. QED
    BY <1>2, <2>4
<1>4. ASSUME NEW r \in FirstOf(S, 1)
      PROVE  \A q \in S : r <= q
  <2>1. r \in S /\ Cardinality(Before(r)) < 1
    BY <1>2
  <2>2. Before(r) = {}
    <3>1. Cardinality(Before(r)) = 0
      <4>1. Cardinality(Before(r)) \in Nat
        BY <1>1, <2>1
      <4> HIDE DEF Before
      <4>2. QED
        BY <2>1, <4>1
    <3>2. QED
      BY <1>1, <2>1, <3>1, FS_EmptySet
  <2>3. QED
    BY <2>1, <2>2
<1>5. \A x, y \in FirstOf(S, 1) : x = y
  <2>1. FirstOf(S, 1) \subseteq S
    BY <1>2
  <2>2. \A x, y \in FirstOf(S, 1) : x <= y /\ y <= x /\ x \in Nat /\ y \in Nat
    BY <1>0, <1>4, <2>1
  <2>3. QED
    BY <2>2
<1>6. ASSUME S # {}
      PROVE  FirstOf(S, n) # {}
  <2>1. PICK x \in S : \A y \in S : x <= y
    BY <1>6, LeastId
  <2>2. Before(x) = {}
    <3>1. \A q \in S : ~(q < x)
      BY <1>0, <2>1
    <3>2. QED
      BY <3>1
  <2>3. Cardinality(Before(x)) = 0
    BY <2>2, FS_EmptySet
  <2>4. QED
    BY <1>2, <2>1, <2>3
<1>7. QED
  BY <1>2, <1>3, <1>5, <1>6

\* What lies in a finite set but for one element.
LEMMA OneMore ==
    ASSUME NEW A, IsFiniteSet(A), NEW B, \A x, y \in B : x = y, NEW C, C \subseteq A \cup B
    PROVE  IsFiniteSet(C) /\ Cardinality(C) \in Nat /\ Cardinality(C) <= Cardinality(A) + 1
<1>1. Cardinality(A) \in Nat
  BY FS_CardinalityType
<1>2. CASE B = {}
  <2>1. C \in SUBSET A
    BY <1>2
  <2>2. QED
    BY <1>1, <2>1, FS_Subset, FS_CardinalityType
<1>3. CASE B # {}
  <2>1. PICK b \in B : B = {b}
    BY <1>3
  <2>2. C \in SUBSET (A \cup {b})
    BY <2>1
  <2>3. IsFiniteSet(A \cup {b}) /\ Cardinality(A \cup {b}) <= Cardinality(A) + 1
    BY <1>1, FS_AddElement
  <2>4. /\ IsFiniteSet(C) /\ Cardinality(C) \in Nat
        /\ Cardinality(C) <= Cardinality(A \cup {b}) /\ Cardinality(A \cup {b}) \in Nat
    BY <2>2, <2>3, FS_Subset, FS_CardinalityType
  <2>5. QED
    BY <1>1, <2>3, <2>4
<1>4. QED
  BY <1>2, <1>3

\* The rows that were due and are still there; the ones among them that the cursor
\* has passed and that are not under way.
Left(p) == {r \in run[p].due : rawXdr[r] = "xdr"}

Passed(p) ==
    {r \in Left(p) : r <= run[p].cursor /\ r \notin DOMAIN run[p].read \cup run[p].toNullify}

\* The rows that `skip: 1' has dropped at most: none before the second batch.
Skips(p) == IF run[p].batches = 0 THEN 0 ELSE run[p].batches - 1

LeftOK(p) ==
    /\ run[p].cursor = NoCursor <=> run[p].batches = 0
    /\ run[p].pc = "idle" => run[p].batches = 0
    /\ run[p].pc = "upload" => run[p].batches > 0
    /\ run[p].pc \in {"find", "upload"} => Cardinality(Passed(p)) <= run[p].errors + Skips(p)
    /\ run[p].pc = "ended" => Cardinality(Left(p)) <= run[p].errors + run[p].batches

LeftInv == EnvelopeInv /\ \A p \in Processes : LeftOK(p)

\* The rows a run leaves are finitely many.
LEMMA LeftType ==
    ASSUME ArchiveTypeOK, NEW p \in Processes
    PROVE  /\ Left(p) \subseteq Transactions /\ Passed(p) \subseteq Left(p)
           /\ IsFiniteSet(Left(p)) /\ IsFiniteSet(Passed(p))
           /\ Cardinality(Left(p)) \in Nat /\ Cardinality(Passed(p)) \in Nat
           /\ run[p].errors \in Nat /\ run[p].batches \in Nat /\ Skips(p) \in Nat
           /\ Transactions \subseteq Nat
<1>1. run[p] \in ArchiveRuns
  BY DEF ArchiveTypeOK
<1>2. /\ run[p].errors \in Nat /\ run[p].batches \in Nat /\ run[p].due \subseteq Transactions
      /\ Transactions \subseteq Nat /\ IsFiniteSet(Transactions)
  BY <1>1, ArchiverAssumption DEF ArchiveRuns
<1>3. Skips(p) \in Nat
  BY <1>2 DEF Skips
<1>4. Left(p) \in SUBSET Transactions /\ Passed(p) \in SUBSET Transactions /\ Passed(p) \subseteq Left(p)
  BY <1>2 DEF Left, Passed
<1>5. IsFiniteSet(Left(p)) /\ IsFiniteSet(Passed(p))
  BY <1>2, <1>4, FS_Subset
<1>6. QED
  BY <1>2, <1>3, <1>4, <1>5, FS_CardinalityType

\* A run that makes no step has no more to archive than before.
LEMMA OtherLeft ==
    ASSUME ArchiveTypeOK, NEW q \in Processes, LeftOK(q), run'[q] = run[q],
           \A r \in run[q].due : rawXdr'[r] = "xdr" => rawXdr[r] = "xdr"
    PROVE  LeftOK(q)'
<1>1. Left(q)' \in SUBSET Left(q) /\ Passed(q)' \in SUBSET Passed(q)
  BY DEF Left, Passed
<1>2. /\ Cardinality(Left(q)') <= Cardinality(Left(q)) /\ Cardinality(Left(q)') \in Nat
      /\ Cardinality(Passed(q)') <= Cardinality(Passed(q)) /\ Cardinality(Passed(q)') \in Nat
  BY <1>1, LeftType, FS_Subset, FS_CardinalityType
<1>3. Skips(q)' = Skips(q)
  BY DEF Skips
<1> HIDE DEF Left, Passed, Skips
<1>4. QED
  BY <1>2, <1>3, LeftType DEF LeftOK

\* FindBatch: what it passes over without reading it is the row that `skip: 1' drops.
LEMMA FindLeaves ==
    ASSUME EnvelopeInv, NEW p \in Processes, LeftOK(p), FindBatch(p)
    PROVE  LeftOK(p)'
<1> DEFINE rest == {r \in Matches(p) : r >= run[p].cursor}
           dropped == IF run[p].cursor = NoCursor THEN {} ELSE FirstOf(rest, 1)
<1>0. /\ ArchiveTypeOK /\ RowsOK(p) /\ run[p] \in ArchiveRuns
      /\ run[p].pc = "find" /\ rawXdr' = rawXdr
      /\ DOMAIN run[p].read = {} /\ run[p].toNullify = {}
      /\ ARCHIVE_BATCH \in Nat \ {0} /\ Page(p) \subseteq Transactions
  BY PageType, ArchiverAssumption DEF EnvelopeInv, ArchiveTypeOK, RowsOK, FindBatch
<1>1. /\ Matches(p) \in SUBSET Nat /\ IsFiniteSet(Matches(p))
      /\ Left(p) \subseteq Matches(p)
  <2>1. Matches(p) \in SUBSET Transactions
    BY DEF Matches, Archivable
  <2>2. Left(p) \subseteq Matches(p)
    BY <1>0, LeftType DEF Left, RowsOK, Matches, Archivable
  <2>3. QED
    BY <2>1, <2>2, FS_Subset, ArchiverAssumption
<1>2. rest \in SUBSET Nat /\ IsFiniteSet(rest)
  BY <1>1, FS_Subset
<1>3. rest \ FirstOf(rest, 1) \in SUBSET Nat /\ IsFiniteSet(rest \ FirstOf(rest, 1))
  BY <1>2, FS_Subset
<1>4. \A x, y \in dropped : x = y
  BY <1>2, FirstOfIds
<1>5. Page(p) = IF run[p].cursor = NoCursor THEN FirstOf(Matches(p), ARCHIVE_BATCH)
                        ELSE FirstOf(rest \ FirstOf(rest, 1), ARCHIVE_BATCH)
  BY DEF Page
<1>6. ASSUME NEW r \in Left(p), NEW m \in Page(p), r <= m, r \notin Page(p)
      PROVE  r \in Passed(p) \cup dropped
  <2>1. r \in Matches(p) /\ r \in Nat /\ run[p].cursor \in Int
    BY <1>0, <1>1 DEF ArchiveRuns
  <2>2. CASE run[p].cursor = NoCursor
    <3>1. r \in FirstOf(Matches(p), ARCHIVE_BATCH)
      BY <1>0, <1>1, <1>5, <1>6, <2>1, <2>2, FirstOfIds
    <3>2. QED
      BY <1>5, <1>6, <2>2, <3>1
  <2>3. CASE run[p].cursor # NoCursor /\ r <= run[p].cursor
    BY <1>0, <2>3 DEF Passed
  <2>4. CASE run[p].cursor # NoCursor /\ ~(r <= run[p].cursor)
    <3>1. r \in rest
      BY <2>1, <2>4
    <3>2. m \in FirstOf(rest \ FirstOf(rest, 1), ARCHIVE_BATCH)
      BY <1>5, <2>4
    <3>3. r \in rest \ FirstOf(rest, 1) => r \in FirstOf(rest \ FirstOf(rest, 1), ARCHIVE_BATCH)
      BY <1>0, <1>3, <1>6, <3>2, FirstOfIds
    <3>4. r \in FirstOf(rest, 1)
      BY <1>5, <1>6, <2>4, <3>1, <3>3
    <3>5. QED
      BY <2>4, <3>4
  <2>5. QED
    BY <2>2, <2>3, <2>4
<1>7. ASSUME Page(p) = {}
      PROVE  Left(p) \subseteq Passed(p) \cup dropped
  <2> SUFFICES ASSUME NEW r \in Left(p)
               PROVE  r \in Passed(p) \cup dropped
    OBVIOUS
  <2>1. r \in Matches(p) /\ r \in Nat /\ run[p].cursor \in Int
    BY <1>0, <1>1 DEF ArchiveRuns
  <2>2. CASE run[p].cursor = NoCursor
    <3>1. Matches(p) = {}
      BY <1>0, <1>1, <1>5, <1>7, <2>2, FirstOfIds
    <3>2. QED
      BY <2>1, <3>1
  <2>3. CASE run[p].cursor # NoCursor /\ r <= run[p].cursor
    BY <1>0, <2>3 DEF Passed
  <2>4. CASE run[p].cursor # NoCursor /\ ~(r <= run[p].cursor)
    <3>1. r \in rest
      BY <2>1, <2>4
    <3>2. rest \ FirstOf(rest, 1) = {}
      <4>1. FirstOf(rest \ FirstOf(rest, 1), ARCHIVE_BATCH) = {}
        BY <1>5, <1>7, <2>4
      <4> HIDE DEF rest
      <4>2. QED
        BY <1>0, <1>3, <4>1, FirstOfIds
    <3>3. QED
      BY <2>4, <3>1, <3>2
  <2>5. QED
    BY <2>2, <2>3, <2>4
<1>8. /\ Cardinality(Passed(p)) <= run[p].errors + Skips(p) /\ Cardinality(Passed(p)) \in Nat
      /\ run[p].errors \in Nat /\ run[p].batches \in Nat /\ Skips(p) \in Nat
      /\ IsFiniteSet(Passed(p))
  BY <1>0, LeftType DEF LeftOK
<1>9. ASSUME NEW C, C \subseteq Passed(p) \cup dropped
      PROVE  Cardinality(C) \in Nat /\ Cardinality(C) <= run[p].errors + run[p].batches
  <2>1. CASE run[p].cursor = NoCursor
    <3>1. C \in SUBSET Passed(p) /\ run[p].batches = 0 /\ Skips(p) = 0
      BY <1>9, <2>1 DEF LeftOK, Skips
    <3>2. Cardinality(C) \in Nat /\ Cardinality(C) <= Cardinality(Passed(p))
      BY <1>8, <3>1, FS_Subset, FS_CardinalityType
    <3>3. QED
      BY <1>8, <3>1, <3>2
  <2>2. CASE run[p].cursor # NoCursor
    <3>1. run[p].batches # 0 /\ Skips(p) = run[p].batches - 1
      BY <2>2 DEF LeftOK, Skips
    <3> HIDE DEF rest, dropped
    <3>2. Cardinality(C) \in Nat /\ Cardinality(C) <= Cardinality(Passed(p)) + 1
      BY <1>4, <1>8, <1>9, OneMore
    <3>3. QED
      BY <1>8, <3>1, <3>2
  <2>3. QED
    BY <2>1, <2>2
<1>10. Left(p)' = {r \in run'[p].due : rawXdr[r] = "xdr"}
  BY <1>0 DEF Left
<1>11. CASE Page(p) = {}
  <2>1. run'[p] = [run[p] EXCEPT !.pc = "ended"]
    BY <1>0, <1>11 DEF FindBatch, ArchiveTypeOK
  <2>2. /\ run'[p].pc = "ended" /\ run'[p].cursor = run[p].cursor /\ run'[p].batches = run[p].batches
        /\ run'[p].errors = run[p].errors /\ run'[p].due = run[p].due
    BY <1>0, <2>1 DEF ArchiveRuns
  <2>3. Left(p)' = Left(p)
    BY <1>10, <2>2 DEF Left
  <2>4. Cardinality(Left(p)) <= run[p].errors + run[p].batches
    BY <1>7, <1>9, <1>11
  <2>5. QED
    BY <2>2, <2>3, <2>4 DEF LeftOK
<1>12. CASE Page(p) # {}
  <2>1. run'[p] = [run[p] EXCEPT !.pc = "upload", !.cursor = Max(Page(p)),
                                 !.read = [r \in Page(p) |-> rawXdr[r]],
                                 !.batches = @ + 1]
    BY <1>0, <1>12 DEF FindBatch, ArchiveTypeOK
  <2>2. /\ run'[p].pc = "upload" /\ run'[p].cursor = Max(Page(p))
        /\ run'[p].batches = run[p].batches + 1 /\ run'[p].errors = run[p].errors
        /\ run'[p].due = run[p].due /\ DOMAIN run'[p].read = Page(p)
    BY <1>0, <2>1 DEF ArchiveRuns
  <2>3. Max(Page(p)) \in Page(p) /\ Max(Page(p)) \in Nat
    BY <1>12, LastOfPage
  <2>4. Left(p)' = Left(p)
    BY <1>10, <2>2 DEF Left
  <2>5. Passed(p)' \subseteq Passed(p) \cup dropped
    <3>1. \A r \in Passed(p)' : r \in Left(p) /\ r <= Max(Page(p)) /\ r \notin Page(p)
      BY <2>2, <2>4 DEF Passed
    <3>2. QED
      BY <1>6, <2>3, <3>1
  <2>6. Cardinality(Passed(p)') <= run[p].errors + run[p].batches
    BY <1>9, <2>5
  <2>7. Skips(p)' = run[p].batches
    BY <1>8, <2>2 DEF Skips
  <2>8. run'[p].cursor # NoCursor /\ run'[p].batches # 0 /\ run'[p].batches > 0
    BY <1>8, <2>2, <2>3 DEF NoCursor
  <2> HIDE DEF Passed, Left
  <2>9. QED
    BY <2>2, <2>6, <2>7, <2>8 DEF LeftOK
<1>13. QED
  BY <1>11, <1>12

\* No step of a run loses count of what it leaves: a failed upload is counted, and what
\* is collected is emptied before the next batch.
LEMMA LeftStep == LeftInv /\ [ArchiveNext]_archiveVars => LeftInv'
<1> SUFFICES ASSUME LeftInv, [ArchiveNext]_archiveVars
             PROVE  LeftInv'
  OBVIOUS
<1>0. /\ EnvelopeInv /\ ArchiveTypeOK
      /\ \A p \in Processes : LeftOK(p) /\ RowsOK(p) /\ run[p] \in ArchiveRuns
  BY DEF LeftInv, EnvelopeInv, ArchiveTypeOK
<1>1. EnvelopeInv'
  BY <1>0, EnvelopeStep
<1>2. \A q \in Processes : \A r \in run[q].due : r \in Transactions /\ rawXdr[r] # "none"
  BY <1>0 DEF ArchiveRuns, RowsOK
<1>3. ASSUME \E r \in Transactions : Store(r) \/ Age(r)
      PROVE  \A q \in Processes : LeftOK(q)'
  <2>1. run' = run /\ \A q \in Processes : \A r \in run[q].due : rawXdr'[r] = rawXdr[r]
    BY <1>0, <1>2, <1>3 DEF Store, Age, ArchiveTypeOK
  <2>2. QED
    BY <1>0, <2>1, OtherLeft
<1>4. ASSUME NEW p \in Processes, Begin(p)
      PROVE  \A q \in Processes : LeftOK(q)'
  <2>1. /\ run'[p] = [run[p] EXCEPT !.pc = "find", !.young = young, !.due = Archivable(young)]
        /\ run' = [run EXCEPT ![p] = run'[p]] /\ rawXdr' = rawXdr /\ run[p].pc = "idle"
    BY <1>0, <1>4 DEF Begin, ArchiveTypeOK
  <2>2. /\ run'[p].pc = "find" /\ run'[p].cursor = run[p].cursor /\ run'[p].batches = run[p].batches
        /\ run'[p].errors = run[p].errors
    BY <1>0, <2>1 DEF ArchiveRuns
  <2>3. run'[p].cursor = NoCursor /\ run'[p].batches = 0
    BY <1>0, <2>1, <2>2 DEF LeftOK
  <2>4. ArchiveTypeOK'
    BY <1>1 DEF EnvelopeInv
  <2>5. Passed(p)' = {}
    <3>1. Left(p)' \subseteq Transactions
      BY <2>1, <2>4 DEF Left, ArchiveTypeOK, ArchiveRuns
    <3>2. \A r \in Transactions : ~(r <= run'[p].cursor)
      BY <2>3, ArchiverAssumption DEF NoCursor
    <3>3. QED
      BY <3>1, <3>2 DEF Passed
  <2>6. Skips(p)' = 0 /\ run[p].errors \in Nat /\ Cardinality(Passed(p)') = 0
    BY <1>0, <2>3, <2>5, FS_EmptySet DEF Skips, ArchiveRuns
  <2>7. LeftOK(p)'
    BY <2>2, <2>3, <2>6 DEF LeftOK
  <2>8. \A q \in Processes : q # p => LeftOK(q)'
    BY <1>0, <2>1, OtherLeft DEF ArchiveTypeOK
  <2>9. QED
    BY <2>7, <2>8
<1>5. ASSUME NEW p \in Processes, FindBatch(p)
      PROVE  \A q \in Processes : LeftOK(q)'
  <2>1. LeftOK(p)'
    BY <1>0, <1>5, FindLeaves
  <2>2. rawXdr' = rawXdr /\ \A q \in Processes : q # p => run'[q] = run[q]
    BY <1>0, <1>5 DEF FindBatch, ArchiveTypeOK
  <2>3. QED
    BY <1>0, <2>1, <2>2, OtherLeft
<1>6. ASSUME NEW p \in Processes, NEW r \in DOMAIN run[p].read, Upload(p, r)
      PROVE  \A q \in Processes : LeftOK(q)'
  <2>1. /\ run'[p] = [run[p] EXCEPT !.read = Without(@, r), !.toNullify = @ \cup {r}]
        /\ rawXdr' = rawXdr /\ run[p].pc = "upload"
        /\ \A q \in Processes : q # p => run'[q] = run[q]
    BY <1>0, <1>6 DEF Upload, ArchiveTypeOK
  <2>2. /\ run'[p].pc = run[p].pc /\ run'[p].cursor = run[p].cursor /\ run'[p].batches = run[p].batches
        /\ run'[p].errors = run[p].errors /\ run'[p].due = run[p].due
        /\ run'[p].toNullify = run[p].toNullify \cup {r}
        /\ run'[p].read = Without(run[p].read, r)
    BY <1>0, <2>1 DEF ArchiveRuns
  <2>3. DOMAIN run'[p].read = DOMAIN run[p].read \ {r}
    BY <1>0, <2>2, ReadingType DEF ArchiveRuns
  <2>4. Left(p)' = Left(p) /\ Passed(p)' = Passed(p) /\ Skips(p)' = Skips(p)
    BY <1>6, <2>1, <2>2, <2>3 DEF Left, Passed, Skips
  <2>5. LeftOK(p)'
    BY <1>0, <2>2, <2>4 DEF LeftOK
  <2>6. QED
    BY <1>0, <2>1, <2>5, OtherLeft
<1>7. ASSUME NEW p \in Processes, NEW r \in DOMAIN run[p].read, UploadFails(p, r)
      PROVE  \A q \in Processes : LeftOK(q)'
  <2>1. /\ run'[p] = [run[p] EXCEPT !.read = Without(@, r), !.errors = @ + 1]
        /\ rawXdr' = rawXdr /\ run[p].pc = "upload"
        /\ \A q \in Processes : q # p => run'[q] = run[q]
    BY <1>0, <1>7 DEF UploadFails, ArchiveTypeOK
  <2>2. /\ run'[p].pc = run[p].pc /\ run'[p].cursor = run[p].cursor /\ run'[p].batches = run[p].batches
        /\ run'[p].errors = run[p].errors + 1 /\ run'[p].due = run[p].due
        /\ run'[p].toNullify = run[p].toNullify /\ run'[p].read = Without(run[p].read, r)
    BY <1>0, <2>1 DEF ArchiveRuns
  <2>3. DOMAIN run'[p].read = DOMAIN run[p].read \ {r}
    <3>1. run[p].read \in Readings /\ run'[p].read = Without(run[p].read, r)
      BY <1>0, <2>2 DEF ArchiveRuns
    <3>2. QED
      BY <3>1, ReadingType
  <2>4. Left(p)' = Left(p) /\ Passed(p)' \subseteq Passed(p) \cup {r} /\ Skips(p)' = Skips(p)
    <3>1. Left(p)' = Left(p)
      BY <2>1, <2>2 DEF Left
    <3>2. Passed(p)' \subseteq Passed(p) \cup {r}
      BY <2>2, <2>3, <3>1 DEF Passed
    <3>3. Skips(p)' = Skips(p)
      BY <2>1, <2>2 DEF Skips
    <3>4. QED
      BY <3>1, <3>2, <3>3
  <2>5. Cardinality(Passed(p)') \in Nat /\ Cardinality(Passed(p)') <= Cardinality(Passed(p)) + 1
    BY <1>0, <2>4, LeftType, OneMore
  <2>6. Cardinality(Passed(p)') <= run'[p].errors + Skips(p)'
    BY <1>0, <2>1, <2>2, <2>4, <2>5, LeftType DEF LeftOK
  <2>7. LeftOK(p)'
    BY <1>0, <2>1, <2>2, <2>6 DEF LeftOK
  <2>8. QED
    BY <1>0, <2>1, <2>7, OtherLeft
<1>8. ASSUME NEW p \in Processes, Nullify(p)
      PROVE  \A q \in Processes : LeftOK(q)'
  <2>1. /\ run'[p] = [run[p] EXCEPT !.pc = "find", !.toNullify = {}]
        /\ run[p].pc = "upload" /\ DOMAIN run[p].read = {}
        /\ rawXdr' = [r \in Transactions |-> IF r \in run[p].toNullify THEN "empty" ELSE rawXdr[r]]
        /\ \A q \in Processes : q # p => run'[q] = run[q]
    BY <1>0, <1>8 DEF Nullify, ArchiveTypeOK
  <2>2. \A r \in Transactions : rawXdr'[r] = "xdr" => rawXdr[r] = "xdr" /\ r \notin run[p].toNullify
    BY <2>1
  <2>3. /\ run'[p].pc = "find" /\ run'[p].cursor = run[p].cursor /\ run'[p].batches = run[p].batches
        /\ run'[p].errors = run[p].errors /\ run'[p].due = run[p].due
    BY <1>0, <2>1 DEF ArchiveRuns
  <2>4. Passed(p)' \in SUBSET Passed(p) /\ Skips(p)' = Skips(p)
    BY <1>2, <2>1, <2>2, <2>3 DEF Left, Passed, Skips
  <2>5. Cardinality(Passed(p)') \in Nat /\ Cardinality(Passed(p)') <= Cardinality(Passed(p))
    BY <1>0, <2>4, LeftType, FS_Subset, FS_CardinalityType
  <2>6. Cardinality(Passed(p)') <= run'[p].errors + Skips(p)'
    BY <1>0, <2>1, <2>3, <2>4, <2>5, LeftType DEF LeftOK
  <2>7. LeftOK(p)'
    BY <1>0, <2>3, <2>6 DEF LeftOK
  <2>8. QED
    BY <1>0, <1>2, <2>1, <2>2, <2>7, OtherLeft
<1>9. ASSUME NEW p \in Processes, ReturnResult(p) \/ Abandon(p)
      PROVE  \A q \in Processes : LeftOK(q)'
  <2>1. run'[p] = Idle /\ rawXdr' = rawXdr /\ \A q \in Processes : q # p => run'[q] = run[q]
    BY <1>0, <1>9 DEF ReturnResult, Abandon, ArchiveTypeOK
  <2>2. LeftOK(p)'
    BY <2>1 DEF LeftOK, Idle, NoCursor
  <2>3. QED
    BY <1>0, <2>1, <2>2, OtherLeft
<1>10. ASSUME UNCHANGED archiveVars
       PROVE  \A q \in Processes : LeftOK(q)'
  BY <1>0, <1>10, OtherLeft DEF archiveVars
<1>11. \A q \in Processes : LeftOK(q)'
  BY <1>3, <1>4, <1>5, <1>6, <1>7, <1>8, <1>9, <1>10 DEF ArchiveNext, RunStep
<1>12. QED
  BY <1>1, <1>11 DEF LeftInv

\* archiver.ts:47: a run that goes to its end leaves behind at most the rows whose
\* upload failed and one row for every batch, for any transactions and batch size and
\* however many other runs, new transactions and faults come in between.
THEOREM FewAreLeft == ArchiveSpec => []FewLeftBehind
<1>1. ArchiveInit => LeftInv
  <2> SUFFICES ASSUME ArchiveInit PROVE \A p \in Processes : LeftOK(p)
    BY EnvelopeInit DEF LeftInv
  <2>2. ASSUME NEW p \in Processes
        PROVE  run[p].pc = "idle" /\ run[p].cursor = -1 /\ run[p].batches = 0
    <3>1. run[p] = Idle
      BY DEF ArchiveInit
    <3>2. QED
      BY <3>1 DEF Idle, NoCursor
  <2>3. QED
    BY <2>2 DEF LeftOK, NoCursor
<1>2. LeftInv /\ [ArchiveNext]_archiveVars => LeftInv'
  BY LeftStep
<1>3. LeftInv => FewLeftBehind
  BY SameCount DEF LeftInv, LeftOK, Left, FewLeftBehind
<1>4. QED
  BY <1>1, <1>2, <1>3, PTL DEF ArchiveSpec

=============================================================================
