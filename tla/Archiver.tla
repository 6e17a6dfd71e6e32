------------------------------ MODULE Archiver ------------------------------
(***************************************************************************)
(* Archival of raw XDR: archiveRawXdr in src/src/archival/archiver.ts, run *)
(* every day by the pruner (src/src/indexer/dataPruner.ts) of every        *)
(* indexer process and by hand (src/src/archival/run.ts).                  *)
(*                                                                         *)
(* A run walks over the old transactions in batches: it copies the rawXdr  *)
(* of a batch to S3, all rows at once, and then empties the column of the  *)
(* rows whose upload succeeded.  Runs of several processes may overlap.    *)
(*                                                                         *)
(* Transactions are numbered in the order of their ids.  That a            *)
(* transaction is older than RAW_XDR_RETENTION_DAYS is a fact of its       *)
(* ledger, also before the indexer has stored it.                          *)
(***************************************************************************)
EXTENDS Integers, FiniteSets, FiniteSetsExt

CONSTANTS
    Transactions,   \* the transactions, in the order of their ids
    Bare,           \* the ones without an envelope: stored with rawXdr ''
    Young,          \* the ones within the retention period at the beginning
    ARCHIVE_BATCH,  \* ARCHIVE_BATCH_SIZE
    Processes,      \* the processes that run archiveRawXdr
    MaxFaults       \* bound: failing uploads, failing queries and crashes

ASSUME ArchiverAssumption ==
    /\ Transactions \subseteq Nat /\ IsFiniteSet(Transactions)
    /\ Bare \subseteq Transactions /\ Young \subseteq Transactions
    /\ ARCHIVE_BATCH \in Nat \ {0} /\ MaxFaults \in Nat

VARIABLES
    rawXdr,         \* Transaction.rawXdr: "xdr", "empty", or "none" without a row
    object,         \* the S3 object of a transaction: its rawXdr field, or "none"
    young,          \* the transactions within the retention period
    run,            \* the archiveRawXdr call of a process
    faults

archiveVars == <<rawXdr, object, young, run, faults>>

NoCursor == -1

(***************************************************************************)
(* A call of archiveRawXdr.  `young' is its cutoff, `read' the rows of the *)
(* batch whose upload is under way, with the rawXdr that was read for each,*)
(* `toNullify' the uploaded ones.  The last three fields record what the   *)
(* run was to do: the rows it should archive, the batches it has read and  *)
(* the uploads that failed (result.errors).                                *)
(***************************************************************************)
Idle == [pc |-> "idle", young |-> {}, cursor |-> NoCursor, read |-> <<>>, toNullify |-> {},
         due |-> {}, batches |-> 0, errors |-> 0]

ArchiveInit ==
    /\ rawXdr = [r \in Transactions |-> "none"]
    /\ object = [r \in Transactions |-> "none"]
    /\ young = Young
    /\ run = [p \in Processes |-> Idle]
    /\ faults = 0

Fault == faults < MaxFaults /\ faults' = faults + 1

----------------------------------------------------------------------------
(* The indexer and time. *)

\* indexer.ts:149: a transaction is stored with its envelope, or '' without one.
Store(r) ==
    /\ rawXdr[r] = "none"
    /\ rawXdr' = [rawXdr EXCEPT ![r] = IF r \in Bare THEN "empty" ELSE "xdr"]
    /\ UNCHANGED <<object, young, run, faults>>

\* The retention period of a transaction ends.
Age(r) ==
    /\ r \in young
    /\ young' = young \ {r}
    /\ UNCHANGED <<rawXdr, object, run, faults>>

----------------------------------------------------------------------------
(* archiveRawXdr. *)

Archivable(cutoff) == {r \in Transactions : r \notin cutoff /\ rawXdr[r] = "xdr"}

\* The pruner's timer, or somebody at the command line.
Begin(p) ==
    /\ run[p].pc = "idle"
    /\ run' = [run EXCEPT ![p].pc = "find", ![p].young = young, ![p].due = Archivable(young)]
    /\ UNCHANGED <<rawXdr, object, young, faults>>

\* Mutant: the query does not ask for rawXdr # ''.
MatchesAnyXdr(p) == {r \in Transactions : r \notin run[p].young /\ rawXdr[r] # "none"}

\* The rows the query's `where' admits.
Matches(p) == Archivable(run[p].young)

FirstOf(S, n) == {r \in S : Cardinality({q \in S : q < r}) < n}

(***************************************************************************)
(* findMany with `cursor' and `skip: 1': Prisma continues at the id of the *)
(* cursor and drops the first row that matches, which is the cursor's own  *)
(* row only if that row still matches.                                     *)
(***************************************************************************)
Page(p) ==
    IF run[p].cursor = NoCursor THEN FirstOf(Matches(p), ARCHIVE_BATCH)
    ELSE LET rest == {r \in Matches(p) : r >= run[p].cursor}
         IN  FirstOf(rest \ FirstOf(rest, 1), ARCHIVE_BATCH)

\* Read the next batch; an empty one ends the run.
FindBatch(p) ==
    /\ run[p].pc = "find"
    /\ IF Page(p) = {}
       THEN run' = [run EXCEPT ![p].pc = "ended"]
       ELSE run' = [run EXCEPT ![p].pc = "upload", ![p].cursor = Max(Page(p)),
                               ![p].read = [r \in Page(p) |-> rawXdr[r]],
                               ![p].batches = @ + 1]
    /\ UNCHANGED <<rawXdr, object, young, faults>>

Without(f, r) == [q \in DOMAIN f \ {r} |-> f[q]]

\* uploadToS3 of one row succeeds: the object holds what the query had read.
Upload(p, r) ==
    /\ run[p].pc = "upload"
    /\ object' = [object EXCEPT ![r] = run[p].read[r]]
    /\ run' = [run EXCEPT ![p].read = Without(@, r), ![p].toNullify = @ \cup {r}]
    /\ UNCHANGED <<rawXdr, young, faults>>

\* Mutant: the id is collected although the upload failed.
UploadFailsUnnoticed(p, r) ==
    /\ run[p].pc = "upload"
    /\ Fault
    /\ run' = [run EXCEPT ![p].read = Without(@, r), ![p].toNullify = @ \cup {r}]
    /\ UNCHANGED <<rawXdr, object, young>>

\* uploadToS3 rejects, with or without the object having been written.
UploadFails(p, r) ==
    /\ run[p].pc = "upload"
    /\ Fault
    /\ object' \in {object, [object EXCEPT ![r] = run[p].read[r]]}
    /\ run' = [run EXCEPT ![p].read = Without(@, r), ![p].errors = @ + 1]
    /\ UNCHANGED <<rawXdr, young>>

\* Mutant: updateMany is left out.
NullifyForgotten(p) ==
    /\ run[p].pc = "upload" /\ DOMAIN run[p].read = {}
    /\ run' = [run EXCEPT ![p].pc = "find", ![p].toNullify = {}]
    /\ UNCHANGED <<rawXdr, object, young, faults>>

\* Promise.allSettled is over: updateMany on the collected ids, if there are any.
Nullify(p) ==
    /\ run[p].pc = "upload" /\ DOMAIN run[p].read = {}
    /\ rawXdr' = [r \in Transactions |-> IF r \in run[p].toNullify THEN "empty" ELSE rawXdr[r]]
    /\ run' = [run EXCEPT ![p].pc = "find", ![p].toNullify = {}]
    /\ UNCHANGED <<object, young, faults>>

\* Mutant: the cursor outlives the run.
ResultKeepsCursor(p) ==
    /\ run[p].pc = "ended"
    /\ run' = [run EXCEPT ![p] = [Idle EXCEPT !.cursor = run[p].cursor]]
    /\ UNCHANGED <<rawXdr, object, young, faults>>

\* The result is logged; the pruner waits for its timer again.
ReturnResult(p) ==
    /\ run[p].pc = "ended"
    /\ run' = [run EXCEPT ![p] = Idle]
    /\ UNCHANGED <<rawXdr, object, young, faults>>

\* A query fails and the call throws, or the process dies: the run is abandoned
\* where it is, and uploads under way may still be executed by S3.
Abandon(p) ==
    /\ run[p].pc # "idle"
    /\ Fault
    /\ \E sent \in SUBSET DOMAIN run[p].read :
          object' = [r \in Transactions |-> IF r \in sent THEN run[p].read[r] ELSE object[r]]
    /\ run' = [run EXCEPT ![p] = Idle]
    /\ UNCHANGED <<rawXdr, young>>

RunStep(p) ==
    \/ FindBatch(p)
    \/ \E r \in DOMAIN run[p].read : Upload(p, r)
    \/ Nullify(p)
    \/ ReturnResult(p)

ArchiveNext ==
    \/ \E r \in Transactions : Store(r) \/ Age(r)
    \/ \E p \in Processes :
          \/ Begin(p)
          \/ RunStep(p)
          \/ \E r \in DOMAIN run[p].read : UploadFails(p, r)
          \/ Abandon(p)

(***************************************************************************)
(* Fairness: the timer of every process fires again and again, a run goes  *)
(* on unless it fails, and transactions age.                               *)
(***************************************************************************)
ArchiveFairness ==
    /\ \A r \in Transactions : WF_archiveVars(Age(r))
    /\ \A p \in Processes : WF_archiveVars(Begin(p)) /\ WF_archiveVars(RunStep(p))

ArchiveSpec == ArchiveInit /\ [][ArchiveNext]_archiveVars /\ ArchiveFairness

----------------------------------------------------------------------------
\* archiver.ts:16: "Archive raw XDR ... to S3, then null out the rawXdr column":
\* the envelope of a stored transaction is in the database or in S3 at any time,
\* whichever uploads and queries fail, wherever a run is cut off and however the
\* runs of two processes overlap on the same rows.
XdrKept ==
    \A r \in Transactions \ Bare : rawXdr[r] = "empty" => object[r] = "xdr"

\* A run that ends has emptied every row that was due when it began, except for
\* the failed uploads it has counted and for one row per later batch, which the
\* `skip: 1' drops when the cursor's row has just been emptied.
FewLeftBehind ==
    \A p \in Processes : run[p].pc = "ended" =>
        Cardinality({r \in run[p].due : rawXdr[r] = "xdr"}) <= run[p].errors + run[p].batches

\* What a run leaves behind is not lost to archival: the runs of the following
\* days get it, and in the end every stored transaction is out of the database.
AllArchived == <>[](\A r \in Transactions : rawXdr[r] # "xdr")

=============================================================================
