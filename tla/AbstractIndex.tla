---------------------------- MODULE AbstractIndex ----------------------------
(***************************************************************************)
(* What the indexer promises to the readers of its tables while the        *)
(* network does not change its fork: the index only grows, ledgers may be  *)
(* added in any order, and IndexerState.lastLedger moves forward only over *)
(* ledgers that are there with their transactions and events or whose      *)
(* events were given up because a response did not reach them.  A reader   *)
(* who stays at or below lastLedger meets no other hole.                   *)
(***************************************************************************)
EXTENDS Integers

CONSTANTS
    Start,      \* the ledger before the first one to index
    Last        \* the last ledger

VARIABLES
    upto,       \* IndexerState.lastLedger
    index,      \* the ledgers that are stored completely
    lost        \* the ledgers whose events some response did not reach

vars == <<upto, index, lost>>

Ledgers == (Start + 1)..Last

Init == upto = Start /\ index = {} /\ lost = {}

Store(s) ==
    /\ s \notin index
    /\ index' = index \cup {s}
    /\ UNCHANGED <<upto, lost>>

\* One response may end before several ledgers.
GiveUp(S) ==
    /\ lost' = lost \cup S
    /\ UNCHANGED <<upto, index>>

Publish(n) ==
    /\ n > upto
    /\ (Start + 1)..n \subseteq index \cup lost
    /\ upto' = n
    /\ UNCHANGED <<index, lost>>

Next ==
    \/ \E s \in Ledgers : Store(s) \/ Publish(s)
    \/ \E S \in SUBSET Ledgers : GiveUp(S)

Spec == Init /\ [][Next]_vars
=============================================================================
