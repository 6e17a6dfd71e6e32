-------------------------- MODULE MCLedgerIndexer --------------------------
(* Values for the constants of LedgerIndexer that a .cfg cannot write. *)
EXTENDS LedgerIndexer, TLC

\* Authorizations in ledgers 1 and 2, of which the first declares startLedger 2.
AuthInNextLedger == 1 :> 2 @@ 2 :> 2

NoAuths == [s \in {} |-> 1]

SlotSymmetry == Permutations(Slots)
=============================================================================
