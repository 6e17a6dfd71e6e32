--------------------------- MODULE MCIndexerDaemon ---------------------------
(* IndexerDaemon for TLC: five ledgers, of which the third has no event. *)
EXTENDS IndexerDaemon

FiveLedgers == [l \in 0..5 |-> CASE l = 0 -> 0 [] l = 1 -> 1 [] l = 2 -> 3 [] l = 3 -> 3 [] l = 4 -> 5 [] l = 5 -> 7]
=============================================================================
