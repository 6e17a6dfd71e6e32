-------------------------- MODULE MCLeaderElection --------------------------
(* LeaderElection for TLC. *)
EXTENDS LeaderElection
=============================================================================
