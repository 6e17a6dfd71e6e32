------------------------- MODULE MCEventBroadcaster -------------------------
(* EventBroadcaster for TLC. *)
EXTENDS EventBroadcaster
=============================================================================
