---------------------------- MODULE MCFeedStream ----------------------------
(* FeedStream for TLC. *)
EXTENDS FeedStream
=============================================================================
