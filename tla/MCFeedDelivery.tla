--------------------------- MODULE MCFeedDelivery ---------------------------
(* FeedDelivery for TLC. *)
EXTENDS FeedDelivery
=============================================================================
