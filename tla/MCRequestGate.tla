---------------------------- MODULE MCRequestGate ----------------------------
(* RequestGate, model-checked. *)
EXTENDS RequestGate
=============================================================================
