----------------------------- MODULE MCArchiver -----------------------------
(* Archiver for TLC: the processes are interchangeable. *)
EXTENDS Archiver, TLC
=============================================================================
