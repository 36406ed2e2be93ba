----------------------------- MODULE MCJournal -----------------------------
(* The journal with two callers, two keys and two inputs, for TLC. *)
EXTENDS Journal
=============================================================================
