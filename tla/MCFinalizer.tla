---------------------------- MODULE MCFinalizer -----------------------------
(* Instances of Finalizer for TLC: callers, keys and commits are compared     *)
(* only for equality, so each of these sets is symmetric.                     *)
EXTENDS Finalizer, TLC

Symmetry == Permutations(Caller) \cup Permutations(Key) \cup Permutations(Commit)
=============================================================================
