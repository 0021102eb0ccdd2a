----------------------------- MODULE MCFlusher -----------------------------
(***************************************************************************)
(* Instances of Flusher for TLC: two stores, two keys, one value and the   *)
(* deletion of a key.                                                      *)
(***************************************************************************)
EXTENDS Flusher, TLC

\* Stores and keys are interchangeable.
Symmetry == Permutations(Stores) \cup Permutations(Key)
=============================================================================
