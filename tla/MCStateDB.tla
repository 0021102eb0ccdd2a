----------------------------- MODULE MCStateDB -----------------------------
(* StateDB for TLC. *)
EXTENDS StateDB, TLC

\* Accounts, tokens and the values written are interchangeable; storage keys are
\* ordered.
Symmetry == Permutations(Addr) \cup Permutations(Balance) \cup Permutations(Value)
=============================================================================
