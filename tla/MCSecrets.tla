------------------------------ MODULE MCSecrets -----------------------------
(* Small instances of Secrets for TLC.                                     *)
EXTENDS Secrets, TLC

\* Ids are alike and so are calls.
Symmetry == Permutations(Ids) \cup Permutations(Calls)
=============================================================================
