---------------------------- MODULE MCSecretTags ----------------------------
(* Small instances of SecretTags for TLC.                                  *)
EXTENDS SecretTags, TLC

\* Calls are alike.
Symmetry == Permutations(Writers)
=============================================================================
