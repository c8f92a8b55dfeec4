-------------------------- MODULE MCArchiveRestore --------------------------
(* Small instances of ArchiveRestore for TLC.                              *)
EXTENDS ArchiveRestore, TLC

CONSTANTS d1, d2, k1, k2, c1

OneDelivery   == {d1}
TwoDeliveries == {d1, d2}
OneCheck      == {k1}
TwoChecks     == {k1, k2}
OneCaller     == {c1}

\* Deliveries are alike and so are checks.
Symmetry == Permutations({d1, d2}) \cup Permutations({k1, k2})
=============================================================================
