--------------------------- MODULE MCColdRestore ----------------------------
(* Small instances of ColdRestore for TLC.                                 *)
EXTENDS ColdRestore, TLC

CONSTANTS d1, d2, c1, c2

OneDelivery   == {d1}
TwoDeliveries == {d1, d2}
OneCaller     == {c1}
TwoCallers    == {c1, c2}

\* Deliveries are alike and so are callers.
Symmetry == Permutations({d1, d2}) \cup Permutations({c1, c2})
=============================================================================
