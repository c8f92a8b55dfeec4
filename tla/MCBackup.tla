------------------------------ MODULE MCBackup ------------------------------
(* Small instances of Backup for TLC.                                      *)
EXTENDS Backup, TLC

CONSTANTS r1, r2, r3, s1, s2, w1, w2

\* One run a day on two days; one, two or three runs on one day.
TwoDays   == [r \in {r1, r2} |-> IF r = r1 THEN w1 ELSE w2]
OneRun    == [r \in {r1} |-> w1]
OneDay    == [r \in {r1, r2} |-> w1]
ThreeRuns == [r \in {r1, r2, r3} |-> w1]

\* The triggers of one day are alike.
Triggers == Permutations({r1, r2, r3})
=============================================================================
