---------------------------- MODULE MCMigration ----------------------------
(* Small instances of Migration.  The wizard offers one service; the API    *)
(* takes any, also one that has no queue.                                   *)
EXTENDS Migration

CONSTANTS r1, r2, r3, r4, lang, iam, mfa

SmallServices ==
    [r \in Requests |-> CASE r = r3 -> {lang, iam}
                          [] r = r4 -> {lang, mfa}
                          [] OTHER  -> {lang}]
=============================================================================
