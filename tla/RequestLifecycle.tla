-------------------------- MODULE RequestLifecycle --------------------------
(***************************************************************************)
(* What a restore request promises to its user, cold or archive: one       *)
(* status that moves forward, one claim, one outcome, at most one mail     *)
(* about that outcome.  ColdRestore and ArchiveRestore implement it.       *)
(*                                                                         *)
(* It is as weak as the code makes it: Fail may follow any status, also a  *)
(* final one, and the mail that is owed may be lost.                       *)
(***************************************************************************)
EXTENDS Naturals, Sequences

Outcomes == {"Completed", "PartialSuccess", "Failed"}
Final    == Outcomes \cup {"Cancelled"}

VARIABLES status,   \* the status of the request
          owed,     \* the outcome a mail is still to be sent about, or "none"
          mails     \* the outcomes mailed

Init ==
    /\ status = "None"
    /\ owed = "none"
    /\ mails = <<>>

Submit == status = "None" /\ status' = "Pending" /\ UNCHANGED <<owed, mails>>

Begin == status = "Pending" /\ status' = "InProgress" /\ UNCHANGED <<owed, mails>>

\* Whoever ends the request owes the mail.
Finish ==
    /\ status = "InProgress"
    /\ status' \in Outcomes
    /\ owed' = status'
    /\ UNCHANGED mails

Cancel ==
    /\ status \in {"Pending", "InProgress"}
    /\ status' = "Cancelled"
    /\ UNCHANGED <<owed, mails>>

\* A delivery that fails says so, whatever became of the request meanwhile.
Fail ==
    /\ status # "None"
    /\ status' = "Failed"
    /\ UNCHANGED <<owed, mails>>

SendMail ==
    /\ owed # "none"
    /\ mails' = Append(mails, owed)
    /\ owed' = "none"
    /\ UNCHANGED status

LoseMail == owed # "none" /\ owed' = "none" /\ UNCHANGED <<status, mails>>

Next == Submit \/ Begin \/ Finish \/ Cancel \/ Fail \/ SendMail \/ LoseMail

Spec == Init /\ [][Next]_<<status, owed, mails>>

\* At most one mail, and none for a request nobody ended.
OneMail ==
    /\ Len(mails) <= 1
    /\ owed # "none" => mails = <<>>
    /\ status \in {"None", "Pending", "InProgress"} => owed = "none" /\ mails = <<>>
=============================================================================
