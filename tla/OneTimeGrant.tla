---------------------------- MODULE OneTimeGrant ----------------------------
(***************************************************************************)
(* What a connect request promises to the site that opened it: it is open, *)
(* then granted at most once, and the keys of the grant go out at most     *)
(* once.  A request closed without a grant never gives keys.               *)
(* ConnectServer implements it.                                            *)
(***************************************************************************)
EXTENDS Naturals

VARIABLES state,   \* "open", "granted", "delivered" or "closed"
          keys     \* how often keys were handed out

Init == state = "open" /\ keys = 0

Grant == state = "open" /\ state' = "granted" /\ UNCHANGED keys

\* Cancelled, burned, expired, or redeemed for keys that cannot be read.
Close == state \in {"open", "granted"} /\ state' = "closed" /\ UNCHANGED keys

Deliver == state = "granted" /\ state' = "delivered" /\ keys' = keys + 1

Next == Grant \/ Close \/ Deliver

Spec == Init /\ [][Next]_<<state, keys>>
=============================================================================
