-------------------------- MODULE MCConnectServer --------------------------
(* A small instance of ConnectServer: users, templates and calls are each   *)
(* interchangeable.                                                         *)
EXTENDS ConnectServer, TLC

Symmetry == Permutations(Calls) \cup Permutations(Users) \cup Permutations(Templates)
=============================================================================
