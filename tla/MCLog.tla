------------------------------- MODULE MCLog -------------------------------
(* Instances of Log for TLC. *)
EXTENDS Log, TLC

Perms == Permutations(Procs) \cup Permutations(Home)
=============================================================================
