------------------------------- MODULE MCProc -------------------------------
(* Instances of Proc for TLC. *)
EXTENDS Proc, TLC

CONSTANTS c0, c1, c2, free

\* All CPUs but the one with the clock are alike.
OtherCpus == Permutations(CPUs \ {Cpu0})
=============================================================================
