---------------------------- MODULE MCTrampoline ----------------------------
(* Trampoline on two CPUs and two or three tasks.                          *)
EXTENDS Trampoline, TLC

Symmetry == Permutations(Task) \cup Permutations(Cpu)
=============================================================================
