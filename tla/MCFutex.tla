------------------------------ MODULE MCFutex ------------------------------
(* Instances of Futex. *)
EXTENDS Futex, TLC

BothWays == {{<<1, 2>>, <<2, 1>>}}

Symmetry == Permutations(Waiter) \cup Permutations(Waker)
=============================================================================
