---------------------------- MODULE MCTimedWait ----------------------------
(* Instances of TimedWait. *)
EXTENDS TimedWait, TLC

\* Sleeping, and waiting with notifications: a condition and the clock may both end a wait.
Mixed ==
  {{"sleep", "yield"},
   {"wait_timeout_until", "notify"},
   {"wait_queue_wait", "notify"},
   {"wait_timeout", "notify"}}

\* One kind of call, and the clock as the only waker.
Plain == {{"sleep"}, {"wait_timeout_until"}}

Notified == {{"wait_timeout_until", "notify"}}

Symmetry == Permutations(Task) \cup Permutations(Cpu)
=============================================================================
