--------------------------- MODULE MCScheduling ---------------------------
(***************************************************************************)
(* Instances of the task layer, of the two schedulers under it, and of the *)
(* futex calls over it.  A behaviour runs one of them, `part`; the others  *)
(* stay as they were initialised.                                          *)
(***************************************************************************)
EXTENDS TaskSched, Integers, Sequences, FiniteSets

CONSTANTS
  Cpus, MAX_TIME_SLICE, MaxOverrun, MaxVruntime,
  Waiter, Waker, Key, Size, Bits, MaxQueue

\* put_prev_task as the kernel calls it, and any use.
Preempts == {{FALSE}, {TRUE, FALSE}}

\* No change, more weight and less weight.
Nice == {0, -2, 5}

Removes == BOOLEAN

\* No call of futex_requeue, or calls in one direction.
Requeues == {{}, {<<2, 1>>}}

ASSUME SliceAssumption == MAX_TIME_SLICE \in Nat \ {0} /\ Preempts \subseteq SUBSET BOOLEAN
ASSUME NiceAssumption == Nice \subseteq -20..19 /\ None \notin Int

VARIABLES
  part,
  preempts, rr_queue, time_slice, rr_held,
  removes, cfs_queue, min_vruntime, init_vruntime, delta, nice, cfs_held,
  requeues, val, buckets, lock, at, arg, timeout, ret, woken, futex_panicked

RR == INSTANCE RoundRobin WITH ready_queue <- rr_queue, held <- rr_held

\* Two tasks are enough to compete for the first place of its map.
Cfs ==
  INSTANCE CFS WITH Task <- {1, 2}, ready_queue <- cfs_queue, held <- cfs_held

Ftx == INSTANCE Futex WITH panicked <- futex_panicked

layerVars == <<taskVars, wakers>>
rrVars == <<preempts, rr_queue, time_slice, rr_held>>
cfsVars == <<removes, cfs_queue, min_vruntime, init_vruntime, delta, nice, cfs_held>>
futexVars == <<requeues, val, buckets, lock, at, arg, timeout, ret, woken, futex_panicked>>
allVars == <<part, layerVars, rrVars, cfsVars, futexVars>>

MCInit ==
  /\ part \in {"layer", "rr", "cfs", "futex"}
  /\ Init /\ RR!Init /\ Cfs!Init /\ Ftx!Init
  /\ part # "rr" => preempts = {FALSE}
  /\ part # "cfs" => removes = FALSE
  /\ part # "futex" => requeues = {}

MCNext ==
  /\ UNCHANGED part
  /\ \/ part = "layer" /\ Next /\ UNCHANGED <<rrVars, cfsVars, futexVars>>
     \/ part = "rr" /\ RR!Next /\ UNCHANGED <<layerVars, cfsVars, futexVars>>
     \/ part = "cfs" /\ Cfs!Next /\ UNCHANGED <<layerVars, rrVars, futexVars>>
     \/ part = "futex" /\ Ftx!Next /\ UNCHANGED <<layerVars, rrVars, cfsVars>>

\* The calls of futex_requeue are made by the wakers.
FutexFairness ==
  \A t \in Waker :
    SF_allVars(part = "futex" /\ Ftx!RequeueMove(t) /\ UNCHANGED <<part, requeues, layerVars, rrVars, cfsVars>>)

FairSpec == MCInit /\ [][MCNext]_allVars /\ RR!Fairness /\ FutexFairness

----------------------------------------------------------------------------
(* Properties.                                                             *)

\* Round robin: a task gets ahead of queued ones only if put_prev_task was told that it
\* was preempted and a part of its slice is left.  CFS: unless tasks are removed, min_vruntime,
\* from which add_task starts a task, is a lower bound of the queue and of the tasks on the CPUs.
NoOvertaking == RR!NoOvertaking /\ Cfs!NoOvertaking

\* Round robin: called as the kernel does, pick_next_task gives every task its turn.
Picked == RR!Picked

\* Each scheduler is a BaseScheduler: it gives out the tasks that add_task and
\* put_prev_task brought to it, each to one CPU.
ImplementsBase == RR!ImplementsBase /\ Cfs!ImplementsBase

\* Futex: unless futex_requeue is used, futex_wait succeeds exactly for the waiters that a
\* waker has counted, and a task is in a bucket once at most and only while it waits.
OkIffWoken == Ftx!OkIffWoken /\ Ftx!QueuedWhileWaiting

=============================================================================
