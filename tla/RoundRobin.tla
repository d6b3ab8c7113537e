----------------------------- MODULE RoundRobin -----------------------------
(***************************************************************************)
(* RRScheduler, with the CPUs that use it.  Every operation runs under the *)
(* lock of the scheduler.  The answer of task_tick only asks for a         *)
(* preemption and is not kept.                                             *)
(***************************************************************************)
EXTENDS Integers, Sequences, FiniteSets

CONSTANTS
  Task, Cpus,
  MAX_TIME_SLICE,
  Preempts,  \* the sets of values of `preempt` that put_prev_task may be called with
  MaxOverrun \* bound: ticks past the end of a slice

VARIABLES
  preempts,  \* the values that this kernel calls it with
  ready_queue,
  time_slice,
  held       \* the tasks a CPU has picked

vars == <<preempts, ready_queue, time_slice, held>>

\* The tasks in the ready queue.
Queued == {ready_queue[i] : i \in DOMAIN ready_queue}

Init ==
  /\ preempts \in Preempts
  /\ ready_queue = <<>>
  /\ time_slice = [t \in Task |-> MAX_TIME_SLICE]
  /\ held = {}

add_task(t) ==
  /\ t \notin Queued \cup held
  /\ ready_queue' = Append(ready_queue, t)
  /\ UNCHANGED <<time_slice, held>>

remove_task(t) ==
  \E idx \in DOMAIN ready_queue :
    /\ ready_queue[idx] = t
    /\ ready_queue' = SubSeq(ready_queue, 1, idx - 1) \o SubSeq(ready_queue, idx + 1, Len(ready_queue))
    /\ UNCHANGED <<time_slice, held>>

\* Mutant: the task is looked at and stays in the queue.
PickKeeps(t) ==
  /\ ready_queue # <<>>
  /\ Cardinality(held) < Cpus
  /\ t = Head(ready_queue)
  /\ held' = held \cup {t}
  /\ UNCHANGED <<ready_queue, time_slice>>

pick_next_task(t) ==
  /\ ready_queue # <<>>
  /\ Cardinality(held) < Cpus
  /\ t = Head(ready_queue)
  /\ ready_queue' = Tail(ready_queue)
  /\ held' = held \cup {t}
  /\ UNCHANGED time_slice

\* Mutant: the slice is not looked at.
PutPrevFront(t, preempt) ==
  /\ t \in held
  /\ held' = held \ {t}
  /\ IF preempt
     THEN ready_queue' = <<t>> \o ready_queue /\ UNCHANGED time_slice
     ELSE /\ time_slice' = [time_slice EXCEPT ![t] = MAX_TIME_SLICE]
          /\ ready_queue' = Append(ready_queue, t)

\* Mutant: a task that yields goes to the front.
PutPrevFirst(t, preempt) ==
  /\ t \in held
  /\ held' = held \ {t}
  /\ ready_queue' = <<t>> \o ready_queue
  /\ UNCHANGED time_slice

\* A task that still has a part of its slice and did not give up the CPU itself keeps
\* its turn.
put_prev_task(t, preempt) ==
  /\ t \in held
  /\ held' = held \ {t}
  /\ IF time_slice[t] > 0 /\ preempt
     THEN ready_queue' = <<t>> \o ready_queue /\ UNCHANGED time_slice
     ELSE /\ time_slice' = [time_slice EXCEPT ![t] = MAX_TIME_SLICE]
          /\ ready_queue' = Append(ready_queue, t)

\* The counter goes on below zero while the task cannot be preempted.
task_tick(t) ==
  /\ t \in held
  /\ time_slice[t] > -MaxOverrun
  /\ time_slice' = [time_slice EXCEPT ![t] = @ - 1]
  /\ UNCHANGED <<ready_queue, held>>

\* The CPU drops the task: it is Blocked or Exited.
Leave(t) ==
  /\ t \in held
  /\ held' = held \ {t}
  /\ UNCHANGED <<ready_queue, time_slice>>

GiveUp(t) == Leave(t) \/ \E preempt \in preempts : put_prev_task(t, preempt)

Next ==
  /\ UNCHANGED preempts
  /\ \E t \in Task :
       add_task(t) \/ remove_task(t) \/ pick_next_task(t) \/ task_tick(t) \/ GiveUp(t)

Spec == Init /\ [][Next]_vars

\* A CPU without a task asks for one, and a task gives up its CPU at some time.
Fairness ==
  /\ WF_vars(UNCHANGED preempts /\ \E t \in Task : pick_next_task(t))
  /\ \A t \in Task : WF_vars(UNCHANGED preempts /\ GiveUp(t))

FairSpec == Spec /\ Fairness

----------------------------------------------------------------------------
(* Properties.                                                             *)

\* t is before u in the ready queue.
Before(t, u) ==
  \E i, j \in DOMAIN ready_queue : i < j /\ ready_queue[i] = t /\ ready_queue[j] = u

\* No task passes one that is ahead of it, and one that comes to the queue gets ahead of
\* those in it only if it was preempted before the end of its slice.
InTurn ==
  \A t, u \in Task :
    t # u /\ t \in Queued /\ Before(u, t)' =>
      Before(u, t) \/ (u \in held /\ time_slice[u] > 0 /\ TRUE \in preempts)

NoOvertaking == [][InTurn]_vars

\* Called as the kernel does, without preempt, it gives every queued task its turn.
Picked == \A t \in Task : preempts = {FALSE} /\ t \in Queued ~> t \notin Queued

Base == INSTANCE BaseScheduler WITH queued <- Queued

\* RRScheduler is a BaseScheduler: it gives out the tasks that were added to it, each to
\* one CPU.
ImplementsBase == Base!Spec
=============================================================================
