--------------------------- MODULE BaseScheduler ---------------------------
(***************************************************************************)
(* What the trait BaseScheduler promises to the kernel, whatever the       *)
(* algorithm: a task that was added is in the scheduler until it is        *)
(* removed or picked, and a picked task is its CPU's alone until the CPU   *)
(* puts it back or lets it block.                                          *)
(***************************************************************************)
EXTENDS Naturals, FiniteSets

CONSTANTS
  Task,
  Cpus       \* the number of CPUs

VARIABLES
  queued,    \* the tasks in the scheduler
  held       \* the tasks a CPU has picked

vars == <<queued, held>>

Init == queued = {} /\ held = {}

add_task(t) ==
  /\ t \notin queued \cup held
  /\ queued' = queued \cup {t}
  /\ UNCHANGED held

remove_task(t) ==
  /\ t \in queued
  /\ queued' = queued \ {t}
  /\ UNCHANGED held

pick_next_task(t) ==
  /\ t \in queued
  /\ Cardinality(held) < Cpus
  /\ queued' = queued \ {t}
  /\ held' = held \cup {t}

put_prev_task(t) ==
  /\ t \in held
  /\ held' = held \ {t}
  /\ queued' = queued \cup {t}

\* The CPU drops the task: it is Blocked or Exited.
Leave(t) ==
  /\ t \in held
  /\ held' = held \ {t}
  /\ UNCHANGED queued

Next ==
  \E t \in Task :
    add_task(t) \/ remove_task(t) \/ pick_next_task(t) \/ put_prev_task(t) \/ Leave(t)

Spec == Init /\ [][Next]_vars
=============================================================================
