----------------------------- MODULE TaskSched -----------------------------
(***************************************************************************)
(* The task layer of the kernel: the life cycle of tasks over the CPUs, at *)
(* the granularity of one operation on a task's state.  Every operation    *)
(* here runs under the task's `state` spin lock in the code (Trampoline    *)
(* has the lock-by-lock version and implements this one).                  *)
(*                                                                         *)
(* The ready queue is kept as the number of references it holds to each    *)
(* task, so that every scheduler of crates/scheduler is an instance.  A    *)
(* component that blocks and wakes tasks instantiates this module and      *)
(* conjoins its own state to these operations.                             *)
(***************************************************************************)
EXTENDS Naturals

CONSTANTS
  Task,      \* the tasks that are ever created
  Cpu,       \* the CPUs
  None,      \* the null CURRENT_TASK_PTR
  Node       \* places on wait, timer and join lists a waker of a task can be at

ASSUME NoneAssumption == None \notin Task

VARIABLES
  state,     \* TaskInner::state
  ready,     \* references to each task held by KERNEL_SCHEDULER
  current,   \* CurrentTask of each CPU
  strong,    \* Arc::strong_count: scheduler-side references to each task
  wakers,    \* places that still hold a waker (a raw pointer) of each task
  panicked   \* the kernel has panicked

taskVars == <<state, ready, current, strong, panicked>>
vars == <<state, ready, current, strong, wakers, panicked>>

TaskState == {"Running", "Runable", "Blocking", "Waked", "Blocked", "Exited"}

\* The states of a task that some CPU is executing.
OnCpu == {"Running", "Blocking", "Waked"}

SetState(t, s) == state' = [state EXCEPT ![t] = s]

----------------------------------------------------------------------------
(* Operations.                                                             *)

\* TaskInner::new, then add_task: the one reference is the ready queue's.
Spawn(t) ==
  /\ state[t] = "New"
  /\ SetState(t, "Runable")
  /\ strong' = [strong EXCEPT ![t] = 1]
  /\ ready' = [ready EXCEPT ![t] = @ + 1]
  /\ UNCHANGED <<current, panicked>>

\* pick_next_task moves the queue's reference to the CPU, init_current sets Running.
PickNext(c, t) ==
  /\ current[c] = None
  /\ ready[t] > 0
  /\ ready' = [ready EXCEPT ![t] = @ - 1]
  /\ SetState(t, "Running")
  /\ current' = [current EXCEPT ![c] = t]
  /\ UNCHANGED <<strong, panicked>>

\* set_state(Blocking), as a future does before it returns Pending.
SetBlocking(t) ==
  /\ SetState(t, "Blocking")
  /\ UNCHANGED <<ready, current, strong, panicked>>

\* Mutant: a Blocking task is queued at once, although it is still on its CPU.
WakeQueuesBlocking(t) ==
  /\ \/ /\ state[t] \in {"Running", "Runable", "Waked", "Exited"}
        /\ UNCHANGED <<state, ready>>
     \/ /\ state[t] \in {"Blocking", "Blocked"}
        /\ SetState(t, "Runable")
        /\ ready' = [ready EXCEPT ![t] = @ + 1]
  /\ UNCHANGED <<current, strong, panicked>>

\* Mutant: the wakeup of a Blocking task is ignored, as that of a Running one is.
WakeIgnoresBlocking(t) ==
  /\ \/ /\ state[t] # "Blocked"
        /\ UNCHANGED <<state, ready>>
     \/ /\ state[t] = "Blocked"
        /\ SetState(t, "Runable")
        /\ ready' = [ready EXCEPT ![t] = @ + 1]
  /\ UNCHANGED <<current, strong, panicked>>

\* The wakeup: only a Blocked task goes back to the queue, with the reference
\* that clean_current_without_drop left behind.
wakeup_task(t) ==
  /\ \/ /\ state[t] \in {"Running", "Runable"}
        /\ UNCHANGED <<state, ready, panicked>>
     \/ /\ state[t] = "Blocking"
        /\ SetState(t, "Waked")
        /\ UNCHANGED <<ready, panicked>>
     \/ /\ state[t] = "Blocked"
        /\ SetState(t, "Runable")
        /\ ready' = [ready EXCEPT ![t] = @ + 1]
        /\ UNCHANGED panicked
     \/ /\ state[t] \in {"Waked", "Exited"}
        /\ panicked' = TRUE
        /\ UNCHANGED <<state, ready>>
  /\ UNCHANGED <<current, strong>>

\* Poll::Pending with state Running: put_prev_task(curr.clone()), clean_current.
PendingRunning(c) ==
  LET t == current[c] IN
  /\ state[t] = "Running"
  /\ SetState(t, "Runable")
  /\ strong' = [strong EXCEPT ![t] = (@ + 1) - 1]
  /\ ready' = [ready EXCEPT ![t] = @ + 1]
  /\ current' = [current EXCEPT ![c] = None]
  /\ UNCHANGED panicked

\* Mutant: a blocking task is cleaned with clean_current, which drops its reference.
PendingBlockingDrops(c) ==
  LET t == current[c] IN
  /\ state[t] = "Blocking"
  /\ SetState(t, "Blocked")
  /\ strong' = [strong EXCEPT ![t] = @ - 1]
  /\ current' = [current EXCEPT ![c] = None]
  /\ UNCHANGED <<ready, panicked>>

\* Poll::Pending with state Blocking: clean_current_without_drop.
PendingBlocking(c) ==
  LET t == current[c] IN
  /\ state[t] = "Blocking"
  /\ SetState(t, "Blocked")
  /\ current' = [current EXCEPT ![c] = None]
  /\ UNCHANGED <<strong, ready, panicked>>

\* Poll::Pending with state Waked: the task stays on the CPU and is polled again.
PendingWaked(c) ==
  LET t == current[c] IN
  /\ state[t] = "Waked"
  /\ SetState(t, "Running")
  /\ UNCHANGED <<current, strong, ready, panicked>>

\* The other states of a task whose future returned Pending are panics.
PendingPanic(c) ==
  /\ state[current[c]] \in {"Runable", "Blocked", "Exited"}
  /\ panicked' = TRUE
  /\ UNCHANGED <<state, ready, current, strong>>

\* run_task after Poll::Pending (and set_task_tf, which does the same match).
PollPending(c) ==
  /\ current[c] # None
  /\ \/ PendingRunning(c)
     \/ PendingBlocking(c)
     \/ PendingWaked(c)
     \/ PendingPanic(c)

\* set_state(Exited): run_task after Poll::Ready, or exit and exit_current while
\* the task is still being polled.
SetExited(c) ==
  /\ current[c] # None
  /\ state[current[c]] \in OnCpu \cup {"Exited"}
  /\ SetState(current[c], "Exited")
  /\ UNCHANGED <<ready, current, strong, panicked>>

\* The end of run_task after Poll::Ready: clean_current drops the CPU's reference.
ExitClean(c) ==
  /\ current[c] # None
  /\ state[current[c]] = "Exited"
  /\ strong' = [strong EXCEPT ![current[c]] = @ - 1]
  /\ current' = [current EXCEPT ![c] = None]
  /\ UNCHANGED <<state, ready, panicked>>

----------------------------------------------------------------------------
(* The task layer with any tasks on top: a polled task may register its    *)
(* waker on lists and be Blocking, and whoever holds a waker may wake.     *)

Init ==
  /\ state = [t \in Task |-> "New"]
  /\ ready = [t \in Task |-> 0]
  /\ current = [c \in Cpu |-> None]
  /\ strong = [t \in Task |-> 0]
  /\ wakers = [t \in Task |-> {}]
  /\ panicked = FALSE

\* prepare_to_wait, set_alarm_wakeup, TaskInner::join: Blocking and on a list.
Register(c, n) ==
  LET t == current[c] IN
  /\ t # None
  /\ state[t] \in OnCpu
  /\ n \notin wakers[t]
  /\ SetBlocking(t)
  /\ wakers' = [wakers EXCEPT ![t] = @ \cup {n}]

\* A list gives up its waker (notify, timer event, exit) and wakes the task.
Wake(t, n) ==
  /\ n \in wakers[t]
  /\ wakers' = [wakers EXCEPT ![t] = @ \ {n}]
  /\ wakeup_task(t)

\* A future leaves a list without being woken by it (remove, cancel_alarm).
Deregister(c, n) ==
  LET t == current[c] IN
  /\ t # None
  /\ state[t] = "Running"
  /\ n \in wakers[t]
  /\ wakers' = [wakers EXCEPT ![t] = @ \ {n}]
  /\ UNCHANGED taskVars

\* One step of the CPU c.
Step(c) ==
  \/ \E t \in Task : PickNext(c, t) /\ UNCHANGED wakers
  \/ \E n \in Node : Register(c, n) \/ Deregister(c, n)
  \/ PollPending(c) /\ UNCHANGED wakers
  \/ SetExited(c) /\ UNCHANGED wakers
  \/ ExitClean(c) /\ UNCHANGED wakers

Next ==
  /\ ~panicked
  /\ \/ \E t \in Task : Spawn(t) /\ UNCHANGED wakers
     \/ \E t \in Task, n \in Node : Wake(t, n)
     \/ \E c \in Cpu : Step(c)

Spec == Init /\ [][Next]_vars

----------------------------------------------------------------------------
(* Properties.                                                             *)

TypeOK ==
  /\ state \in [Task -> TaskState \cup {"New"}]
  /\ ready \in [Task -> Nat]
  /\ current \in [Cpu -> Task \cup {None}]
  /\ strong \in [Task -> Nat]
  /\ wakers \in [Task -> SUBSET Node]
  /\ panicked \in BOOLEAN

Held(t) == \E c \in Cpu : current[c] = t

\* A task is in exactly one place.  It is in the ready queue, once, exactly when it
\* is Runable; it is the current task of a CPU when it is Running, Blocking or
\* Waked, and of one CPU only; a New or Blocked task is on no CPU.  This is what
\* the match arms of wakeup_task and run_task on the state rely on: no task is
\* queued twice, lost, or polled by two CPUs.
Ownership ==
  \A t \in Task :
    /\ ready[t] = IF state[t] = "Runable" THEN 1 ELSE 0
    /\ state[t] \in OnCpu => Held(t)
    /\ \A c \in Cpu : current[c] = t => state[t] \in OnCpu \cup {"Exited"}
    /\ \A c, d \in Cpu : current[c] = t /\ current[d] = t => c = d

\* The scheduler side holds one reference to a task for as long as the task is
\* queued, current or Blocked (the raw pointer kept by clean_current_without_drop),
\* and none afterwards: an exited task is freed, and only then.
RefCount ==
  \A t \in Task :
    strong[t] = IF ready[t] > 0 \/ Held(t) \/ state[t] = "Blocked" THEN 1 ELSE 0

\* A task that is Blocked, or about to be, is on some list that can still wake it:
\* the Waked state closes the window between registering and leaving the CPU.
BlockedHasWaker ==
  \A t \in Task : state[t] \in {"Blocking", "Blocked"} => wakers[t] # {}
=============================================================================
