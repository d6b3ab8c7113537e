-------------------------------- MODULE Join --------------------------------
(***************************************************************************)
(* Waiting for the end of a task: JoinFuture on one side, and on the other *)
(* what run_task does when a task's future is Ready, which is to make it   *)
(* Exited, to store the exit code and to wake the tasks on wait_wakers, in *)
(* this order and with nothing held across the steps.  No interrupt        *)
(* handler takes part, so the interrupt state that JoinFuture saves and    *)
(* restores is not kept (TimedWait has the same guard in SleepFuture).     *)
(***************************************************************************)
EXTENDS Naturals, Sequences, FiniteSets

CONSTANTS
  Task,      \* the tasks, numbered in the order they are created
  Cpu, None,
  Machines   \* the sets of CPUs that the kernel is started on

ASSUME TaskAssumption == Task \subseteq Nat \ {0} /\ None \notin Task
ASSUME MachinesAssumption == \A m \in Machines : m \subseteq Cpu /\ IsFiniteSet(m)

VARIABLES
  state, ready, current, strong, panicked,  \* the task layer
  cpus,         \* the CPUs that were started (SMP)
  wait_wakers,  \* TaskInner::wait_wakers, the tasks that wait for each task
  exit_code,    \* TaskInner::exit_code: 0, or the task's own value
  at,           \* where each task is
  target,       \* the task that each task waits for
  result        \* what its last join returned, and of which task

taskVars == <<state, ready, current, strong, panicked>>
joinVars == <<wait_wakers, exit_code, at, target, result>>
vars == <<taskVars, cpus, joinVars>>

\* The code task t exits with; a task's exit_code is 0 when it is created.
Code(t) == t

Waits(t, u) == \E i \in DOMAIN wait_wakers[u] : wait_wakers[u][i] = t

\* The tasks that will wake t when they exit, the one it is about to wait for included.
wakersOf(t) == {u \in Task : Waits(t, u) \/ (at[t] = "push" /\ target[t] = u)}

TL == INSTANCE TaskSched WITH Node <- Task, wakers <- [t \in Task |-> wakersOf(t)]

Goto(t, l) == at' = [at EXCEPT ![t] = l]

\* c is executing t, whose code is at l.
On(c, t, l) == current[c] = t /\ state[t] \in TL!OnCpu /\ at[t] = l

Init ==
  /\ state = [t \in Task |-> "New"]
  /\ ready = [t \in Task |-> 0]
  /\ current = [c \in Cpu |-> None]
  /\ strong = [t \in Task |-> 0]
  /\ panicked = FALSE
  /\ cpus \in Machines
  /\ wait_wakers = [t \in Task |-> <<>>]
  /\ exit_code = [t \in Task |-> 0]
  /\ at = [t \in Task |-> "idle"]
  /\ target = [t \in Task |-> None]
  /\ result = [t \in Task |-> None]

Spawn(t) == TL!Spawn(t) /\ UNCHANGED joinVars

PickNext(c, t) == TL!PickNext(c, t) /\ UNCHANGED joinVars

----------------------------------------------------------------------------
(* JoinFuture.                                                             *)

\* join(u).await: the handle of u is held by a task that existed before u.
Join(c, t, u) ==
  /\ On(c, t, "idle")
  /\ t < u
  /\ state[u] # "New"
  /\ target' = [target EXCEPT ![t] = u]
  /\ Goto(t, "poll")
  /\ UNCHANGED <<taskVars, wait_wakers, exit_code, result>>

\* poll finds the task Exited, and goes on to read its code.
PollExited(c, t) ==
  /\ On(c, t, "poll")
  /\ state[target[t]] = "Exited"
  /\ Goto(t, "read")
  /\ UNCHANGED <<taskVars, wait_wakers, exit_code, target, result>>

\* Poll::Ready(Some(exit_code)).
Return(c, t) ==
  /\ On(c, t, "read")
  /\ result' = [result EXCEPT ![t] = <<target[t], exit_code[target[t]]>>]
  /\ target' = [target EXCEPT ![t] = None]
  /\ Goto(t, "idle")
  /\ UNCHANGED <<taskVars, wait_wakers, exit_code>>

\* poll finds it not Exited, and goes on to TaskInner::join, ...
PollNotExited(c, t) ==
  /\ On(c, t, "poll")
  /\ state[target[t]] # "Exited"
  /\ Goto(t, "join")
  /\ UNCHANGED <<taskVars, wait_wakers, exit_code, target, result>>

\* Mutant: the caller is left Running.
JoinRunning(c, t) ==
  /\ On(c, t, "join")
  /\ Goto(t, "push")
  /\ UNCHANGED <<taskVars, wait_wakers, exit_code, target, result>>

\* ... which makes the caller Blocking ...
JoinBlocking(c, t) ==
  /\ On(c, t, "join")
  /\ TL!SetBlocking(t)
  /\ Goto(t, "push")
  /\ UNCHANGED <<wait_wakers, exit_code, target, result>>

\* ... and adds its waker to the list of the task.
JoinPush(c, t) ==
  /\ On(c, t, "push")
  /\ wait_wakers' = [wait_wakers EXCEPT ![target[t]] = Append(@, t)]
  /\ Goto(t, "pending")
  /\ UNCHANGED <<taskVars, exit_code, target, result>>

\* Poll::Pending: the task is polled again once it is woken.
Pending(c, t) ==
  /\ On(c, t, "pending")
  /\ TL!PollPending(c)
  /\ Goto(t, "poll")
  /\ UNCHANGED <<wait_wakers, exit_code, target, result>>

----------------------------------------------------------------------------
(* The end of a task, in run_task.                                         *)

Yield(c, t) ==
  /\ On(c, t, "idle")
  /\ TL!PollPending(c)
  /\ UNCHANGED joinVars

\* Poll::Ready: set_state(Exited).
Exit(c, t) ==
  /\ On(c, t, "idle")
  /\ TL!SetExited(c)
  /\ Goto(t, "set_code")
  /\ UNCHANGED <<wait_wakers, exit_code, target, result>>

\* c is executing the end of t at l.
Ending(c, t, l) == current[c] = t /\ state[t] = "Exited" /\ at[t] = l

\* Mutant: the code is not stored.
SetCodeForgotten(c, t) ==
  /\ Ending(c, t, "set_code")
  /\ Goto(t, "notify")
  /\ UNCHANGED <<taskVars, wait_wakers, exit_code, target, result>>

\* set_exit_code.
SetCode(c, t) ==
  /\ Ending(c, t, "set_code")
  /\ exit_code' = [exit_code EXCEPT ![t] = Code(t)]
  /\ Goto(t, "notify")
  /\ UNCHANGED <<taskVars, wait_wakers, target, result>>

\* Mutant: the waker stays in the list.
NotifyKeeps(c, t) ==
  /\ Ending(c, t, "notify")
  /\ wait_wakers[t] # <<>>
  /\ TL!wakeup_task(Head(wait_wakers[t]))
  /\ UNCHANGED joinVars

\* Mutant: the first waker is dropped without being woken.
NotifyDrops(c, t) ==
  /\ Ending(c, t, "notify")
  /\ wait_wakers[t] # <<>>
  /\ wait_wakers' = [wait_wakers EXCEPT ![t] = Tail(@)]
  /\ UNCHANGED <<taskVars, exit_code, at, target, result>>

\* notify_waker_for_exit takes the first waker and wakes it ...
Notify(c, t) ==
  /\ Ending(c, t, "notify")
  /\ wait_wakers[t] # <<>>
  /\ wait_wakers' = [wait_wakers EXCEPT ![t] = Tail(@)]
  /\ TL!wakeup_task(Head(wait_wakers[t]))
  /\ UNCHANGED <<exit_code, at, target, result>>

\* ... until there is none left.
NotifyDone(c, t) ==
  /\ Ending(c, t, "notify")
  /\ wait_wakers[t] = <<>>
  /\ Goto(t, "gone")
  /\ UNCHANGED <<taskVars, wait_wakers, exit_code, target, result>>

\* clean_current.
Clean(c, t) ==
  /\ Ending(c, t, "gone")
  /\ TL!ExitClean(c)
  /\ UNCHANGED joinVars

----------------------------------------------------------------------------
\* The steps of t that follow from its code.
Proceed(c, t) ==
  \/ PollExited(c, t) \/ Return(c, t) \/ PollNotExited(c, t)
  \/ JoinBlocking(c, t) \/ JoinPush(c, t) \/ Pending(c, t)
  \/ SetCode(c, t) \/ Notify(c, t) \/ NotifyDone(c, t) \/ Clean(c, t)

Next ==
  /\ ~panicked
  /\ UNCHANGED cpus
  /\ \/ \E t \in Task : Spawn(t)
     \/ \E c \in cpus, t \in Task :
          \/ PickNext(c, t)
          \/ \E u \in Task : Join(c, t, u)
          \/ Proceed(c, t)
          \/ Yield(c, t)
          \/ Exit(c, t)

Spec == Init /\ [][Next]_vars

\* The scheduler gives every queued task a CPU, a task goes on with its code, and the
\* tasks do not run for ever.
Fairness ==
  \A t \in Task :
    /\ SF_vars(\E c \in cpus : UNCHANGED cpus /\ PickNext(c, t))
    /\ WF_vars(\E c \in cpus : UNCHANGED cpus /\ Proceed(c, t))
    /\ SF_vars(\E c \in cpus : UNCHANGED cpus /\ Exit(c, t))

FairSpec == Spec /\ Fairness

----------------------------------------------------------------------------
(* Properties.                                                             *)

Uniprocessor == Cardinality(cpus) = 1

\* On one CPU a join returns the code its task exited with, although run_task stores
\* the code after the state; and on any number the end of a task never wakes a task in a state
\* that wakeup_task refuses, whatever other tasks it waits for.
JoinCode ==
  /\ ~panicked
  /\ Uniprocessor => \A t \in Task : result[t] # None => result[t][2] = Code(result[t][1])

\* On one CPU every join returns.
JoinReturns == \A t \in Task : Uniprocessor /\ at[t] = "poll" ~> at[t] = "idle"

\* Joining uses the task layer as TaskSched allows.
UsesTaskLayer == TL!Spec
=============================================================================
